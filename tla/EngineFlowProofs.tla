--------------------------- MODULE EngineFlowProofs ---------------------------
(***************************************************************************)
(* No gradient is lost, counted twice or still on its way when a function  *)
(* is evaluated, execute() returns only when everything has been computed, *)
(* and the engine implements the abstract backward pass: for every graph,  *)
(* every number of devices and every set of concurrent and reentrant       *)
(* calls.                                                                  *)
(*                                                                         *)
(* The argument follows the edges.  An edge is held as long as its         *)
(* function has not returned or the loop over its outputs has not come to  *)
(* that edge, and sent afterwards.                                         *)
(***************************************************************************)
EXTENDS AutogradEngineProofs

Held(t, e) ==
  \/ applied[t][e[1]] = NoBuffer
  \/ \E j \in Jobs : /\ job[j].base = t /\ job[j].fn = e[1]
                     /\ \/ job[j].pc = "lock"
                        \/ job[j].pc = "propagate" /\ job[j].i <= e[2]

(* The edges into f that count for call t, the ones of them it still waits *)
(* for, and the gradients that came along the others.                      *)
Into(t, f)     == EdgesInto(NextOf[t], Reachable[t], f)
Unsent(t, f)   == {e \in Into(t, f) : Held(t, e)}
Received(t, f) == {e \in Into(t, f) : ~ Held(t, e) /\ e \in applied[t][e[1]]}

(* What call t queues sooner or later. *)
Wanted(t) == Needed[t] \cup (Outputs[t] \cap Reachable[t])

(***************************************************************************)
(* The inductive invariant.                                                *)
(***************************************************************************)
DependInv ==
  \A t \in Tasks : phase[t] # "idle" =>
    \A f \in Fns : dependencies[t][f] = Cardinality(Unsent(t, f))

QueueInv ==
  \A w \in Workers : \A x \in ready[w] : x.fn # NullFn =>
    /\ x.fn \in Wanted(x.base) /\ Unsent(x.base, x.fn) = {}
    /\ x.inputs = Received(x.base, x.fn)

ActiveOK(jb) ==
  jb.pc \in Active =>
    /\ jb.fn \in Wanted(jb.base) /\ Unsent(jb.base, jb.fn) = {}
    /\ jb.pc \in {"capture", "call"} => jb.inputs = Received(jb.base, jb.fn)
    /\ jb.pc = "capture" => jb.fn \in Outputs[jb.base]
    /\ jb.pc # "capture" =>
         /\ jb.fn \in Needed[jb.base]
         /\ jb.fn \in Outputs[jb.base] => captured_vars[jb.base][jb.fn] # NoBuffer
    /\ jb.pc = "except" => applied[jb.base][jb.fn] = NoBuffer
ActiveInv == \A j \in Jobs : ActiveOK(job[j])

AppliedInv ==
  \A t \in Tasks, f \in Nodes : applied[t][f] # NoBuffer => f \in Needed[t]

CapturedInv ==
  \A t \in Tasks, f \in Fns : captured_vars[t][f] # NoBuffer =>
    Unsent(t, f) = {} /\ captured_vars[t][f] = Received(t, f)

WaitingInv ==
  \A t \in Tasks, f \in Fns :
    /\ not_ready[t][f] # NoBuffer =>
         /\ f \in Wanted(t) /\ Unsent(t, f) # {}
         /\ not_ready[t][f] = Received(t, f)
    /\ not_ready[t][f] = NoBuffer /\ f \in Wanted(t) /\ Unsent(t, f) # {} =>
         Received(t, f) = {}

(* A function that has all its gradients is on its way or has been         *)
(* evaluated, unless there was an error.                                   *)
InFlight(t, f) ==
  \/ \E w \in Workers : \E x \in ready[w] : x.base = t /\ x.fn = f
  \/ \E j \in Jobs : /\ job[j].base = t /\ job[j].fn = f
                     /\ job[j].pc \in {"capture", "call", "apply", "except"}
Processed(t, f) ==
  /\ f \in Outputs[t] => captured_vars[t][f] # NoBuffer
  /\ f \in Needed[t] => applied[t][f] # NoBuffer
NoLossInv ==
  \A t \in Tasks : phase[t] # "idle" /\ ~ has_error[t] =>
    \A f \in Wanted(t) :
       Unsent(t, f) = {} => InFlight(t, f) \/ Processed(t, f)

FreshInv ==
  \A t \in Tasks : phase[t] = "idle" =>
    /\ ~ has_error[t]
    /\ \A f \in Fns : not_ready[t][f] = NoBuffer /\ captured_vars[t][f] = NoBuffer

ResultInv ==
  \A t \in Tasks :
    /\ phase[t] # "returned" => result[t] = "none"
    /\ phase[t] = "returned" => result[t] = IF has_error[t] THEN "error" ELSE "ok"

FlowInv ==
  /\ DependInv /\ QueueInv /\ ActiveInv /\ AppliedInv /\ CapturedInv
  /\ WaitingInv /\ NoLossInv /\ FreshInv /\ ResultInv
-----------------------------------------------------------------------------
(***************************************************************************)
(* Reachability.                                                           *)
(***************************************************************************)
(* An edge of p leads to what p reaches. *)
LEMMA EdgeTarget ==
  ASSUME NEW t \in Tasks, NEW p \in Nodes, NEW i \in DOMAIN NextOf[t][p],
         NextOf[t][p][i] \in Fns
  PROVE  /\ <<p, i>> \in EdgesOf(NextOf[t], {p})
         /\ NextOf[t][p][i] \in Successors(NextOf[t], {p})
<1>1. DOMAIN NextOf[t] = Nodes BY DEF NextOf
<1>2. <<p, i>> \in {p} \X DOMAIN NextOf[t][p] OBVIOUS
<1>3. <<p, i>> \in EdgesOf(NextOf[t], {p}) BY <1>1, <1>2 DEF EdgesOf
<1>4. <<p, i>>[1] = p /\ <<p, i>>[2] = i OBVIOUS
<1> QED BY <1>1, <1>3, <1>4 DEF Successors, Nodes

LEMMA ReachableFacts ==
  ASSUME NEW t \in Tasks
  PROVE  /\ GraphRoot \in Reachable[t] /\ Reachable[t] \subseteq Nodes
         /\ Needed[t] \subseteq Reachable[t] /\ GraphRoot \in Needed[t]
         /\ \A p \in Reachable[t] : \A i \in DOMAIN NextOf[t][p] :
              NextOf[t][p][i] \in Fns => NextOf[t][p][i] \in Reachable[t]
<1>1. DOMAIN NextOf[t] = Nodes /\ GraphRoot \in Nodes BY DEF NextOf, Nodes
<1>2. Reachable[t] = Closure(NextOf[t], {GraphRoot}) BY DEF Reachable
<1>3. /\ GraphRoot \in Reachable[t] /\ Reachable[t] \subseteq Nodes
      /\ Successors(NextOf[t], Reachable[t]) \subseteq Reachable[t]
  BY <1>1, <1>2, ClosureFacts
<1>4. Needed[t] \subseteq Reachable[t] /\ GraphRoot \in Needed[t]
  BY <1>2, <1>3 DEF Needed, NeededFor
<1>5. ASSUME NEW p \in Reachable[t], NEW i \in DOMAIN NextOf[t][p],
             NextOf[t][p][i] \in Fns
      PROVE  NextOf[t][p][i] \in Reachable[t]
  <2>1. NextOf[t][p][i] \in Successors(NextOf[t], {p}) BY <1>3, <1>5, EdgeTarget
  <2>2. Successors(NextOf[t], {p}) \subseteq Successors(NextOf[t], Reachable[t])
    BY DEF Successors, EdgesOf
  <2> QED BY <1>3, <2>1, <2>2
<1> QED BY <1>3, <1>4, <1>5

(* What leads to a function the call evaluates or captures is evaluated.   *)
LEMMA NeededSenders ==
  ASSUME NEW t \in Tasks, NEW p \in Reachable[t], NEW i \in DOMAIN NextOf[t][p],
         NextOf[t][p][i] \in Fns, NextOf[t][p][i] \in Wanted(t)
  PROVE  p \in Needed[t]
<1>1. CASE ~ GradMode(t) BY <1>1 DEF Needed
<1>2. CASE GradMode(t)
  <2> DEFINE next == NextOf[t]
             f == next[p][i]
             below == Closure(next, Successors(next, {p}))
  <2>1. p \in Nodes BY ReachableFacts
  <2>2. f \in Successors(next, {p}) BY <2>1, EdgeTarget
  <2>3. /\ Successors(next, {p}) \subseteq below
        /\ Successors(next, below) \subseteq below
    BY ClosureFacts
  <2>4. f \in below BY <2>2, <2>3
  <2>5. Needed[t] = NeededFor(next, GraphRoot, Outputs[t]) BY <1>2 DEF Needed
  <2>6. SUFFICES below \cap Outputs[t] # {}
    BY <2>5 DEF NeededFor, Reachable
  <2>7. CASE f \in Outputs[t] BY <2>4, <2>7
  <2>8. CASE f \in Needed[t]
    <3>1. f # GraphRoot BY NamesAssumption
    <3>2. Closure(next, Successors(next, {f})) \cap Outputs[t] # {}
      BY <2>5, <2>8, <3>1 DEF NeededFor
    <3>3. Successors(next, {f}) \subseteq below
      <4>1. Successors(next, {f}) \subseteq Successors(next, below)
        BY <2>4 DEF Successors, EdgesOf
      <4> QED BY <2>3, <4>1
    <3>4. below \in Closed(next, Successors(next, {f}))
      <4>1. below \subseteq DOMAIN next \cup Successors(next, {p}) BY ClosureFacts
      <4>2. below \subseteq DOMAIN next BY <4>1 DEF Successors
      <4> HIDE DEF below
      <4> QED BY <2>3, <3>3, <4>2 DEF Closed
    <3>5. Closure(next, Successors(next, {f})) \subseteq below
      BY <3>4, ClosureFacts
    <3> QED BY <3>2, <3>5
  <2> QED BY <2>7, <2>8 DEF Wanted
<1> QED BY <1>1, <1>2

(* How much a function reaches: more than anything it leads to. *)
Reach(t, f) == Cardinality(Closure(NextOf[t], {f}))
LEMMA ReachDecreases ==
  ASSUME NEW t \in Tasks, NEW p \in Nodes, NEW i \in DOMAIN NextOf[t][p],
         NextOf[t][p][i] \in Fns
  PROVE  /\ Reach(t, p) \in Nat /\ Reach(t, p) <= Cardinality(Nodes)
         /\ Reach(t, NextOf[t][p][i]) \in Nat
         /\ Reach(t, NextOf[t][p][i]) < Reach(t, p)
         /\ Cardinality(Nodes) \in Nat
<1> DEFINE next == NextOf[t]
           f == next[p][i]
           S == Closure(next, {p})
           T == Closure(next, {f})
           below == Closure(next, Successors(next, {p}))
<1>1. DOMAIN next = Nodes /\ f \in Nodes BY DEF NextOf, Nodes
<1>2. IsFiniteSet(Nodes)
  BY GraphAssumption, FS_AddElement DEF Nodes
<1>3. /\ p \in S /\ S \subseteq Nodes /\ T \subseteq Nodes
      /\ Successors(next, S) \subseteq S
  BY <1>1, ClosureFacts
<1>4. f \in Successors(next, {p}) BY EdgeTarget
<1>5. Successors(next, {p}) \subseteq Successors(next, S)
  BY <1>3 DEF Successors, EdgesOf
<1>6. f \in S BY <1>3, <1>4, <1>5
<1>7. T \subseteq S
  <2>1. S \in Closed(next, {f}) BY <1>1, <1>3, <1>6 DEF Closed
  <2> QED BY <2>1, ClosureFacts
<1>8. p \notin T
  <2>1. p \notin below BY <1>1, AcyclicAssumption DEF Acyclic
  <2>2. /\ Successors(next, {p}) \subseteq below
        /\ below \subseteq DOMAIN next \cup Successors(next, {p})
        /\ Successors(next, below) \subseteq below
    BY ClosureFacts
  <2>3. below \subseteq Nodes BY <1>1, <2>2 DEF Successors
  <2> HIDE DEF below
  <2>4. below \in Closed(next, {f}) BY <1>1, <1>4, <2>2, <2>3 DEF Closed
  <2>5. T \subseteq below BY <2>4, ClosureFacts
  <2> QED BY <2>1, <2>5
<1> HIDE DEF S, T
<1>9. IsFiniteSet(S) /\ Cardinality(S) <= Cardinality(Nodes)
  BY <1>2, <1>3, FS_Subset
<1>10. IsFiniteSet(S \ {p}) /\ Cardinality(S \ {p}) = Cardinality(S) - 1
  BY <1>3, <1>9, FS_RemoveElement
<1>11. T \subseteq S \ {p} BY <1>7, <1>8
<1>12. IsFiniteSet(T) /\ Cardinality(T) <= Cardinality(S \ {p})
  BY <1>10, <1>11, FS_Subset
<1>13. /\ Cardinality(S) \in Nat /\ Cardinality(T) \in Nat
       /\ Cardinality(S \ {p}) \in Nat /\ Cardinality(Nodes) \in Nat
  BY <1>2, <1>9, <1>10, <1>12, FS_CardinalityType
<1>14. Cardinality(T) < Cardinality(S) BY <1>10, <1>12, <1>13
<1> QED BY <1>9, <1>13, <1>14 DEF Reach, S, T

(* In a set of functions in which every function has a sender in the set   *)
(* there is none.                                                          *)
AllSentTo(t, U) ==
  \A f \in U : \E p \in U : \E i \in DOMAIN NextOf[t][p] :
     NextOf[t][p][i] = f /\ f \in Fns

LEMMA NoEndlessSenders ==
  ASSUME NEW t \in Tasks, NEW U, U \subseteq Nodes, AllSentTo(t, U)
  PROVE  U = {}
<1> SUFFICES ASSUME U # {} PROVE FALSE OBVIOUS
<1> DEFINE N == Cardinality(Nodes)
           S == {N - Reach(t, f) : f \in U}
<1>1. \A f \in U : \E p \in U :
        /\ Reach(t, p) \in Nat /\ Reach(t, p) <= N /\ Reach(t, f) \in Nat
        /\ Reach(t, f) < Reach(t, p) /\ N \in Nat
  BY ReachDecreases DEF AllSentTo
<1> HIDE DEF N
<1>2. \A f \in U : N - Reach(t, f) \in Nat
  BY <1>1
<1>3. S \in SUBSET Nat /\ S # {} BY <1>2
<1>4. PICK m \in S : \A k \in S : m <= k BY <1>3, MinExists
<1>5. PICK f \in U : m = N - Reach(t, f) BY <1>4
<1>6. PICK p \in U :
        /\ Reach(t, p) \in Nat /\ Reach(t, p) <= N /\ Reach(t, f) \in Nat
        /\ Reach(t, f) < Reach(t, p) /\ N \in Nat
  BY <1>1
<1>7. N - Reach(t, p) \in S OBVIOUS
<1>8. m <= N - Reach(t, p) BY <1>4, <1>7
<1> QED BY <1>5, <1>6, <1>8

-----------------------------------------------------------------------------
(***************************************************************************)
(* Edges.                                                                  *)
(***************************************************************************)
LEMMA IntoFacts ==
  ASSUME NEW t \in Tasks, NEW f \in Nodes
  PROVE  /\ \A e : e \in Into(t, f) <=>
              /\ e \in EdgesOf(NextOf[t], Nodes) /\ e[1] \in Reachable[t]
              /\ NextOf[t][e[1]][e[2]] = f
         /\ \A e \in Into(t, f) : LeadsTo(t, e, f) /\ f \in Fns
         /\ IsFiniteSet(Into(t, f))
<1>1. DOMAIN NextOf[t] = Nodes /\ Reachable[t] \subseteq Nodes
  BY ReachableFacts DEF NextOf
<1>2. \A e : e \in EdgesOf(NextOf[t], Reachable[t]) <=>
               e \in EdgesOf(NextOf[t], Nodes) /\ e[1] \in Reachable[t]
  BY <1>1 DEF EdgesOf
<1>3. \A e \in EdgesOf(NextOf[t], Nodes) :
         e[1] \in Nodes /\ e[2] \in DOMAIN NextOf[t][e[1]]
  BY <1>1 DEF EdgesOf
<1>4. \A e : e \in Into(t, f) <=>
              /\ e \in EdgesOf(NextOf[t], Nodes) /\ e[1] \in Reachable[t]
              /\ NextOf[t][e[1]][e[2]] = f
  BY <1>2 DEF Into, EdgesInto
<1>5. \A e \in Into(t, f) : LeadsTo(t, e, f) /\ f \in Fns
  <2> SUFFICES ASSUME NEW e \in Into(t, f) PROVE LeadsTo(t, e, f) /\ f \in Fns
    OBVIOUS
  <2>1. e[1] \in Nodes /\ e[2] \in DOMAIN NextOf[t][e[1]] /\ NextOf[t][e[1]][e[2]] = f
    BY <1>3, <1>4
  <2>2. NextOf[t][e[1]] \in Seq(Fns \cup {NullFn}) BY <2>1, NextOfType
  <2>3. f \in Fns \cup {NullFn} BY <2>1, <2>2
  <2> QED BY <2>1, <2>3, NamesAssumption DEF LeadsTo
<1>6. IsFiniteSet(Into(t, f)) BY EdgesFinite, FS_Subset DEF Into, EdgesInto
<1> QED BY <1>4, <1>5, <1>6

LEMMA EdgePairs ==
  ASSUME NEW t \in Tasks, NEW e \in EdgesOf(NextOf[t], Nodes)
  PROVE  /\ e[1] \in Nodes /\ e[2] \in DOMAIN NextOf[t][e[1]] /\ e = <<e[1], e[2]>>
         /\ e[2] \in Nat \ {0} /\ e[2] <= Len(NextOf[t][e[1]])
         /\ Len(NextOf[t][e[1]]) \in Nat
<1>1. DOMAIN NextOf[t] = Nodes BY DEF NextOf
<1>2. e[1] \in Nodes /\ e[2] \in DOMAIN NextOf[t][e[1]] /\ e = <<e[1], e[2]>>
  BY <1>1 DEF EdgesOf
<1>3. NextOf[t][e[1]] \in Seq(Fns \cup {NullFn}) BY <1>2, NextOfType
<1> QED BY <1>2, <1>3

(* No edge is sent and no gradient of a sent edge changes. *)
FlowSame ==
  \A t \in Tasks, f \in Nodes :
    Unsent(t, f)' = Unsent(t, f) /\ Received(t, f)' = Received(t, f)

LEMMA SameFlow ==
  ASSUME \A t \in Tasks : \A e \in EdgesOf(NextOf[t], Nodes) :
           NextOf[t][e[1]][e[2]] \in Fns =>
            /\ Held(t, e)' <=> Held(t, e)
            /\ ~ Held(t, e) => applied'[t][e[1]] = applied[t][e[1]]
  PROVE  FlowSame
<1> SUFFICES ASSUME NEW t \in Tasks, NEW f \in Nodes
             PROVE  Unsent(t, f)' = Unsent(t, f) /\ Received(t, f)' = Received(t, f)
  BY DEF FlowSame
<1>1. \A e \in Into(t, f) : /\ Held(t, e)' <=> Held(t, e)
                            /\ ~ Held(t, e) => applied'[t][e[1]] = applied[t][e[1]]
  BY IntoFacts
<1>2. Into(t, f)' = Into(t, f) BY DEF Into
<1>3. Unsent(t, f)' = Unsent(t, f) BY <1>1, <1>2 DEF Unsent
<1>4. Received(t, f)' = Received(t, f) BY <1>1, <1>2 DEF Received
<1> QED BY <1>3, <1>4

(* An edge of a function that is not in the loop over its outputs. *)
LEMMA SameHeld ==
  ASSUME UNCHANGED applied,
         \A j : j \in Jobs' /\ job'[j].pc \in {"lock", "propagate"} =>
                  j \in Jobs /\ job'[j] = job[j],
         \A j : j \in Jobs /\ job[j].pc \in {"lock", "propagate"} =>
                  j \in Jobs' /\ job'[j] = job[j]
  PROVE  FlowSame
<1>1. \A t \in Tasks : \A e \in EdgesOf(NextOf[t], Nodes) : Held(t, e)' <=> Held(t, e)
  BY DEF Held
<1> QED BY <1>1, SameFlow

(* The steps that do not concern any function. *)
LEMMA QuietFlow ==
  ASSUME EngineInv, FlowInv,
         \A j : j \in Jobs' /\ job'[j].pc \in Active =>
                  j \in Jobs /\ job'[j] = job[j],
         \A j : j \in Jobs /\ job[j].pc \in Active =>
                  j \in Jobs' /\ job'[j] = job[j],
         \A w \in Workers : \A x : x.fn # NullFn =>
                  (x \in ready'[w] <=> x \in ready[w]),
         UNCHANGED <<dependencies, not_ready, captured_vars, applied, has_error>>,
         \A t \in Tasks : phase'[t] = "idle" <=> phase[t] = "idle",
         ResultInv'
  PROVE  FlowInv'
<1> USE DEF FlowInv
<1>1. FlowSame BY SameHeld DEF Active
<1>2. \A t \in Tasks, f \in Nodes :
         Unsent(t, f)' = Unsent(t, f) /\ Received(t, f)' = Received(t, f)
  BY <1>1 DEF FlowSame
<1>3. \A t \in Tasks, f \in Fns :
         Unsent(t, f)' = Unsent(t, f) /\ Received(t, f)' = Received(t, f)
  BY <1>2 DEF Nodes
<1>4. DependInv' BY <1>3 DEF DependInv
<1>5. QueueInv'
  <2> SUFFICES ASSUME NEW w \in Workers, NEW x \in ready'[w], x.fn # NullFn
               PROVE  /\ x.fn \in Wanted(x.base) /\ Unsent(x.base, x.fn)' = {}
                      /\ x.inputs = Received(x.base, x.fn)'
    BY DEF QueueInv, Wanted
  <2>1. x \in ready[w] OBVIOUS
  <2>2. x.base \in Tasks /\ x.fn \in Nodes BY <2>1, QueueTypes DEF EngineInv
  <2> QED BY <1>2, <2>1, <2>2 DEF QueueInv
<1>6. ActiveInv'
  <2> SUFFICES ASSUME NEW j \in Jobs', job'[j].pc \in Active
               PROVE  ActiveOK(job[j])'
    BY DEF ActiveInv, ActiveOK
  <2>1. j \in Jobs /\ job'[j] = job[j] OBVIOUS
  <2>2. job[j].base \in Tasks /\ job[j].fn \in Nodes
    BY <2>1, QueueTypes DEF EngineInv
  <2>3. ActiveOK(job[j]) BY <2>1 DEF ActiveInv
  <2> QED BY <1>2, <2>1, <2>2, <2>3 DEF ActiveOK, Wanted
<1>7. AppliedInv' BY DEF AppliedInv
<1>8. CapturedInv' BY <1>3 DEF CapturedInv
<1>9. WaitingInv' BY <1>3 DEF WaitingInv, Wanted
<1>10. NoLossInv'
  <2>0. \A t \in Tasks : Wanted(t) \subseteq Nodes
    BY ReachableFacts DEF Wanted
  <2> SUFFICES ASSUME NEW t \in Tasks, phase[t] # "idle", ~ has_error[t],
                      NEW f \in Wanted(t), Unsent(t, f)' = {}
               PROVE  InFlight(t, f)' \/ Processed(t, f)'
    BY DEF NoLossInv, Wanted
  <2>1. f \in Nodes /\ Unsent(t, f) = {} BY <1>2, <2>0
  <2>2. InFlight(t, f) \/ Processed(t, f) BY <2>1 DEF NoLossInv
  <2>3. f # NullFn BY <2>1, NamesAssumption
  <2>4. InFlight(t, f) => InFlight(t, f)' BY <2>3 DEF InFlight, Active
  <2>5. Processed(t, f) => Processed(t, f)' BY DEF Processed
  <2> QED BY <2>2, <2>4, <2>5
<1>11. FreshInv' BY DEF FreshInv
<1> QED BY <1>4, <1>5, <1>6, <1>7, <1>8, <1>9, <1>10, <1>11

(* The job of w goes on, with the edges as they are. *)
LEMMA AdvanceFlow ==
  ASSUME EngineInv, FlowInv, NEW w \in Workers, NEW from, NEW new, NEW h,
         h = Here(w), Advances(w, from, new), FlowSame,
         UNCHANGED <<ready, dependencies, not_ready, phase, result>>,
         \A t \in Tasks, f \in Nodes :
            applied[t][f] # NoBuffer => applied'[t][f] # NoBuffer,
         \A t \in Tasks, f \in Nodes : t # Now(w).base \/ f # Now(w).fn =>
            applied'[t][f] = applied[t][f],
         from # "apply" => UNCHANGED applied,
         \A t \in Tasks, f \in Fns :
            captured_vars[t][f] # NoBuffer => captured_vars'[t][f] # NoBuffer,
         \A t \in Tasks : has_error[t] => has_error'[t],
         \A t \in Tasks : phase[t] \in {"idle", "returned"} =>
            has_error'[t] = has_error[t] /\ captured_vars'[t] = captured_vars[t],
         AppliedInv', CapturedInv', ActiveOK(new)',
         new.base = Now(w).base, new.fn = Now(w).fn,
         from \in Active \/ new.pc \notin Active,
         from \in {"capture", "call", "apply", "except"} =>
            has_error'[new.base] \/ InFlight(new.base, new.fn)'
              \/ Processed(new.base, new.fn)'
  PROVE  FlowInv'
<1> USE DEF FlowInv
<1>1. \A t \in Tasks, f \in Nodes :
         Unsent(t, f)' = Unsent(t, f) /\ Received(t, f)' = Received(t, f)
  BY DEF FlowSame
<1>2. \A t \in Tasks, f \in Fns :
         Unsent(t, f)' = Unsent(t, f) /\ Received(t, f)' = Received(t, f)
  BY <1>1 DEF Nodes
<1>3. /\ Jobs' = Jobs /\ h \in Jobs /\ h[1] = w /\ job'[h] = new
      /\ \A j \in Jobs : j # h => job'[j] = job[j]
      /\ job[h] = Now(w) /\ Now(w).pc = from /\ Now(w).base \in Tasks
  BY AdvanceFacts DEF EngineInv
<1>4. DependInv' BY <1>2 DEF DependInv
<1>5. QueueInv'
  <2> SUFFICES ASSUME NEW v \in Workers, NEW x \in ready[v], x.fn # NullFn
               PROVE  /\ x.fn \in Wanted(x.base) /\ Unsent(x.base, x.fn)' = {}
                      /\ x.inputs = Received(x.base, x.fn)'
    BY DEF QueueInv, Wanted
  <2>1. x.base \in Tasks /\ x.fn \in Nodes BY QueueTypes DEF EngineInv
  <2> QED BY <1>1, <2>1 DEF QueueInv
<1>6. ActiveInv'
  <2> SUFFICES ASSUME NEW j \in Jobs, job'[j].pc \in Active
               PROVE  ActiveOK(job[j])'
    BY <1>3 DEF ActiveInv, ActiveOK
  <2>1. CASE j = h BY <2>1, <1>3
  <2>2. CASE j # h
    <3>1. job'[j] = job[j] BY <1>3, <2>2
    <3>2. job[j].base \in Tasks /\ job[j].fn \in Nodes
      BY <3>1, QueueTypes DEF EngineInv
    <3>3. ActiveOK(job[j]) BY DEF ActiveInv
    <3>4. job[j].pc = "except" =>
            applied'[job[j].base][job[j].fn] = applied[job[j].base][job[j].fn]
      <4> SUFFICES ASSUME job[j].pc = "except", job[j].base = Now(w).base,
                          job[j].fn = Now(w).fn
                   PROVE  applied'[job[j].base][job[j].fn] =
                            applied[job[j].base][job[j].fn]
        BY <3>2
      <4>1. from \notin Active
        BY <1>3, <2>2 DEF EngineInv, CoreInv, OnceInv, Active
      <4> QED BY <4>1 DEF Active
    <3>5. /\ Unsent(job[j].base, job[j].fn)' = Unsent(job[j].base, job[j].fn)
          /\ Received(job[j].base, job[j].fn)' = Received(job[j].base, job[j].fn)
      BY <1>1, <3>1, <3>2
    <3>6. job[j].fn \in Outputs[job[j].base] => job[j].fn \in Fns
      BY <3>2, GraphAssumption
    <3> QED BY <3>1, <3>2, <3>3, <3>4, <3>5, <3>6 DEF ActiveOK, Wanted
  <2> QED BY <2>1, <2>2
<1>9. WaitingInv' BY <1>2 DEF WaitingInv, Wanted
<1>10. NoLossInv'
  <2>0. \A t \in Tasks : Wanted(t) \subseteq Nodes
    BY ReachableFacts DEF Wanted
  <2> SUFFICES ASSUME NEW t \in Tasks, phase[t] # "idle", ~ has_error'[t],
                      NEW f \in Wanted(t), Unsent(t, f)' = {}
               PROVE  InFlight(t, f)' \/ Processed(t, f)'
    BY DEF NoLossInv, Wanted
  <2>1. f \in Nodes /\ Unsent(t, f) = {} /\ ~ has_error[t] BY <1>1, <2>0
  <2>2. InFlight(t, f) \/ Processed(t, f) BY <2>1 DEF NoLossInv
  <2>3. Processed(t, f) => Processed(t, f)'
    <3>1. f \in Outputs[t] => f \in Fns BY GraphAssumption
    <3> QED BY <2>1, <3>1 DEF Processed
  <2>4. CASE \E v \in Workers : \E x \in ready[v] : x.base = t /\ x.fn = f
    BY <2>4 DEF InFlight
  <2>5. ASSUME NEW j \in Jobs, job[j].base = t, job[j].fn = f,
               job[j].pc \in {"capture", "call", "apply", "except"}
        PROVE  InFlight(t, f)' \/ Processed(t, f)'
    <3>1. CASE j = h BY <3>1, <2>5, <1>3
    <3>2. CASE j # h BY <3>2, <2>5, <1>3 DEF InFlight
    <3> QED BY <3>1, <3>2
  <2> QED BY <2>2, <2>3, <2>4, <2>5 DEF InFlight
<1>11. FreshInv' BY DEF FreshInv
<1>12. ResultInv' BY DEF ResultInv
<1> QED BY <1>4, <1>5, <1>6, <1>9, <1>10, <1>11, <1>12
-----------------------------------------------------------------------------
(***************************************************************************)
(* The steps of a job before and between its outputs.                      *)
(***************************************************************************)
LEMMA AdvanceHeld ==
  ASSUME TypeInv, NEW w \in Workers, NEW from, NEW new, Advances(w, from, new),
         from \notin {"lock", "propagate"}, new.pc \notin {"lock", "propagate"},
         UNCHANGED applied
  PROVE  FlowSame
<1>1. PICK h : h = Here(w) OBVIOUS
<1>2. /\ Jobs' = Jobs /\ h \in Jobs /\ job'[h] = new
      /\ \A j \in Jobs : j # h => job'[j] = job[j]
      /\ job[h].pc = from
  BY <1>1, AdvanceFacts
<1> QED BY <1>2, SameHeld

(* The job is unlike any other that is active for the same function. *)
LEMMA OnlyJob ==
  ASSUME EngineInv, NEW i \in Jobs, NEW j \in Jobs,
         job[i].pc \in Active, job[j].pc \in Active,
         job[i].base = job[j].base, job[i].fn = job[j].fn
  PROVE  i = j
BY DEF EngineInv, CoreInv, OnceInv

(* A call with an active function has begun and has not returned. *)
LEMMA ActiveCall ==
  ASSUME EngineInv, NEW j \in Jobs, job[j].pc \in Active
  PROVE  /\ job[j].base \in Tasks /\ job[j].fn \in Nodes /\ job[j].fn # NullFn
         /\ phase[job[j].base] \notin {"idle", "returned"}
<1>1. job[j].base \in Tasks /\ job[j].fn \in Nodes
  BY QueueTypes DEF EngineInv
<1>2. job[j].fn # NullFn BY <1>1, NamesAssumption
<1>3. phase[job[j].base] # "idle" BY <1>1 DEF EngineInv, CoreInv, IdleInv
<1>4. Pending(job[j].base) BY <1>2 DEF Pending, Active, Handling
<1>5. phase[job[j].base] # "returned"
  BY <1>1, <1>4 DEF EngineInv, CoreInv, DrainInv
<1> QED BY <1>1, <1>2, <1>3, <1>5

LEMMA NowActive ==
  ASSUME EngineInv, FlowInv, NEW w \in Workers, NEW from \in Active, NEW new,
         Advances(w, from, new)
  PROVE  /\ Now(w).base \in Tasks /\ Now(w).fn \in Nodes /\ Now(w).fn # NullFn
         /\ phase[Now(w).base] \notin {"idle", "returned"}
         /\ ActiveOK(Now(w)) /\ Now(w).pc = from /\ Now(w) \in JobRecord
         /\ Now(w).fn \in Outputs[Now(w).base] => Now(w).fn \in Fns
<1>1. Here(w) \in Jobs /\ job[Here(w)] = Now(w) /\ Now(w).pc = from
      /\ Now(w) \in JobRecord
  BY DEF Advances, Now, JobOK
<1>2. /\ Now(w).base \in Tasks /\ Now(w).fn \in Nodes /\ Now(w).fn # NullFn
      /\ phase[Now(w).base] \notin {"idle", "returned"}
  BY <1>1, ActiveCall
<1>3. ActiveOK(Now(w)) BY <1>1 DEF FlowInv, ActiveInv
<1>4. Now(w).fn \in Outputs[Now(w).base] => Now(w).fn \in Fns
  BY <1>2, GraphAssumption
<1> QED BY <1>1, <1>2, <1>3, <1>4

LEMMA ReceivedBuffer ==
  ASSUME NEW t \in Tasks, NEW f \in Nodes
  PROVE  /\ Received(t, f) # NoBuffer
         /\ Received(t, f) \in SUBSET EdgesOf(NextOf[t], Nodes)
<1>1. Received(t, f) \in SUBSET EdgesOf(NextOf[t], Nodes)
  BY IntoFacts DEF Received
<1> QED BY <1>1, BufferAssumption

LEMMA CaptureFlow ==
  ASSUME EngineInv, FlowInv, NEW w \in Workers, Capture(w)
  PROVE  FlowInv'
<1> USE DEF FlowInv
<1> DEFINE pc3 == IF Now(w).fn \in Needed[Now(w).base] THEN "call" ELSE "owner"
           new0 == [Now(w) EXCEPT !.pc = pc3]
<1>0. TypeInv BY DEF EngineInv
<1>1. PICK h, b, f, B, pc2, new :
         /\ h = Here(w) /\ b = Now(w).base /\ f = Now(w).fn
         /\ B = Now(w).inputs /\ pc2 = pc3 /\ new = new0
  OBVIOUS
<1>2. /\ Advances(w, "capture", new)
      /\ captured_vars' = [captured_vars EXCEPT ![b][f] = B]
  BY <1>0, <1>1, CaptureJobs
<1>3. /\ b \in Tasks /\ f \in Nodes /\ phase[b] \notin {"idle", "returned"}
      /\ ActiveOK(Now(w)) /\ Now(w).pc = "capture" /\ Now(w) \in JobRecord
      /\ f \in Outputs[b] => f \in Fns
  BY <1>1, <1>2, NowActive DEF Active
<1>4. /\ pc2 = "call" => f \in Needed[b]
      /\ pc2 \in {"call", "owner"}
      /\ pc2 = "owner" => f \notin Needed[b]
  BY <1>1
<1> HIDE DEF pc3
<1>5. new.base = b /\ new.fn = f /\ new.pc = pc2 /\ new.inputs = B
  BY <1>1, <1>3 DEF JobRecord
<1> HIDE DEF new0
<1>6. UNCHANGED <<ready, dependencies, not_ready, phase, result, applied, has_error>>
  BY DEF Capture, callVars, history
<1>7. FlowSame BY <1>0, <1>2, <1>4, <1>5, <1>6, AdvanceHeld
<1>8. /\ f \in Wanted(b) /\ Unsent(b, f) = {} /\ B = Received(b, f)
      /\ f \in Outputs[b] /\ f \in Fns
  BY <1>1, <1>3 DEF ActiveOK, Active
<1>9. Unsent(b, f)' = {} /\ B = Received(b, f)' BY <1>3, <1>7, <1>8 DEF FlowSame
<1>10. B # NoBuffer BY <1>3, <1>8, ReceivedBuffer
<1>11. /\ captured_vars'[b][f] = B
       /\ \A t \in Tasks, g \in Fns : (t # b \/ g # f) =>
            captured_vars'[t][g] = captured_vars[t][g]
       /\ \A t \in Tasks : t # b => captured_vars'[t] = captured_vars[t]
  BY <1>0, <1>2, <1>3, <1>8 DEF TypeInv, TypeOK
<1>12. \A t \in Tasks, g \in Fns :
         Unsent(t, g)' = Unsent(t, g) /\ Received(t, g)' = Received(t, g)
  BY <1>7 DEF FlowSame, Nodes
<1>13. CapturedInv'
  <2> SUFFICES ASSUME NEW t \in Tasks, NEW g \in Fns, captured_vars'[t][g] # NoBuffer
               PROVE  Unsent(t, g)' = {} /\ captured_vars'[t][g] = Received(t, g)'
    BY DEF CapturedInv
  <2>1. CASE t = b /\ g = f BY <2>1, <1>9, <1>11
  <2>2. CASE ~ (t = b /\ g = f) BY <2>2, <1>11, <1>12 DEF CapturedInv
  <2> QED BY <2>1, <2>2
<1>14. AppliedInv' BY <1>6 DEF AppliedInv
<1>15. ActiveOK(new)'
  BY <1>4, <1>5, <1>8, <1>9, <1>10, <1>11 DEF ActiveOK, Active, Wanted
<1>16. InFlight(b, f)' \/ Processed(b, f)'
  <2>1. h \in Jobs' /\ job'[h] = new BY <1>0, <1>1, <1>2, AdvanceFacts
  <2>2. CASE pc2 = "call" BY <2>1, <2>2, <1>5 DEF InFlight
  <2>3. CASE pc2 = "owner" BY <2>3, <1>4, <1>10, <1>11 DEF Processed
  <2> QED BY <2>2, <2>3, <1>4
<1>17. \A t \in Tasks, g \in Fns :
          captured_vars[t][g] # NoBuffer => captured_vars'[t][g] # NoBuffer
  BY <1>10, <1>11
<1>18. \A t \in Tasks : phase[t] \in {"idle", "returned"} =>
            has_error'[t] = has_error[t] /\ captured_vars'[t] = captured_vars[t]
  BY <1>3, <1>6, <1>11
<1>19. new.base = Now(w).base /\ new.fn = Now(w).fn /\ h = Here(w) BY <1>1, <1>5
<1> QED
  BY <1>2, <1>5, <1>6, <1>7, <1>13, <1>14, <1>15, <1>16, <1>17, <1>18, <1>19,
     AdvanceFlow DEF Active
LEMMA CallFunctionFlow ==
  ASSUME EngineInv, FlowInv, NEW w \in Workers, CallFunction(w)
  PROVE  FlowInv'
<1> USE DEF FlowInv
<1> DEFINE new0 == [base |-> Now(w).base, fn |-> Now(w).fn, inputs |-> {},
                    i |-> Now(w).i, base_owner |-> Now(w).base_owner,
                    pc |-> "apply"]
<1>0. TypeInv BY DEF EngineInv
<1>1. PICK h, b, f, new :
         h = Here(w) /\ b = Now(w).base /\ f = Now(w).fn /\ new = new0
  OBVIOUS
<1>2. Advances(w, "call", new) BY <1>0, <1>1, CallFunctionJobs
<1>3. /\ b \in Tasks /\ f \in Nodes /\ phase[b] \notin {"idle", "returned"}
      /\ ActiveOK(Now(w)) /\ Now(w).pc = "call"
  BY <1>1, <1>2, NowActive DEF Active
<1>5. new.base = b /\ new.fn = f /\ new.pc = "apply" BY <1>1
<1> HIDE DEF new0
<1>6. UNCHANGED <<ready, dependencies, not_ready, phase, result, applied,
                  has_error, captured_vars>>
  BY DEF CallFunction, callVars, history, graphTaskVars
<1>7. FlowSame BY <1>0, <1>2, <1>5, <1>6, AdvanceHeld
<1>8. ActiveOK(new)'
  <2>1. Unsent(b, f)' = Unsent(b, f) BY <1>3, <1>7 DEF FlowSame
  <2> QED BY <1>1, <1>3, <1>5, <1>6, <2>1 DEF ActiveOK, Active, Wanted
<1>9. AppliedInv' BY <1>6 DEF AppliedInv
<1>10. CapturedInv' BY <1>6, <1>7 DEF CapturedInv, FlowSame, Nodes
<1>11. InFlight(b, f)'
  <2>1. h \in Jobs' /\ job'[h] = new BY <1>0, <1>1, <1>2, AdvanceFacts
  <2> QED BY <2>1, <1>5 DEF InFlight
<1>12. new.base = Now(w).base /\ new.fn = Now(w).fn BY <1>1, <1>5
<1> QED BY <1>1, <1>2, <1>5, <1>6, <1>7, <1>8, <1>9, <1>10, <1>11, <1>12,
           AdvanceFlow DEF Active

LEMMA ApplyThrowFlow ==
  ASSUME EngineInv, FlowInv, NEW w \in Workers, ApplyThrow(w)
  PROVE  FlowInv'
<1> USE DEF FlowInv
<1> DEFINE new0 == [Now(w) EXCEPT !.pc = "except"]
<1>0. TypeInv BY DEF EngineInv
<1>1. PICK h, b, f, new :
         h = Here(w) /\ b = Now(w).base /\ f = Now(w).fn /\ new = new0
  OBVIOUS
<1>2. Advances(w, "apply", new) BY <1>0, <1>1, ApplyThrowJobs
<1>3. /\ b \in Tasks /\ f \in Nodes /\ phase[b] \notin {"idle", "returned"}
      /\ ActiveOK(Now(w)) /\ Now(w).pc = "apply" /\ Now(w) \in JobRecord
  BY <1>1, <1>2, NowActive DEF Active
<1>5. new.base = b /\ new.fn = f /\ new.pc = "except" BY <1>1, <1>3 DEF JobRecord
<1> HIDE DEF new0
<1>6. UNCHANGED <<ready, dependencies, not_ready, phase, result, applied,
                  has_error, captured_vars>>
  BY DEF ApplyThrow, callVars, history, graphTaskVars
<1>7. FlowSame BY <1>0, <1>2, <1>5, <1>6, AdvanceHeld
<1>8. ActiveOK(new)'
  <2>1. Unsent(b, f)' = Unsent(b, f) BY <1>3, <1>7 DEF FlowSame
  <2>2. applied[b][f] = NoBuffer
    BY <1>1, <1>2, <1>3 DEF EngineInv, CoreInv, OnceInv, Active, Advances, Now
  <2> QED BY <1>1, <1>3, <1>5, <1>6, <2>1, <2>2 DEF ActiveOK, Active, Wanted
<1>9. AppliedInv' BY <1>6 DEF AppliedInv
<1>10. CapturedInv' BY <1>6, <1>7 DEF CapturedInv, FlowSame, Nodes
<1>11. InFlight(b, f)'
  <2>1. h \in Jobs' /\ job'[h] = new BY <1>0, <1>1, <1>2, AdvanceFacts
  <2> QED BY <2>1, <1>5 DEF InFlight
<1>12. new.base = Now(w).base /\ new.fn = Now(w).fn BY <1>1, <1>5
<1> QED BY <1>1, <1>2, <1>5, <1>6, <1>7, <1>8, <1>9, <1>10, <1>11, <1>12,
           AdvanceFlow DEF Active

LEMMA OnExceptionFlow ==
  ASSUME EngineInv, FlowInv, NEW w \in Workers, OnException(w)
  PROVE  FlowInv'
<1> USE DEF FlowInv
<1> DEFINE new0 == [Now(w) EXCEPT !.pc = "owner"]
<1>0. TypeInv BY DEF EngineInv
<1>1. PICK h, b, f, new :
         h = Here(w) /\ b = Now(w).base /\ f = Now(w).fn /\ new = new0
  OBVIOUS
<1>2. /\ Advances(w, "except", new)
      /\ has_error' = [has_error EXCEPT ![b] = TRUE]
  BY <1>0, <1>1, OnExceptionJobs
<1>3. /\ b \in Tasks /\ f \in Nodes /\ phase[b] \notin {"idle", "returned"}
      /\ Now(w).pc = "except" /\ Now(w) \in JobRecord
  BY <1>1, <1>2, NowActive DEF Active
<1>5. new.base = b /\ new.fn = f /\ new.pc = "owner" BY <1>1, <1>3 DEF JobRecord
<1> HIDE DEF new0
<1>6. UNCHANGED <<ready, dependencies, not_ready, phase, result, applied,
                  captured_vars>>
  BY DEF OnException, callVars, history
<1>7. FlowSame BY <1>0, <1>2, <1>5, <1>6, AdvanceHeld
<1>8. ActiveOK(new)' BY <1>5 DEF ActiveOK, Active
<1>9. AppliedInv' BY <1>6 DEF AppliedInv
<1>10. CapturedInv' BY <1>6, <1>7 DEF CapturedInv, FlowSame, Nodes
<1>11. has_error'[b] /\ \A t \in Tasks : t # b => has_error'[t] = has_error[t]
  BY <1>0, <1>2, <1>3 DEF TypeInv, TypeOK
<1>12. new.base = Now(w).base /\ new.fn = Now(w).fn BY <1>1, <1>5
<1>13. /\ \A t \in Tasks : has_error[t] => has_error'[t]
       /\ \A t \in Tasks : phase[t] \in {"idle", "returned"} =>
            has_error'[t] = has_error[t]
  BY <1>3, <1>11
<1> QED BY <1>1, <1>2, <1>5, <1>6, <1>7, <1>8, <1>9, <1>10, <1>11, <1>12, <1>13,
           AdvanceFlow DEF Active

LEMMA LockGraphTaskFlow ==
  ASSUME EngineInv, FlowInv, NEW w \in Workers, LockGraphTask(w)
  PROVE  FlowInv'
<1> USE DEF FlowInv
<1> DEFINE new0 == [base |-> Now(w).base, fn |-> Now(w).fn,
                    inputs |-> Now(w).inputs, i |-> 1,
                    base_owner |-> Now(w).base_owner, pc |-> "propagate"]
<1>0. TypeInv BY DEF EngineInv
<1>1. PICK h, b, f, new :
         h = Here(w) /\ b = Now(w).base /\ f = Now(w).fn /\ new = new0
  OBVIOUS
<1>2. Advances(w, "lock", new) BY <1>0, <1>1, LockGraphTaskJobs
<1>3. /\ b \in Tasks /\ f \in Nodes /\ phase[b] \notin {"idle", "returned"}
      /\ ActiveOK(Now(w)) /\ Now(w).pc = "lock"
  BY <1>1, <1>2, NowActive DEF Active
<1>5. new.base = b /\ new.fn = f /\ new.pc = "propagate" /\ new.i = 1 BY <1>1
<1> HIDE DEF new0
<1>6. UNCHANGED <<ready, dependencies, not_ready, phase, result, applied,
                  has_error, captured_vars>>
  BY DEF LockGraphTask, callVars, history
<1>7. FlowSame
  <2>1. /\ Jobs' = Jobs /\ h \in Jobs /\ job'[h] = new
        /\ \A j \in Jobs : j # h => job'[j] = job[j]
        /\ job[h] = Now(w) /\ job[h].pc = "lock"
    BY <1>0, <1>1, <1>2, AdvanceFacts
  <2>2. ASSUME NEW t \in Tasks, NEW e \in EdgesOf(NextOf[t], Nodes)
        PROVE  Held(t, e)' <=> Held(t, e)
    <3>1. 1 <= e[2] BY EdgePairs
    <3> QED BY <1>1, <1>5, <1>6, <2>1, <3>1 DEF Held
  <2> QED BY <2>2, <1>6, SameFlow
<1>8. ActiveOK(new)'
  <2>1. Unsent(b, f)' = Unsent(b, f) BY <1>3, <1>7 DEF FlowSame
  <2> QED BY <1>1, <1>3, <1>5, <1>6, <2>1 DEF ActiveOK, Active, Wanted
<1>9. AppliedInv' BY <1>6 DEF AppliedInv
<1>10. CapturedInv' BY <1>6, <1>7 DEF CapturedInv, FlowSame, Nodes
<1>12. new.base = Now(w).base /\ new.fn = Now(w).fn BY <1>1, <1>5
<1> QED BY <1>1, <1>2, <1>5, <1>6, <1>7, <1>8, <1>9, <1>10, <1>12,
           AdvanceFlow DEF Active

(* A function returns: its edges are held by it instead of by its not      *)
(* having been evaluated.                                                  *)
LEMMA ApplyReturnFlow ==
  ASSUME EngineInv, FlowInv, NEW w \in Workers, ApplyReturn(w)
  PROVE  FlowInv'
<1> USE DEF FlowInv
<1> DEFINE pc3 == IF NextOf[Now(w).base][Now(w).fn] = <<>> THEN "owner" ELSE "lock"
           new0 == [Now(w) EXCEPT !.pc = pc3]
<1>0. TypeInv BY DEF EngineInv
<1>1. PICK h, b, f, pc2, new :
         /\ h = Here(w) /\ b = Now(w).base /\ f = Now(w).fn /\ pc2 = pc3
         /\ new = new0
  OBVIOUS
<1>2. /\ Advances(w, "apply", new)
      /\ \E D \in DefinedOutputs(b, f) :
           applied' = [applied EXCEPT ![b][f] = {f} \X D]
  BY <1>0, <1>1, ApplyReturnJobs
<1>3. /\ b \in Tasks /\ f \in Nodes /\ phase[b] \notin {"idle", "returned"}
      /\ ActiveOK(Now(w)) /\ Now(w).pc = "apply" /\ Now(w) \in JobRecord
      /\ f \in Outputs[b] => f \in Fns
  BY <1>1, <1>2, NowActive DEF Active
<1>4. /\ pc2 \in {"owner", "lock"}
      /\ pc2 = "owner" => NextOf[b][f] = <<>>
  BY <1>1
<1> HIDE DEF pc3
<1>5. new.base = b /\ new.fn = f /\ new.pc = pc2 BY <1>1, <1>3 DEF JobRecord
<1> HIDE DEF new0
<1>6. UNCHANGED <<ready, dependencies, not_ready, phase, result,
                  has_error, captured_vars>>
  BY DEF ApplyReturn, callVars, graphTaskVars
<1>7. PICK D \in DefinedOutputs(b, f) :
           applied' = [applied EXCEPT ![b][f] = {f} \X D]
  BY <1>2
<1>8. {f} \X D # NoBuffer
  <2>1. D \in SUBSET DOMAIN NextOf[b][f] BY DEF DefinedOutputs
  <2> QED BY <1>3, <2>1, OutputsBuffer
<1>9. /\ applied'[b][f] # NoBuffer
      /\ \A t \in Tasks, g \in Nodes : t # b \/ g # f =>
           applied'[t][g] = applied[t][g]
  BY <1>0, <1>3, <1>7, <1>8 DEF TypeInv, TypeOK
<1>10. applied[b][f] = NoBuffer
  BY <1>1, <1>2, <1>3 DEF EngineInv, CoreInv, OnceInv, Active, Advances, Now
<1>11. /\ Jobs' = Jobs /\ h \in Jobs /\ job'[h] = new
       /\ \A j \in Jobs : j # h => job'[j] = job[j]
       /\ job[h] = Now(w) /\ job[h].pc = "apply"
  BY <1>0, <1>1, <1>2, AdvanceFacts
<1>12. FlowSame
  <2> SUFFICES ASSUME NEW t \in Tasks, NEW e \in EdgesOf(NextOf[t], Nodes)
        PROVE  /\ Held(t, e)' <=> Held(t, e)
               /\ ~ Held(t, e) => applied'[t][e[1]] = applied[t][e[1]]
    BY SameFlow
  <2>1. e[1] \in Nodes /\ e[2] \in DOMAIN NextOf[t][e[1]] BY EdgePairs
  <2>2. CASE t = b /\ e[1] = f
    <3>1. Held(t, e) BY <1>10, <2>2 DEF Held
    <3>2. NextOf[b][f] # <<>> BY <2>1, <2>2
    <3>3. new.pc = "lock" BY <1>4, <1>5, <3>2
    <3>4. Held(t, e)' BY <1>5, <1>11, <2>2, <3>3 DEF Held
    <3> QED BY <3>1, <3>4
  <2>3. CASE t # b \/ e[1] # f
    <3>1. applied'[t][e[1]] = applied[t][e[1]] BY <1>9, <2>1, <2>3
    <3>2. Held(t, e)' <=> Held(t, e)
      BY <1>1, <1>5, <1>11, <2>3, <3>1 DEF Held
    <3> QED BY <3>1, <3>2
  <2> QED BY <2>2, <2>3
<1>13. /\ f \in Wanted(b) /\ f \in Needed[b] /\ Unsent(b, f) = {}
       /\ f \in Outputs[b] => captured_vars[b][f] # NoBuffer
  BY <1>1, <1>3 DEF ActiveOK, Active
<1>14. ActiveOK(new)'
  <2>1. Unsent(b, f)' = Unsent(b, f) BY <1>3, <1>12 DEF FlowSame
  <2> QED BY <1>4, <1>5, <1>6, <1>13, <2>1 DEF ActiveOK, Active, Wanted
<1>15. AppliedInv' BY <1>9, <1>13 DEF AppliedInv
<1>16. CapturedInv' BY <1>6, <1>12 DEF CapturedInv, FlowSame, Nodes
<1>17. Processed(b, f)' BY <1>6, <1>9, <1>13 DEF Processed
<1>18. new.base = Now(w).base /\ new.fn = Now(w).fn BY <1>1, <1>5
<1>19. /\ \A t \in Tasks, g \in Nodes :
            applied[t][g] # NoBuffer => applied'[t][g] # NoBuffer
       /\ \A t \in Tasks, g \in Nodes : t # Now(w).base \/ g # Now(w).fn =>
            applied'[t][g] = applied[t][g]
  BY <1>1, <1>9
<1> QED BY <1>1, <1>2, <1>5, <1>6, <1>12, <1>14, <1>15, <1>16, <1>17, <1>18,
           <1>19, AdvanceFlow DEF Active
-----------------------------------------------------------------------------
(***************************************************************************)
(* The loop over the outputs of a function sends its edges one by one.     *)
(***************************************************************************)
Sends(w, new) ==
  /\ OutputDone(w, new) /\ UNCHANGED applied
  /\ new.pc = IF Now(w).i = Len(NextOf[Now(w).base][Now(w).fn])
              THEN "owner" ELSE "propagate"
  /\ new.pc = "propagate" => new.i = Now(w).i + 1

LEMMA SendHeld ==
  ASSUME EngineInv, NEW w \in Workers, NEW new, Sends(w, new)
  PROVE  \A t \in Tasks : \A e \in EdgesOf(NextOf[t], Nodes) :
           LET sent == t = Now(w).base /\ e = <<Now(w).fn, Now(w).i>> IN
           /\ sent => Held(t, e)
           /\ Held(t, e)' <=> Held(t, e) /\ ~ sent
<1>0. TypeInv /\ Advances(w, "propagate", new) BY DEF EngineInv, Sends, OutputDone
<1>1. PICK h, b, fn, i : /\ h = Here(w) /\ b = Now(w).base /\ fn = Now(w).fn
                         /\ i = Now(w).i
  OBVIOUS
<1>2. /\ Jobs' = Jobs /\ h \in Jobs /\ job'[h] = new
      /\ \A j \in Jobs : j # h => job'[j] = job[j]
      /\ job[h] = Now(w) /\ job[h].pc = "propagate"
  BY <1>0, <1>1, AdvanceFacts
<1>3. /\ job[h].base = b /\ job[h].fn = fn /\ job[h].i = i
      /\ new.base = b /\ new.fn = fn /\ new.pc \in {"owner", "propagate"}
  BY <1>1, <1>2 DEF Sends, OutputDone
<1>4. b \in Tasks /\ fn \in Nodes /\ i \in DOMAIN NextOf[b][fn]
  BY <1>0, <1>1 DEF Advances, JobOK, JobRecord, Active
<1>5. NextOf[b][fn] \in Seq(Fns \cup {NullFn}) BY <1>4, NextOfType
<1>6. i \in Nat /\ i <= Len(NextOf[b][fn]) /\ Len(NextOf[b][fn]) \in Nat
  BY <1>4, <1>5
<1>7. applied[b][fn] # NoBuffer
  BY <1>2, <1>3 DEF EngineInv, CoreInv, OnceInv, Active
<1>8. ASSUME NEW t \in Tasks, NEW e \in EdgesOf(NextOf[t], Nodes)
      PROVE  /\ t = b /\ e = <<fn, i>> => Held(t, e)
             /\ Held(t, e)' <=> Held(t, e) /\ ~ (t = b /\ e = <<fn, i>>)
  <2>1. /\ e[1] \in Nodes /\ e = <<e[1], e[2]>> /\ e[2] \in Nat
        /\ e[2] <= Len(NextOf[t][e[1]])
    BY <1>8, EdgePairs
  <2>2. CASE t = b /\ e[1] = fn
    <3>1. \A j \in Jobs :
            (/\ job[j].base = b /\ job[j].fn = fn
             /\ job[j].pc \in {"lock", "propagate"}) => j = h
      <4> SUFFICES ASSUME NEW j \in Jobs, job[j].base = b, job[j].fn = fn,
                          job[j].pc \in {"lock", "propagate"}
                   PROVE  j = h
        OBVIOUS
      <4>1. /\ job[j].pc \in Active /\ job[h].pc \in Active
            /\ job[j].base = job[h].base /\ job[j].fn = job[h].fn
        BY <1>2, <1>3 DEF Active
      <4>2. h \in Jobs BY <1>2
      <4> QED BY <4>1, <4>2, OnlyJob
    <3>2. Held(t, e) <=> i <= e[2]
      BY <1>2, <1>3, <1>7, <2>2, <3>1 DEF Held
    <3>3. Held(t, e)' <=> new.pc = "propagate" /\ new.i <= e[2]
      BY <1>2, <1>3, <1>7, <2>2, <3>1 DEF Held, Sends
    <3>4. e = <<fn, i>> <=> e[2] = i BY <2>1, <2>2
    <3>5. CASE i = Len(NextOf[b][fn])
      <4>1. new.pc = "owner" BY <1>1, <3>5 DEF Sends
      <4>2. e[2] <= i BY <2>1, <2>2, <3>5
      <4>3. i <= e[2] <=> e[2] = i BY <4>2, <1>6, <2>1
      <4> QED BY <2>2, <3>2, <3>3, <3>4, <4>1, <4>3
    <3>6. CASE i # Len(NextOf[b][fn])
      <4>1. new.pc = "propagate" /\ new.i = i + 1 BY <1>1, <3>6 DEF Sends
      <4>2. i + 1 <= e[2] <=> i <= e[2] /\ e[2] # i BY <1>6, <2>1
      <4>3. e[2] = i => i <= e[2] BY <1>6
      <4> QED BY <2>2, <3>2, <3>3, <3>4, <4>1, <4>2, <4>3
    <3> QED BY <3>5, <3>6
  <2>3. CASE ~ (t = b /\ e[1] = fn)
    <3>1. e = <<fn, i>> => e[1] = fn OBVIOUS
    <3>2. Held(t, e)' <=> Held(t, e) BY <1>2, <1>3, <2>3 DEF Held, Sends
    <3> QED BY <2>3, <3>1, <3>2
  <2> QED BY <2>2, <2>3
<1> QED BY <1>1, <1>8

LEMMA AdvanceOutputSends ==
  ASSUME TypeInv, NEW w \in Workers, At(w, "propagate"),
         AdvanceOutput(w, TRUE), UNCHANGED applied
  PROVE  \E new : Sends(w, new)
<1> DEFINE last == Now(w).i = Len(NextOf[Now(w).base][Now(w).fn])
           a == [Now(w) EXCEPT !.i = Now(w).i + 1]
           c == [base |-> Now(w).base, fn |-> Now(w).fn, inputs |-> Now(w).inputs,
                 i |-> 1, base_owner |-> Now(w).base_owner,
                 pc |-> IF TRUE THEN "owner" ELSE "except"]
<1>1. /\ ~ last => Advances(w, "propagate", a)
      /\ last => Advances(w, "propagate", c)
  BY AdvanceOutputJobs
<1>2. c.base = Now(w).base /\ c.fn = Now(w).fn /\ c.pc = "owner" OBVIOUS
<1>3. CASE ~ last
  <2>1. Advances(w, "propagate", a) BY <1>1, <1>3
  <2>2. /\ a.base = Now(w).base /\ a.fn = Now(w).fn /\ a.pc = "propagate"
        /\ a.i = Now(w).i + 1
    BY <2>1 DEF Advances, JobOK, JobRecord
  <2> HIDE DEF a
  <2>3. Sends(w, a) BY <1>3, <2>1, <2>2 DEF Sends, OutputDone
  <2> QED BY <2>3
<1>4. CASE last
  <2>1. Advances(w, "propagate", c) BY <1>1, <1>4
  <2> HIDE DEF c
  <2>2. Sends(w, c) BY <1>2, <1>4, <2>1 DEF Sends, OutputDone
  <2> QED BY <2>2
<1> QED BY <1>3, <1>4

LEMMA PropagateInvalidFlow ==
  ASSUME EngineInv, FlowInv, NEW w \in Workers, PropagateInvalid(w)
  PROVE  FlowInv'
<1> USE DEF FlowInv
<1>0. TypeInv BY DEF EngineInv
<1>1. /\ At(w, "propagate") /\ AdvanceOutput(w, TRUE)
      /\ NextOf[Top(w).base][Top(w).fn][Top(w).i] = NullFn
      /\ UNCHANGED <<ready, dependencies, not_ready, phase, result, applied,
                     has_error, captured_vars>>
  BY DEF PropagateInvalid, callVars, history
<1>2. PICK new : Sends(w, new) BY <1>0, <1>1, AdvanceOutputSends
<1>3. PICK h, b, f, i :
         h = Here(w) /\ b = Now(w).base /\ f = Now(w).fn /\ i = Now(w).i
  OBVIOUS
<1>4. /\ Advances(w, "propagate", new) /\ new.base = b /\ new.fn = f
      /\ new.pc \in {"owner", "propagate"}
  BY <1>2, <1>3 DEF Sends, OutputDone
<1>5. /\ b \in Tasks /\ f \in Nodes /\ phase[b] \notin {"idle", "returned"}
      /\ ActiveOK(Now(w)) /\ Now(w).pc = "propagate"
  BY <1>3, <1>4, NowActive DEF Active
<1>6. NextOf[b][f][i] = NullFn
  BY <1>0, <1>1, <1>3, NowFields DEF Busy, Handling
<1>7. FlowSame
  <2> SUFFICES ASSUME NEW t \in Tasks, NEW e \in EdgesOf(NextOf[t], Nodes),
                      NextOf[t][e[1]][e[2]] \in Fns
               PROVE  Held(t, e)' <=> Held(t, e)
    BY <1>1, SameFlow
  <2>1. ~ (t = b /\ e = <<f, i>>) BY <1>6, NamesAssumption DEF Nodes
  <2> QED BY <1>2, <1>3, <2>1, SendHeld
<1>8. ActiveOK(new)'
  <2>1. Unsent(b, f)' = Unsent(b, f) BY <1>5, <1>7 DEF FlowSame
  <2> QED BY <1>1, <1>3, <1>4, <1>5, <2>1 DEF ActiveOK, Active, Wanted
<1>9. AppliedInv' BY <1>1 DEF AppliedInv
<1>10. CapturedInv' BY <1>1, <1>7 DEF CapturedInv, FlowSame, Nodes
<1>11. new.base = Now(w).base /\ new.fn = Now(w).fn BY <1>3, <1>4
<1> QED BY <1>1, <1>3, <1>4, <1>7, <1>8, <1>9, <1>10, <1>11, AdvanceFlow DEF Active
(* What is true of the gradient that Propagate(w) passes on. *)
LEMMA SendEdge ==
  ASSUME EngineInv, FlowInv, NEW w \in Workers,
         NEW new, NEW b, NEW f, NEW e, NEW buffer,
         PropagateEffect(w, new, b, f, e, buffer)
  PROVE  /\ Sends(w, new) /\ b \in Tasks /\ f \in Fns
         /\ phase[b] \notin {"idle", "returned"}
         /\ e \in Unsent(b, f) /\ e[1] = Now(w).fn
         /\ IsFiniteSet(Unsent(b, f))
         /\ dependencies[b][f] = Cardinality(Unsent(b, f))
         /\ dependencies[b][f] \in Nat \ {0}
         /\ Unsent(b, f)' = Unsent(b, f) \ {e}
         /\ Received(b, f)' = Received(b, f) \cup ({e} \cap applied[b][e[1]])
         /\ \A t \in Tasks, g \in Nodes : t # b \/ g # f =>
              Unsent(t, g)' = Unsent(t, g) /\ Received(t, g)' = Received(t, g)
         /\ f \in Reachable[b]
<1> USE DEF FlowInv
<1>0. TypeInv BY DEF EngineInv
<1>1. PICK fn, i : fn = Now(w).fn /\ i = Now(w).i OBVIOUS
<1>2. /\ Advances(w, "propagate", new) /\ OutputDone(w, new) /\ b = Now(w).base
      /\ b \in Tasks /\ f \in Fns /\ e = <<fn, i>> /\ LeadsTo(b, e, f)
      /\ UNCHANGED applied
  BY <1>1 DEF PropagateEffect, PropagateOK, OutputDone
<1>3. /\ fn \in Nodes /\ phase[b] \notin {"idle", "returned"}
      /\ ActiveOK(Now(w)) /\ Now(w).pc = "propagate"
  BY <1>1, <1>2, NowActive DEF Active
<1>4. fn \in Reachable[b] /\ f \in Nodes
  BY <1>1, <1>2, <1>3, ReachableFacts DEF ActiveOK, Active, Wanted, Nodes
<1>5. e[1] = fn /\ e[2] = i BY <1>2
<1>6. i \in DOMAIN NextOf[b][fn] /\ NextOf[b][fn][i] = f
  BY <1>2, <1>5 DEF LeadsTo
<1>7. e \in EdgesOf(NextOf[b], Nodes)
  <2>1. DOMAIN NextOf[b] = Nodes BY <1>2 DEF NextOf
  <2>2. e \in {fn} \X DOMAIN NextOf[b][fn] BY <1>2, <1>6
  <2> QED BY <1>3, <2>1, <2>2 DEF EdgesOf
<1>8. e \in Into(b, f) BY <1>2, <1>4, <1>5, <1>6, <1>7, IntoFacts
<1>9. f \in Reachable[b] BY <1>2, <1>4, <1>6, ReachableFacts
<1>10. Held(b, e)
  <2>1. Here(w) \in Jobs /\ job[Here(w)] = Now(w) BY <1>2 DEF Advances, Now
  <2>2. i \in Nat
    BY <1>1, <1>2 DEF Advances, JobOK, JobRecord
  <2>3. i <= e[2] BY <1>5, <2>2
  <2> QED BY <1>1, <1>2, <1>3, <1>5, <2>1, <2>3 DEF Held
<1>11. e \in Unsent(b, f) BY <1>8, <1>10 DEF Unsent
<1>12. IsFiniteSet(Unsent(b, f)) /\ Cardinality(Unsent(b, f)) \in Nat
  <2>1. IsFiniteSet(Into(b, f)) /\ Unsent(b, f) \subseteq Into(b, f)
    BY <1>2, <1>4, IntoFacts DEF Unsent
  <2> QED BY <2>1, FS_Subset, FS_CardinalityType
<1>13. dependencies[b][f] = Cardinality(Unsent(b, f))
  BY <1>2, <1>3 DEF DependInv
<1>14. Cardinality(Unsent(b, f)) # 0 BY <1>11, <1>12, FS_EmptySet
<1>15. new.pc # "except" BY <1>13, <1>14 DEF PropagateEffect
<1>16. Sends(w, new)
  BY <1>2, <1>15, Zenon DEF Sends, PropagateEffect
<1>17. \A t \in Tasks : \A x \in EdgesOf(NextOf[t], Nodes) :
          Held(t, x)' <=> Held(t, x) /\ ~ (t = b /\ x = e)
  <2>1. \A t \in Tasks : \A x \in EdgesOf(NextOf[t], Nodes) :
           LET sent == t = Now(w).base /\ x = <<Now(w).fn, Now(w).i>> IN
           /\ sent => Held(t, x)
           /\ Held(t, x)' <=> Held(t, x) /\ ~ sent
    BY <1>16, SendHeld
  <2> QED BY <1>1, <1>2, <2>1
<1>18. \A t \in Tasks, g \in Nodes :
         /\ Into(t, g)' = Into(t, g)
         /\ Into(t, g) \subseteq EdgesOf(NextOf[t], Nodes)
  BY IntoFacts DEF Into
<1>19. Unsent(b, f)' = Unsent(b, f) \ {e}
  <2> SUFFICES \A x : x \in Unsent(b, f)' <=> x \in Unsent(b, f) \ {e} OBVIOUS
  <2> QED BY <1>2, <1>4, <1>17, <1>18 DEF Unsent
<1>20. Received(b, f)' = Received(b, f) \cup ({e} \cap applied[b][e[1]])
  <2> SUFFICES ASSUME NEW x
               PROVE  x \in Received(b, f)' <=>
                        x \in Received(b, f) \cup ({e} \cap applied[b][e[1]])
    OBVIOUS
  <2>1. x \in Into(b, f) => (Held(b, x)' <=> Held(b, x) /\ x # e)
    BY <1>2, <1>4, <1>17, <1>18
  <2>2. Into(b, f)' = Into(b, f) BY <1>2, <1>4, <1>18
  <2> QED BY <1>2, <1>8, <1>10, <2>1, <2>2 DEF Received
<1>21. ASSUME NEW t \in Tasks, NEW g \in Nodes, t # b \/ g # f
       PROVE  Unsent(t, g)' = Unsent(t, g) /\ Received(t, g)' = Received(t, g)
  <2>1. t = b => e \notin Into(t, g)
    BY <1>5, <1>6, <1>21, IntoFacts
  <2>2. \A x \in Into(t, g) : Held(t, x)' <=> Held(t, x)
    BY <1>17, <1>18, <1>21, <2>1
  <2>3. Into(t, g)' = Into(t, g) BY <1>18, <1>21
  <2> QED BY <1>2, <2>2, <2>3 DEF Unsent, Received
<1> QED BY <1>1, <1>2, <1>3, <1>5, <1>9, <1>11, <1>12, <1>13, <1>14, <1>16,
           <1>19, <1>20, <1>21

(* The queues, buffers and counters after that. *)
LEMMA SendState ==
  ASSUME EngineInv, NEW w \in Workers,
         NEW new, NEW b, NEW f, NEW e, NEW buffer,
         PropagateEffect(w, new, b, f, e, buffer), dependencies[b][f] # 0
  PROVE  /\ buffer = (IF not_ready[b][f] = NoBuffer THEN {} ELSE not_ready[b][f])
                        \cup ({e} \cap applied[b][e[1]])
         /\ dependencies'[b][f] = dependencies[b][f] - 1
         /\ \A t \in Tasks, g \in Fns : t # b \/ g # f =>
              /\ dependencies'[t][g] = dependencies[t][g]
              /\ not_ready'[t][g] = not_ready[t][g]
         /\ \/ /\ not_ready[b][f] = NoBuffer /\ ~ should_execute(b, f)
               /\ UNCHANGED <<ready, not_ready>>
            \/ /\ dependencies[b][f] = 1
               /\ not_ready[b][f] = NoBuffer => should_execute(b, f)
               /\ not_ready'[b][f] = NoBuffer
               /\ \E d \in Workers :
                    /\ ready'[d] = ready[d] \cup
                         {[base |-> b, fn |-> f, inputs |-> buffer]}
                    /\ \A v \in Workers : v # d => ready'[v] = ready[v]
            \/ /\ dependencies[b][f] > 1
               /\ not_ready[b][f] = NoBuffer => should_execute(b, f)
               /\ not_ready'[b][f] = buffer /\ UNCHANGED ready
<1>1. /\ b \in Tasks /\ f \in Fns /\ LeadsTo(b, e, f)
      /\ buffer = BufferWith(b, f, e)
      /\ dependencies' = [dependencies EXCEPT ![b][f] =
                            IF dependencies[b][f] > 0 THEN @ - 1 ELSE @]
  BY DEF PropagateEffect, PropagateOK
<1>2. /\ dependencies \in [Tasks -> [Fns -> Nat]]
      /\ not_ready \in [Tasks -> [Fns -> Buffers]]
      /\ ready \in [Workers -> SUBSET FunctionTask]
  BY DEF EngineInv, TypeInv, TypeOK
<1>3. dependencies[b][f] > 0 BY <1>1, <1>2
<1>4. /\ dependencies'[b][f] = dependencies[b][f] - 1
      /\ \A t \in Tasks, g \in Fns : t # b \/ g # f =>
           dependencies'[t][g] = dependencies[t][g]
  BY <1>1, <1>2, <1>3
<1>5. \A x \in buffer : LeadsTo(b, x, f)
  BY <1>1 DEF EngineInv, CoreInv, BufferInv, BufferWith
<1>6. PICK d, item : /\ d = BufferDevice(b, f, buffer)
                     /\ item = [base |-> b, fn |-> f, inputs |-> buffer]
  OBVIOUS
<1>7. d \in Workers BY <1>1, <1>5, <1>6, BufferDeviceType
<1>8. PropagateQueues(b, f, buffer) =>
        /\ ready'[d] = ready[d] \cup {item}
        /\ \A v \in Workers : v # d => ready'[v] = ready[v]
  BY <1>2, <1>6, <1>7 DEF PropagateQueues, Push
<1>9. \A B : not_ready' = [not_ready EXCEPT ![b][f] = B] =>
        /\ not_ready'[b][f] = B
        /\ \A t \in Tasks, g \in Fns : t # b \/ g # f =>
             not_ready'[t][g] = not_ready[t][g]
  BY <1>1, <1>2
<1>10. \/ /\ not_ready[b][f] = NoBuffer /\ ~ should_execute(b, f)
          /\ UNCHANGED <<ready, not_ready>>
       \/ /\ dependencies[b][f] = 1
          /\ not_ready[b][f] = NoBuffer => should_execute(b, f)
          /\ PropagateQueues(b, f, buffer)
          /\ not_ready' = [not_ready EXCEPT ![b][f] = NoBuffer]
       \/ /\ dependencies[b][f] > 1
          /\ not_ready[b][f] = NoBuffer => should_execute(b, f)
          /\ not_ready' = [not_ready EXCEPT ![b][f] = buffer]
          /\ UNCHANGED ready
  BY DEF PropagateEffect
<1>11. buffer = (IF not_ready[b][f] = NoBuffer THEN {} ELSE not_ready[b][f])
                  \cup ({e} \cap applied[b][e[1]])
  BY <1>1 DEF BufferWith
<1>12. CASE /\ not_ready[b][f] = NoBuffer /\ ~ should_execute(b, f)
            /\ UNCHANGED <<ready, not_ready>>
  BY <1>4, <1>11, <1>12
<1>13. CASE /\ dependencies[b][f] = 1
            /\ not_ready[b][f] = NoBuffer => should_execute(b, f)
            /\ PropagateQueues(b, f, buffer)
            /\ not_ready' = [not_ready EXCEPT ![b][f] = NoBuffer]
  <2>1. /\ not_ready'[b][f] = NoBuffer
        /\ \A t \in Tasks, g \in Fns : t # b \/ g # f =>
             not_ready'[t][g] = not_ready[t][g]
    BY <1>9, <1>13
  <2>2. \E v \in Workers : /\ ready'[v] = ready[v] \cup {item}
                           /\ \A u \in Workers : u # v => ready'[u] = ready[u]
    BY <1>7, <1>8, <1>13
  <2> QED BY <1>4, <1>6, <1>11, <1>13, <2>1, <2>2
<1>14. CASE /\ dependencies[b][f] > 1
            /\ not_ready[b][f] = NoBuffer => should_execute(b, f)
            /\ not_ready' = [not_ready EXCEPT ![b][f] = buffer]
            /\ UNCHANGED ready
  <2>1. /\ not_ready'[b][f] = buffer
        /\ \A t \in Tasks, g \in Fns : t # b \/ g # f =>
             not_ready'[t][g] = not_ready[t][g]
    BY <1>9, <1>14
  <2> QED BY <1>4, <1>11, <1>14, <2>1
<1> QED BY <1>10, <1>12, <1>13, <1>14
LEMMA PropagateFlow ==
  ASSUME EngineInv, FlowInv, NEW w \in Workers, Propagate(w)
  PROVE  FlowInv'
<1> USE DEF FlowInv
<1>0. TypeInv BY DEF EngineInv
<1>1. PICK new, b, f, e, buffer : PropagateEffect(w, new, b, f, e, buffer)
  BY <1>0, PropagateJobs
<1>2. /\ Sends(w, new) /\ b \in Tasks /\ f \in Fns
      /\ phase[b] \notin {"idle", "returned"}
      /\ e \in Unsent(b, f)
      /\ IsFiniteSet(Unsent(b, f))
      /\ dependencies[b][f] = Cardinality(Unsent(b, f))
      /\ dependencies[b][f] \in Nat \ {0}
      /\ Unsent(b, f)' = Unsent(b, f) \ {e}
      /\ Received(b, f)' = Received(b, f) \cup ({e} \cap applied[b][e[1]])
      /\ \A t \in Tasks, g \in Nodes : t # b \/ g # f =>
           Unsent(t, g)' = Unsent(t, g) /\ Received(t, g)' = Received(t, g)
      /\ f \in Reachable[b]
  BY <1>1, SendEdge
<1>3. /\ buffer = (IF not_ready[b][f] = NoBuffer THEN {} ELSE not_ready[b][f])
                     \cup ({e} \cap applied[b][e[1]])
      /\ dependencies'[b][f] = dependencies[b][f] - 1
      /\ \A t \in Tasks, g \in Fns : t # b \/ g # f =>
           /\ dependencies'[t][g] = dependencies[t][g]
           /\ not_ready'[t][g] = not_ready[t][g]
      /\ \/ /\ not_ready[b][f] = NoBuffer /\ ~ should_execute(b, f)
            /\ UNCHANGED <<ready, not_ready>>
         \/ /\ dependencies[b][f] = 1
            /\ not_ready[b][f] = NoBuffer => should_execute(b, f)
            /\ not_ready'[b][f] = NoBuffer
            /\ \E d \in Workers :
                 /\ ready'[d] = ready[d] \cup
                      {[base |-> b, fn |-> f, inputs |-> buffer]}
                 /\ \A v \in Workers : v # d => ready'[v] = ready[v]
         \/ /\ dependencies[b][f] > 1
            /\ not_ready[b][f] = NoBuffer => should_execute(b, f)
            /\ not_ready'[b][f] = buffer /\ UNCHANGED ready
  BY <1>1, <1>2, SendState
<1>4. UNCHANGED <<phase, result, has_error, captured_vars, applied>>
  BY <1>1 DEF PropagateEffect, PropagateOK
<1>5. /\ Cardinality(Unsent(b, f)') = dependencies'[b][f]
      /\ dependencies[b][f] = 1 => Unsent(b, f)' = {}
      /\ dependencies[b][f] > 1 => Unsent(b, f)' # {}
  <2>1. /\ IsFiniteSet(Unsent(b, f) \ {e})
        /\ Cardinality(Unsent(b, f) \ {e}) = Cardinality(Unsent(b, f)) - 1
    BY <1>2, FS_RemoveElement
  <2>2. /\ Cardinality(Unsent(b, f) \ {e}) = 0 <=> Unsent(b, f) \ {e} = {}
    BY <2>1, FS_EmptySet
  <2>3. /\ Cardinality(Unsent(b, f)') = dependencies[b][f] - 1
        /\ Cardinality(Unsent(b, f)') = 0 <=> Unsent(b, f)' = {}
    BY <1>2, <2>1, <2>2
  <2>4. dependencies[b][f] > 1 => dependencies[b][f] - 1 # 0 BY <1>2
  <2> QED BY <1>3, <2>3, <2>4
<1>6. /\ should_execute(b, f) => f \in Wanted(b)
      /\ f \in Wanted(b) => should_execute(b, f)
      /\ not_ready[b][f] # NoBuffer => f \in Wanted(b)
  BY <1>2 DEF should_execute, Wanted, WaitingInv
<1>7. f \in Wanted(b) => buffer = Received(b, f)'
  <2> SUFFICES ASSUME f \in Wanted(b) PROVE buffer = Received(b, f)' OBVIOUS
  <2>1. CASE not_ready[b][f] = NoBuffer
    <3>1. Received(b, f) = {} BY <1>2, <2>1 DEF WaitingInv
    <3> QED BY <1>2, <1>3, <2>1, <3>1
  <2>2. CASE not_ready[b][f] # NoBuffer
    <3>1. not_ready[b][f] = Received(b, f) BY <1>2, <2>2 DEF WaitingInv
    <3> QED BY <1>2, <1>3, <2>2, <3>1
  <2> QED BY <2>1, <2>2
<1>8. \A t \in Tasks, g \in Fns : t # b \/ g # f =>
           Unsent(t, g)' = Unsent(t, g) /\ Received(t, g)' = Received(t, g)
  BY <1>2 DEF Nodes
<1>9. PICK h, fn : h = Here(w) /\ fn = Now(w).fn OBVIOUS
<1>10. /\ Advances(w, "propagate", new) /\ b = Now(w).base
       /\ new.base = b /\ new.fn = fn /\ new.pc \in {"owner", "propagate"}
  BY <1>1, <1>2, <1>9 DEF Sends, OutputDone, PropagateEffect, PropagateOK
<1>11. /\ Jobs' = Jobs /\ h \in Jobs /\ job'[h] = new
       /\ \A j \in Jobs : j # h => job'[j] = job[j]
       /\ job[h] = Now(w) /\ job[h].pc = "propagate"
  BY <1>0, <1>9, <1>10, AdvanceFacts
<1>12. fn \in Nodes /\ ActiveOK(Now(w)) /\ Now(w).pc = "propagate"
  BY <1>9, <1>10, NowActive DEF Active
<1>13. fn # f BY <1>2, <1>9, <1>10, <1>12 DEF ActiveOK, Active
<1>14. \A v \in Workers : \A x \in ready[v] : x \in ready'[v]
  BY <1>3
<1>15. DependInv'
  <2> SUFFICES ASSUME NEW t \in Tasks, phase[t] # "idle", NEW g \in Fns
               PROVE  dependencies'[t][g] = Cardinality(Unsent(t, g)')
    BY <1>4 DEF DependInv
  <2>1. CASE t = b /\ g = f BY <1>5, <2>1
  <2>2. CASE t # b \/ g # f BY <1>3, <1>8, <2>2 DEF DependInv
  <2> QED BY <2>1, <2>2
<1>16. QueueInv'
  <2> SUFFICES ASSUME NEW v \in Workers, NEW x \in ready'[v], x.fn # NullFn
               PROVE  /\ x.fn \in Wanted(x.base) /\ Unsent(x.base, x.fn)' = {}
                      /\ x.inputs = Received(x.base, x.fn)'
    BY DEF QueueInv, Wanted
  <2>1. CASE x \in ready[v]
    <3>1. x.base \in Tasks /\ x.fn \in Nodes BY <1>0, <2>1, QueueTypes
    <3>2. /\ x.fn \in Wanted(x.base) /\ Unsent(x.base, x.fn) = {}
          /\ x.inputs = Received(x.base, x.fn)
      BY <2>1 DEF QueueInv
    <3>3. x.base # b \/ x.fn # f BY <1>2, <3>2
    <3> QED BY <1>2, <3>1, <3>2, <3>3
  <2>2. CASE x \notin ready[v]
    <3>1. /\ dependencies[b][f] = 1
          /\ not_ready[b][f] = NoBuffer => should_execute(b, f)
          /\ x = [base |-> b, fn |-> f, inputs |-> buffer]
      BY <1>3, <2>2
    <3>2. x.base = b /\ x.fn = f /\ x.inputs = buffer BY <3>1
    <3>3. f \in Wanted(b) BY <1>6, <3>1
    <3> QED BY <1>5, <1>7, <3>1, <3>2, <3>3
  <2> QED BY <2>1, <2>2
<1>17. ActiveInv'
  <2> SUFFICES ASSUME NEW j \in Jobs, job'[j].pc \in Active
               PROVE  ActiveOK(job[j])'
    BY <1>11 DEF ActiveInv, ActiveOK
  <2>1. CASE j = h
    <3>1. Unsent(b, fn)' = Unsent(b, fn) BY <1>2, <1>12, <1>13
    <3>2. /\ fn \in Wanted(b) /\ Unsent(b, fn) = {} /\ fn \in Needed[b]
          /\ fn \in Outputs[b] => captured_vars[b][fn] # NoBuffer
      BY <1>9, <1>10, <1>12 DEF ActiveOK, Active
    <3>3. ActiveOK(new)'
      BY <1>4, <1>10, <3>1, <3>2 DEF ActiveOK, Active, Wanted
    <3> QED BY <1>11, <2>1, <3>3
  <2>2. CASE j # h
    <3>1. job'[j] = job[j] BY <1>11, <2>2
    <3>2. job[j].base \in Tasks /\ job[j].fn \in Nodes
      BY <1>0, <3>1, QueueTypes
    <3>3. ActiveOK(job[j]) BY DEF ActiveInv
    <3>4. job[j].base # b \/ job[j].fn # f
      BY <1>2, <3>1, <3>3 DEF ActiveOK
    <3>5. /\ Unsent(job[j].base, job[j].fn)' = Unsent(job[j].base, job[j].fn)
          /\ Received(job[j].base, job[j].fn)' = Received(job[j].base, job[j].fn)
      BY <1>2, <3>1, <3>2, <3>4
    <3> QED BY <1>4, <3>1, <3>2, <3>3, <3>5 DEF ActiveOK, Wanted
  <2> QED BY <2>1, <2>2
<1>18. AppliedInv' BY <1>4 DEF AppliedInv
<1>19. CapturedInv'
  <2> SUFFICES ASSUME NEW t \in Tasks, NEW g \in Fns, captured_vars[t][g] # NoBuffer
               PROVE  Unsent(t, g)' = {} /\ captured_vars[t][g] = Received(t, g)'
    BY <1>4 DEF CapturedInv
  <2>1. Unsent(t, g) = {} /\ captured_vars[t][g] = Received(t, g)
    BY DEF CapturedInv
  <2>2. t # b \/ g # f BY <1>2, <2>1
  <2> QED BY <1>8, <2>1, <2>2
<1>20. WaitingInv'
  <2> SUFFICES ASSUME NEW t \in Tasks, NEW g \in Fns
        PROVE  /\ not_ready'[t][g] # NoBuffer =>
                    /\ g \in Wanted(t) /\ Unsent(t, g)' # {}
                    /\ not_ready'[t][g] = Received(t, g)'
               /\ not_ready'[t][g] = NoBuffer /\ g \in Wanted(t) /\ Unsent(t, g)' # {} =>
                    Received(t, g)' = {}
    BY DEF WaitingInv, Wanted
  <2>1. CASE t = b /\ g = f
    <3>1. buffer = Received(b, f)' => buffer # NoBuffer
      <4>1. Received(b, f)' \in SUBSET EdgesOf(NextOf[b], Nodes)
        <5>1. Into(b, f)' = Into(b, f) BY DEF Into
        <5>2. f \in Nodes BY <1>2 DEF Nodes
        <5>3. Into(b, f) \in SUBSET EdgesOf(NextOf[b], Nodes)
          BY <1>2, <5>2, IntoFacts
        <5> QED BY <5>1, <5>3 DEF Received
      <4> QED BY <1>2, <4>1, BufferAssumption
    <3> QED BY <1>3, <1>5, <1>6, <1>7, <2>1, <3>1
  <2>2. CASE t # b \/ g # f BY <1>3, <1>8, <2>2 DEF WaitingInv
  <2> QED BY <2>1, <2>2
<1>21. NoLossInv'
  <2>0. \A t \in Tasks : Wanted(t) \subseteq Nodes
    BY ReachableFacts DEF Wanted
  <2> SUFFICES ASSUME NEW t \in Tasks, phase[t] # "idle", ~ has_error[t],
                      NEW g \in Wanted(t), Unsent(t, g)' = {}
               PROVE  InFlight(t, g)' \/ Processed(t, g)'
    BY <1>4 DEF NoLossInv, Wanted
  <2>1. CASE t = b /\ g = f
    <3>1. dependencies[b][f] = 1 /\ should_execute(b, f)
      BY <1>2, <1>3, <1>5, <1>6, <2>1
    <3>2. PICK d \in Workers : [base |-> b, fn |-> f, inputs |-> buffer] \in ready'[d]
      BY <1>3, <3>1
    <3>3. [base |-> b, fn |-> f, inputs |-> buffer].base = b
          /\ [base |-> b, fn |-> f, inputs |-> buffer].fn = f
      OBVIOUS
    <3> QED BY <2>1, <3>2, <3>3 DEF InFlight
  <2>2. CASE t # b \/ g # f
    <3>1. Unsent(t, g) = {} BY <1>2, <2>0, <2>2
    <3>2. InFlight(t, g) \/ Processed(t, g) BY <3>1 DEF NoLossInv
    <3>3. Processed(t, g) => Processed(t, g)' BY <1>4 DEF Processed
    <3>4. InFlight(t, g) => InFlight(t, g)' BY <1>11, <1>14 DEF InFlight
    <3> QED BY <3>2, <3>3, <3>4
  <2> QED BY <2>1, <2>2
<1>22. FreshInv'
  <2>1. \A t \in Tasks : phase[t] = "idle" => t # b BY <1>2
  <2> QED BY <1>3, <1>4, <2>1 DEF FreshInv
<1>23. ResultInv' BY <1>4 DEF ResultInv
<1> QED BY <1>15, <1>16, <1>17, <1>18, <1>19, <1>20, <1>21, <1>22, <1>23
-----------------------------------------------------------------------------
(***************************************************************************)
(* The thread_main(graph_task) loops: a reentrant call that works has one  *)
(* and no other call has any.                                              *)
(***************************************************************************)
LoopInv ==
  /\ \A v \in Workers : \A k \in 1 .. Len(stack[v]) :
       stack[v][k].loop # NoTask => phase[stack[v][k].loop] = "working"
  /\ \A v, w \in Workers : \A k \in 1 .. Len(stack[v]), m \in 1 .. Len(stack[w]) :
       stack[v][k].loop # NoTask /\ stack[v][k].loop = stack[w][m].loop =>
         v = w /\ k = m

LoopsKept ==
  \A v \in Workers : \A k \in 1 .. Len(stack'[v]) :
    k \in 1 .. Len(stack[v]) /\ stack'[v][k].loop = stack[v][k].loop

LEMMA LoopTypes ==
  ASSUME TypeInv
  PROVE  \A v \in Workers : \A k \in 1 .. Len(stack[v]) :
           stack[v][k].loop \in Tasks \cup {NoTask}
<1> SUFFICES ASSUME NEW v \in Workers, NEW k \in 1 .. Len(stack[v])
             PROVE  stack[v][k].loop \in Tasks \cup {NoTask}
  OBVIOUS
<1>1. stack[v] \in Seq(Frame) BY DEF TypeInv, TypeOK
<1>2. stack[v][k] \in Frame BY <1>1
<1> QED BY <1>2 DEF Frame

LEMMA OneLoop ==
  ASSUME LoopInv, NEW v \in Workers, NEW w \in Workers,
         NEW k \in 1 .. Len(stack[v]), NEW m \in 1 .. Len(stack[w]),
         stack[v][k].loop # NoTask, stack[v][k].loop = stack[w][m].loop
  PROVE  v = w /\ k = m
BY DEF LoopInv

LEMMA KeptLoops ==
  ASSUME TypeInv, LoopInv, LoopsKept,
         \A t \in Tasks : phase[t] = "working" => phase'[t] = "working"
  PROVE  LoopInv'
<1>1. \A v \in Workers : \A k \in 1 .. Len(stack'[v]) :
         /\ k \in 1 .. Len(stack[v]) /\ stack'[v][k].loop = stack[v][k].loop
         /\ stack[v][k].loop \in Tasks \cup {NoTask}
  BY LoopTypes DEF LoopsKept
<1>2. (\A v \in Workers : \A k \in 1 .. Len(stack[v]) :
         stack[v][k].loop # NoTask => phase[stack[v][k].loop] = "working")'
  BY <1>1 DEF LoopInv
<1>3. (\A v, w \in Workers : \A k \in 1 .. Len(stack[v]), m \in 1 .. Len(stack[w]) :
         stack[v][k].loop # NoTask /\ stack[v][k].loop = stack[w][m].loop =>
           v = w /\ k = m)'
  <2> SUFFICES ASSUME NEW v \in Workers, NEW w \in Workers,
                      NEW k \in 1 .. Len(stack'[v]), NEW m \in 1 .. Len(stack'[w]),
                      stack'[v][k].loop # NoTask,
                      stack'[v][k].loop = stack'[w][m].loop
               PROVE  v = w /\ k = m
    OBVIOUS
  <2>1. k \in 1 .. Len(stack[v]) /\ stack'[v][k].loop = stack[v][k].loop BY <1>1
  <2>2. m \in 1 .. Len(stack[w]) /\ stack'[w][m].loop = stack[w][m].loop BY <1>1
  <2>3. stack[v][k].loop # NoTask /\ stack[v][k].loop = stack[w][m].loop
    BY <2>1, <2>2
  <2>4. k \in 1 .. Len(stack[v]) /\ m \in 1 .. Len(stack[w]) BY <2>1, <2>2
  <2> QED BY <2>3, <2>4, OneLoop
<1> QED BY <1>2, <1>3 DEF LoopInv

LEMMA SetTopLoops ==
  ASSUME TypeInv, NEW w \in Workers, NEW fr, SetTop(w, fr), fr.loop = Top(w).loop
  PROVE  LoopsKept
<1> DEFINE n == Len(stack[w])
           s2 == [stack[w] EXCEPT ![n] = fr]
<1>1. stack[w] \in Seq(Frame) /\ n \in Nat \ {0} /\ n \in 1 .. n
      /\ stack \in [Workers -> Seq(Frame)] /\ stack[w][n].loop = fr.loop
  BY TopOK DEF TypeInv, TypeOK, Top
<1>2. stack'[w] = s2 /\ \A v \in Workers : v # w => stack'[v] = stack[v]
  BY <1>1 DEF SetTop
<1>3. Len(s2) = n /\ \A k \in 1 .. n : s2[k].loop = stack[w][k].loop
  BY <1>1
<1> HIDE DEF s2
<1> QED BY <1>2, <1>3 DEF LoopsKept

LEMMA GotoLoops ==
  ASSUME TypeInv, NEW w \in Workers, NEW pc, Goto(w, pc)
  PROVE  LoopsKept
<1>1. [Top(w) EXCEPT !.pc = pc].loop = Top(w).loop BY TopOK DEF Frame
<1> QED BY <1>1, SetTopLoops DEF Goto

LEMMA EmptyLoops ==
  ASSUME TypeInv, NEW w \in Workers, SetTop(w, EmptyFrame(Top(w).loop, "loop"))
  PROVE  LoopsKept
<1>1. EmptyFrame(Top(w).loop, "loop").loop = Top(w).loop BY DEF EmptyFrame
<1> QED BY <1>1, SetTopLoops

LEMMA AdvanceOutputLoops ==
  ASSUME TypeInv, NEW w \in Workers, NEW ok, AdvanceOutput(w, ok)
  PROVE  LoopsKept
<1>1. Top(w) \in Frame BY TopOK
<1>2. PICK pc2 : pc2 = IF ok THEN "owner" ELSE "except" OBVIOUS
<1>3. /\ [Top(w) EXCEPT !.i = @ + 1].loop = Top(w).loop
      /\ [Top(w) EXCEPT !.i = 1, !.pc = pc2].loop = Top(w).loop
  BY <1>1 DEF Frame
<1>4. \/ SetTop(w, [Top(w) EXCEPT !.i = @ + 1])
      \/ SetTop(w, [Top(w) EXCEPT !.i = 1, !.pc = pc2])
  BY <1>2, Zenon DEF AdvanceOutput
<1> QED BY <1>3, <1>4, SetTopLoops

(* Every step of a worker but the two ends of a reentrant call. *)
LEMMA WorkerLoops ==
  ASSUME TypeInv, NEW w \in Workers, WorkerStep(w), ~ LoopExit(w),
         \A t \in Tasks : ~ Reenter(w, t)
  PROVE  LoopsKept
<1>0. Top(w) \in Frame BY TopOK
<1>1. CASE \/ LoopContinue(w) \/ SetOwner(w) \/ ApplyReturn(w) \/ ApplyThrow(w)
           \/ OnException(w) \/ Capture(w)
  BY <1>1, GotoLoops DEF LoopContinue, SetOwner, ApplyReturn, ApplyThrow,
                         OnException, Capture
<1>2. CASE Pop(w)
  <2>1. PICK x, pc2 : SetTop(w, [Top(w) EXCEPT !.base = x.base, !.fn = x.fn,
                                    !.inputs = x.inputs, !.pc = pc2])
    BY <1>2 DEF Pop
  <2>2. [Top(w) EXCEPT !.base = x.base, !.fn = x.fn,
                       !.inputs = x.inputs, !.pc = pc2].loop = Top(w).loop
    BY <1>0 DEF Frame
  <2> QED BY <2>1, <2>2, SetTopLoops
<1>3. CASE CallFunction(w)
  <2>1. [Top(w) EXCEPT !.pc = "apply", !.inputs = {},
                       !.prev = checkpoint_valid[w]].loop = Top(w).loop
    BY <1>0 DEF Frame
  <2> QED BY <1>3, <2>1, SetTopLoops DEF CallFunction
<1>4. CASE LockGraphTask(w)
  <2>1. [Top(w) EXCEPT !.pc = "propagate", !.i = 1].loop = Top(w).loop
    BY <1>0 DEF Frame
  <2> QED BY <1>4, <2>1, SetTopLoops DEF LockGraphTask
<1>5. CASE PropagateInvalid(w) \/ Propagate(w)
  <2>1. PICK ok : AdvanceOutput(w, ok)
    BY <1>5, Zenon DEF PropagateInvalid, Propagate
  <2> QED BY <2>1, AdvanceOutputLoops
<1>6. CASE ReadOwner(w)
  <2>1. [Top(w) EXCEPT !.pc = "decrement",
                       !.base_owner = owner[Top(w).base]].loop = Top(w).loop
    BY <1>0 DEF Frame
  <2> QED BY <1>6, <2>1, SetTopLoops DEF ReadOwner
<1>7. CASE Decrement(w)
  <2>1. \/ SetTop(w, EmptyFrame(Top(w).loop, "loop"))
        \/ \E pc2 : Goto(w, pc2)
    BY <1>7, Zenon DEF Decrement, Goto
  <2> QED BY <2>1, EmptyLoops, GotoLoops
<1>8. CASE Notify(w) \/ PushDummy(w)
  BY <1>8, EmptyLoops DEF Notify, PushDummy
<1> QED BY <1>1, <1>2, <1>3, <1>4, <1>5, <1>6, <1>7, <1>8 DEF WorkerStep

LEMMA LoopExitLoops ==
  ASSUME TypeInv, LoopInv, NEW w \in Workers, LoopExit(w)
  PROVE  LoopsKept /\ LoopInv'
         /\ Top(w).loop \in Tasks /\ phase[Top(w).loop] = "working"
<1>1. PICK s, n, t : s = stack[w] /\ n = Len(stack[w]) - 1 /\ t = Top(w).loop
  OBVIOUS
<1>2. /\ s \in Seq(Frame) /\ Len(s) \in Nat \ {0} /\ s[1].loop = NoTask
      /\ s[Len(s)].loop = t /\ t # NoTask /\ Len(s) \in 1 .. Len(s)
      /\ stack \in [Workers -> Seq(Frame)] /\ phase \in [Tasks -> Phases]
  BY <1>1, TopOK DEF TypeInv, TypeOK, StackOK, LoopExit, At, Top
<1>3. t \in Tasks /\ phase[t] = "working"
  BY <1>1, <1>2, LoopTypes DEF LoopInv
<1>4. n \in Nat \ {0} /\ Len(s) = n + 1 /\ n \in 1 .. n /\ n \in 1 .. Len(s)
  BY <1>1, <1>2
<1> DEFINE cut == SubSeq(s, 1, n)
           fr == [cut[n] EXCEPT !.pc = "apply"]
           s2 == [cut EXCEPT ![n] = fr]
<1>5. cut \in Seq(Frame) /\ Len(cut) = n /\ \A k \in 1 .. n : cut[k] = s[k]
  BY <1>2, <1>4
<1>6. stack' = [stack EXCEPT ![w] = s2] BY <1>1, Zenon DEF LoopExit
<1> HIDE DEF cut
<1>7. cut[n] = s[n] /\ s[n] \in Frame BY <1>2, <1>4, <1>5
<1>8. fr.loop = s[n].loop BY <1>7 DEF Frame
<1> HIDE DEF fr
<1>9. Len(s2) = n /\ \A k \in 1 .. n : s2[k].loop = s[k].loop
  BY <1>4, <1>5, <1>8
<1>10. stack'[w] = s2 /\ \A v \in Workers : v # w => stack'[v] = stack[v]
  BY <1>2, <1>6
<1> HIDE DEF s2
<1>11. LoopsKept
  <2>1. \A k \in 1 .. n : k \in 1 .. Len(s) BY <1>4
  <2> QED BY <1>1, <1>9, <1>10, <2>1 DEF LoopsKept
<1>12. \A v \in Workers : \A k \in 1 .. Len(stack'[v]) : stack'[v][k].loop # t
  <2> SUFFICES ASSUME NEW v \in Workers, NEW k \in 1 .. Len(stack'[v]),
                      stack'[v][k].loop = t
               PROVE  FALSE
    OBVIOUS
  <2>1. k \in 1 .. Len(stack[v]) /\ stack[v][k].loop = t BY <1>11 DEF LoopsKept
  <2>2. v = w /\ k = Len(s) BY <1>1, <1>2, <2>1 DEF LoopInv
  <2>3. k \in 1 .. n BY <1>9, <1>10, <2>2
  <2> QED BY <1>4, <2>2, <2>3
<1>13. \A u \in Tasks : u # t => phase'[u] = phase[u]
  BY <1>1, <1>2, <1>3 DEF LoopExit, EndTask
<1>14. \A v \in Workers : \A k \in 1 .. Len(stack'[v]) :
         /\ k \in 1 .. Len(stack[v]) /\ stack'[v][k].loop = stack[v][k].loop
         /\ stack[v][k].loop \in Tasks \cup {NoTask}
  BY <1>11, LoopTypes DEF LoopsKept
<1>15. LoopInv'
  <2>1. (\A v \in Workers : \A k \in 1 .. Len(stack[v]) :
           stack[v][k].loop # NoTask => phase[stack[v][k].loop] = "working")'
    BY <1>12, <1>13, <1>14 DEF LoopInv
  <2>2. (\A v, u \in Workers : \A k \in 1 .. Len(stack[v]), m \in 1 .. Len(stack[u]) :
           stack[v][k].loop # NoTask /\ stack[v][k].loop = stack[u][m].loop =>
             v = u /\ k = m)'
    BY <1>14 DEF LoopInv
  <2> QED BY <2>1, <2>2 DEF LoopInv
<1> QED BY <1>1, <1>3, <1>11, <1>15

LEMMA ReenterLoops ==
  ASSUME TypeInv, LoopInv, NEW w \in Workers, NEW t \in Tasks, Reenter(w, t)
  PROVE  LoopInv'
<1>1. PICK s, n : s = stack[w] /\ n = Len(stack[w]) OBVIOUS
<1>2. /\ s \in Seq(Frame) /\ n \in Nat \ {0} /\ n \in 1 .. n /\ s[n] \in Frame
      /\ stack \in [Workers -> Seq(Frame)] /\ phase \in [Tasks -> Phases]
  BY <1>1, TopOK DEF TypeInv, TypeOK, Top
<1> DEFINE nested == [s[n] EXCEPT !.pc = "nested"]
           s1 == [s EXCEPT ![n] = nested]
           e == EmptyFrame(t, "setowner")
           s2 == Append(s1, e)
<1>3. nested \in Frame /\ nested.loop = s[n].loop BY <1>2 DEF Frame, PCs
<1>4. e \in Frame /\ e.loop = t BY EmptyFrameOK
<1>5. stack' = [stack EXCEPT ![w] = s2] BY <1>1 DEF Reenter
<1> HIDE DEF nested, e
<1>6. s1 \in Seq(Frame) /\ Len(s1) = n /\ \A k \in 1 .. n : s1[k].loop = s[k].loop
  BY <1>1, <1>2, <1>3
<1> HIDE DEF s1
<1>7. /\ Len(s2) = n + 1
      /\ \A k \in 1 .. (n + 1) : s2[k] = IF k = n + 1 THEN e ELSE s1[k]
  BY <1>2, <1>4, <1>6
<1>8. stack'[w] = s2 /\ \A v \in Workers : v # w => stack'[v] = stack[v]
  BY <1>2, <1>5
<1> HIDE DEF s2
<1>9. phase[t] = "idle" /\ phase'[t] = "working"
      /\ \A u \in Tasks : u # t => phase'[u] = phase[u]
  BY <1>2 DEF Reenter, StartTask
<1>10. \A v \in Workers : \A k \in 1 .. Len(stack'[v]) :
         \/ v = w /\ k = n + 1 /\ stack'[v][k].loop = t
         \/ /\ k \in 1 .. Len(stack[v]) /\ stack'[v][k].loop = stack[v][k].loop
            /\ stack[v][k].loop \in Tasks \cup {NoTask} /\ stack[v][k].loop # t
  <2> SUFFICES ASSUME NEW v \in Workers, NEW k \in 1 .. Len(stack'[v]),
                      ~ (v = w /\ k = n + 1)
               PROVE  /\ k \in 1 .. Len(stack[v])
                      /\ stack'[v][k].loop = stack[v][k].loop
                      /\ stack[v][k].loop \in Tasks \cup {NoTask}
                      /\ stack[v][k].loop # t
    BY <1>2, <1>4, <1>7, <1>8
  <2>1. CASE v = w
    <3>1. k \in 1 .. (n + 1) /\ k # n + 1 BY <1>7, <1>8, <2>1
    <3>2. k \in 1 .. n BY <1>2, <3>1
    <3>3. stack'[v][k].loop = s[k].loop BY <1>6, <1>7, <1>8, <2>1, <3>1, <3>2
    <3>4. k \in 1 .. Len(stack[v]) /\ stack'[v][k].loop = stack[v][k].loop
      BY <1>1, <2>1, <3>2, <3>3
    <3> QED BY <1>9, <3>4, LoopTypes, NamesAssumption DEF LoopInv
  <2>2. CASE v # w
    <3>1. k \in 1 .. Len(stack[v]) /\ stack'[v][k].loop = stack[v][k].loop
      BY <1>8, <2>2
    <3> QED BY <1>9, <3>1, LoopTypes, NamesAssumption DEF LoopInv
  <2> QED BY <2>1, <2>2
<1>11. (\A v \in Workers : \A k \in 1 .. Len(stack[v]) :
           stack[v][k].loop # NoTask => phase[stack[v][k].loop] = "working")'
  <2> SUFFICES ASSUME NEW v \in Workers, NEW k \in 1 .. Len(stack'[v]),
                      stack'[v][k].loop # NoTask
               PROVE  phase'[stack'[v][k].loop] = "working"
    OBVIOUS
  <2> QED BY <1>9, <1>10 DEF LoopInv
<1>12. (\A v, u \in Workers : \A k \in 1 .. Len(stack[v]), m \in 1 .. Len(stack[u]) :
           stack[v][k].loop # NoTask /\ stack[v][k].loop = stack[u][m].loop =>
             v = u /\ k = m)'
  <2> SUFFICES ASSUME NEW v \in Workers, NEW u \in Workers,
                      NEW k \in 1 .. Len(stack'[v]), NEW m \in 1 .. Len(stack'[u]),
                      stack'[v][k].loop # NoTask,
                      stack'[v][k].loop = stack'[u][m].loop
               PROVE  v = u /\ k = m
    OBVIOUS
  <2>1. CASE stack'[v][k].loop = t BY <1>10, <2>1
  <2>2. CASE stack'[v][k].loop # t
    <3>1. k \in 1 .. Len(stack[v]) /\ stack'[v][k].loop = stack[v][k].loop
      BY <1>10, <2>2
    <3>2. m \in 1 .. Len(stack[u]) /\ stack'[u][m].loop = stack[u][m].loop
      BY <1>10, <2>2
    <3>3. stack[v][k].loop # NoTask /\ stack[v][k].loop = stack[u][m].loop
      BY <3>1, <3>2
    <3>4. k \in 1 .. Len(stack[v]) /\ m \in 1 .. Len(stack[u]) BY <3>1, <3>2
    <3> QED BY <3>3, <3>4, OneLoop
  <2> QED BY <2>1, <2>2
<1> QED BY <1>11, <1>12 DEF LoopInv

LEMMA LoopStep ==
  ASSUME TypeInv, LoopInv, [Next]_vars
  PROVE  LoopInv'
<1>0. phase \in [Tasks -> Phases] BY DEF TypeInv, TypeOK
<1>1. ASSUME NEW t \in Tasks, CallerStep(t) PROVE LoopInv'
  <2>1. UNCHANGED stack
    BY <1>1 DEF CallerStep, Execute, WaitCheck, WaitBlock, WaitReacquire,
                ExecuteReturn, SpuriousWakeup
  <2>2. LoopsKept BY <2>1 DEF LoopsKept
  <2>3. \A u \in Tasks : phase[u] = "working" => phase'[u] = "working"
    BY <1>0, <1>1 DEF CallerStep, Execute, WaitCheck, WaitBlock, WaitReacquire,
                ExecuteReturn, SpuriousWakeup, StartTask, EndTask
  <2> QED BY <2>2, <2>3, KeptLoops
<1>2. ASSUME NEW w \in Workers, WorkerStep(w) PROVE LoopInv'
  <2>1. CASE LoopExit(w) BY <2>1, LoopExitLoops
  <2>2. CASE \E t \in Tasks : Reenter(w, t) BY <2>2, ReenterLoops
  <2>3. CASE ~ LoopExit(w) /\ \A t \in Tasks : ~ Reenter(w, t)
    <3>1. LoopsKept BY <1>2, <2>3, WorkerLoops
    <3>2. \A u \in Tasks : phase[u] = "working" => phase'[u] = "working"
      <4>1. CASE Notify(w) BY <1>0, <4>1 DEF Notify
      <4>2. CASE ~ Notify(w)
        <5>1. UNCHANGED phase
          BY <1>2, <2>3, <4>2 DEF WorkerStep, LoopContinue, Pop, Capture,
             CallFunction, SetOwner, ApplyReturn, ApplyThrow, LockGraphTask,
             PropagateInvalid, Propagate, OnException, ReadOwner, Decrement,
             PushDummy, callVars
        <5> QED BY <5>1
      <4> QED BY <4>1, <4>2
    <3> QED BY <3>1, <3>2, KeptLoops
  <2> QED BY <2>1, <2>2, <2>3
<1>3. CASE UNCHANGED vars
  <2>1. LoopsKept /\ UNCHANGED phase BY <1>3 DEF vars, callVars, LoopsKept
  <2> QED BY <2>1, KeptLoops
<1> QED BY <1>1, <1>2, <1>3 DEF Next

LEMMA LoopInit == Init => LoopInv
<1> SUFFICES ASSUME Init PROVE LoopInv OBVIOUS
<1>0. \A k \in 1 .. 1 : k = 1 OBVIOUS
<1>1. \A v \in Workers : \A k \in 1 .. Len(stack[v]) :
        stack[v][k].loop = NoTask
  BY <1>0 DEF Init, EmptyFrame
<1> QED BY <1>1 DEF LoopInv
-----------------------------------------------------------------------------
(***************************************************************************)
(* A function is taken from a queue.                                       *)
(***************************************************************************)
LEMMA PopFlow ==
  ASSUME EngineInv, FlowInv, NEW w \in Workers, Pop(w)
  PROVE  FlowInv'
<1> USE DEF FlowInv
<1>0. TypeInv BY DEF EngineInv
<1>1. PICK h : h = Here(w) OBVIOUS
<1>2. PICK x \in ready[w] : \E new :
         /\ x \in FunctionTask
         /\ ready' = [ready EXCEPT ![w] = @ \ {x}]
         /\ JobMoves(w, new)
         /\ new.base = x.base /\ new.fn = x.fn /\ new.inputs = x.inputs
         /\ new.pc = FirstStep(x)
  BY <1>0, PopJobs
<1>3. PICK new :
         /\ x \in FunctionTask
         /\ ready' = [ready EXCEPT ![w] = @ \ {x}]
         /\ JobMoves(w, new)
         /\ new.base = x.base /\ new.fn = x.fn /\ new.inputs = x.inputs
         /\ new.pc = FirstStep(x)
  BY <1>2
<1>4. /\ h \notin Jobs /\ Jobs' = Jobs \cup {h} /\ job'[h] = new
      /\ \A j \in Jobs : job'[j] = job[j]
  BY <1>0, <1>1, <1>3, PopJobs DEF JobMoves
<1>5. /\ ready'[w] = ready[w] \ {x}
      /\ \A v \in Workers : v # w => ready'[v] = ready[v]
  BY <1>0, <1>3 DEF TypeInv, TypeOK
<1>6. UNCHANGED <<dependencies, not_ready, captured_vars, applied, has_error,
                  phase, result>>
  BY DEF Pop, callVars, graphTaskVars, history
<1>7. new.pc \in {"owner", "capture", "call"} BY <1>3 DEF FirstStep
<1>8. FlowSame
  <2>1. /\ \A j : j \in Jobs' /\ job'[j].pc \in {"lock", "propagate"} =>
                    j \in Jobs /\ job'[j] = job[j]
        /\ \A j : j \in Jobs /\ job[j].pc \in {"lock", "propagate"} =>
                    j \in Jobs' /\ job'[j] = job[j]
    BY <1>4, <1>7
  <2> QED BY <1>6, <2>1, SameHeld
<1>9. \A t \in Tasks, f \in Nodes :
         Unsent(t, f)' = Unsent(t, f) /\ Received(t, f)' = Received(t, f)
  BY <1>8 DEF FlowSame
<1>10. \A t \in Tasks, f \in Fns :
         Unsent(t, f)' = Unsent(t, f) /\ Received(t, f)' = Received(t, f)
  BY <1>9 DEF Nodes
<1>11. DependInv' BY <1>6, <1>10 DEF DependInv
<1>12. QueueInv'
  <2> SUFFICES ASSUME NEW v \in Workers, NEW y \in ready'[v], y.fn # NullFn
               PROVE  /\ y.fn \in Wanted(y.base) /\ Unsent(y.base, y.fn)' = {}
                      /\ y.inputs = Received(y.base, y.fn)'
    BY DEF QueueInv, Wanted
  <2>1. y \in ready[v] BY <1>5
  <2>2. y.base \in Tasks /\ y.fn \in Nodes BY <1>0, <2>1, QueueTypes
  <2> QED BY <1>9, <2>1, <2>2 DEF QueueInv
<1>13. x.fn # NullFn =>
         /\ x.base \in Tasks /\ x.fn \in Nodes
         /\ x.fn \in Wanted(x.base) /\ Unsent(x.base, x.fn)' = {}
         /\ x.inputs = Received(x.base, x.fn)'
  <2>1. x.fn # NullFn => x.base \in Tasks /\ x.fn \in Nodes BY <1>0, QueueTypes
  <2> QED BY <1>9, <2>1 DEF QueueInv
<1>14. ActiveInv'
  <2> SUFFICES ASSUME NEW j \in Jobs', job'[j].pc \in Active
               PROVE  ActiveOK(job[j])'
    BY DEF ActiveInv, ActiveOK
  <2>1. CASE j = h
    <3>1. /\ x.fn # NullFn
          /\ new.pc = "capture" => x.fn \in Outputs[x.base]
          /\ new.pc = "call" => x.fn \in Needed[x.base] /\ x.fn \notin Outputs[x.base]
          /\ new.pc \in {"capture", "call"}
      BY <1>3, <1>4, <2>1 DEF FirstStep, Active
    <3>2. ActiveOK(new)'
      BY <1>3, <1>13, <3>1 DEF ActiveOK, Active, Wanted
    <3> QED BY <1>4, <2>1, <3>2
  <2>2. CASE j # h
    <3>1. j \in Jobs /\ job'[j] = job[j] BY <1>4, <2>2
    <3>2. job[j].base \in Tasks /\ job[j].fn \in Nodes
      BY <1>0, <3>1, QueueTypes
    <3>3. ActiveOK(job[j]) BY <3>1 DEF ActiveInv
    <3> QED BY <1>6, <1>9, <3>1, <3>2, <3>3 DEF ActiveOK, Wanted
  <2> QED BY <2>1, <2>2
<1>15. AppliedInv' BY <1>6 DEF AppliedInv
<1>16. CapturedInv' BY <1>6, <1>10 DEF CapturedInv
<1>17. WaitingInv' BY <1>6, <1>10 DEF WaitingInv, Wanted
<1>18. NoLossInv'
  <2>0. \A t \in Tasks : Wanted(t) \subseteq Nodes
    BY ReachableFacts DEF Wanted
  <2> SUFFICES ASSUME NEW t \in Tasks, phase[t] # "idle", ~ has_error[t],
                      NEW f \in Wanted(t), Unsent(t, f)' = {}
               PROVE  InFlight(t, f)' \/ Processed(t, f)'
    BY <1>6 DEF NoLossInv, Wanted
  <2>1. f \in Nodes /\ Unsent(t, f) = {} BY <1>9, <2>0
  <2>2. InFlight(t, f) \/ Processed(t, f) BY <2>1 DEF NoLossInv
  <2>3. f # NullFn BY <2>1, NamesAssumption
  <2>4. Processed(t, f) => Processed(t, f)' BY <1>6 DEF Processed
  <2>5. CASE x.base = t /\ x.fn = f
    <3>1. FirstStep(x) \in {"capture", "call"}
      BY <2>3, <2>5 DEF FirstStep, Wanted
    <3> QED BY <1>3, <1>4, <2>5, <3>1 DEF InFlight
  <2>6. CASE ~ (x.base = t /\ x.fn = f)
    <3>1. InFlight(t, f) => InFlight(t, f)'
      BY <1>4, <1>5, <2>6 DEF InFlight
    <3> QED BY <2>2, <2>4, <3>1
  <2> QED BY <2>5, <2>6
<1>19. FreshInv' BY <1>6 DEF FreshInv
<1>20. ResultInv' BY <1>6 DEF ResultInv
<1> QED BY <1>11, <1>12, <1>14, <1>15, <1>16, <1>17, <1>18, <1>19, <1>20

(***************************************************************************)
(* A call begins.                                                          *)
(***************************************************************************)
LEMMA ReachedByEdge ==
  ASSUME NEW t \in Tasks, NEW f \in Reachable[t], f # GraphRoot
  PROVE  Into(t, f) # {}
<1> SUFFICES ASSUME Into(t, f) = {} PROVE FALSE OBVIOUS
<1> DEFINE S == Reachable[t] \ {f}
<1>1. DOMAIN NextOf[t] = Nodes /\ GraphRoot \in Nodes BY DEF NextOf, Nodes
<1>2. Reachable[t] = Closure(NextOf[t], {GraphRoot}) BY DEF Reachable
<1>3. /\ GraphRoot \in Reachable[t] /\ Reachable[t] \subseteq Nodes
      /\ Successors(NextOf[t], Reachable[t]) \subseteq Reachable[t]
  BY <1>1, <1>2, ClosureFacts
<1>4. Successors(NextOf[t], S) \subseteq S
  <2> SUFFICES ASSUME NEW g \in Successors(NextOf[t], S) PROVE g \in S OBVIOUS
  <2>1. PICK e \in EdgesOf(NextOf[t], S) : g = NextOf[t][e[1]][e[2]]
    BY DEF Successors
  <2>2. e \in EdgesOf(NextOf[t], Reachable[t]) BY <2>1 DEF EdgesOf
  <2>3. g \in DOMAIN NextOf[t] BY DEF Successors
  <2>4. g \in Reachable[t] BY <1>3, <2>1, <2>2, <2>3 DEF Successors
  <2>5. g # f BY <2>1, <2>2 DEF Into, EdgesInto
  <2> QED BY <2>4, <2>5
<1>5. S \in Closed(NextOf[t], {GraphRoot}) BY <1>1, <1>3, <1>4 DEF Closed
<1>6. Reachable[t] \subseteq S BY <1>2, <1>5, ClosureFacts
<1> QED BY <1>6

LEMMA StartFlow ==
  ASSUME EngineInv, FlowInv, NEW t \in Tasks, StartTask(t), JobsStay,
         NEW p, p \notin {"idle", "returned"}, phase' = [phase EXCEPT ![t] = p]
  PROVE  FlowInv'
<1> USE DEF FlowInv
<1>0. TypeInv BY DEF EngineInv
<1>1. PICK item : item = [base |-> t, fn |-> GraphRoot, inputs |-> {}] OBVIOUS
<1>2. /\ phase[t] = "idle" /\ Push(CPU, item)
      /\ UNCHANGED <<not_ready, applied, captured_vars, has_error, result>>
      /\ dependencies' = [dependencies EXCEPT ![t] = InitialDependencies[t]]
  BY <1>1 DEF StartTask, history
<1>3. /\ item.base = t /\ item.fn = GraphRoot /\ item.inputs = {}
      /\ CPU \in Workers /\ GraphRoot \in Nodes
  BY <1>1, CPUWorker DEF Nodes
<1>4. /\ ready'[CPU] = ready[CPU] \cup {item}
      /\ \A w \in Workers : w # CPU => ready'[w] = ready[w]
  BY <1>0, <1>2, <1>3 DEF Push, TypeInv, TypeOK
<1>5. Jobs' = Jobs /\ job' = job BY DEF JobsStay
<1>6. FlowSame BY <1>2, <1>5, SameHeld
<1>7. \A u \in Tasks, f \in Nodes :
         Unsent(u, f)' = Unsent(u, f) /\ Received(u, f)' = Received(u, f)
  BY <1>6 DEF FlowSame
<1>8. \A u \in Tasks, f \in Fns :
         Unsent(u, f)' = Unsent(u, f) /\ Received(u, f)' = Received(u, f)
  BY <1>7 DEF Nodes
<1>9. /\ phase'[t] = p /\ \A u \in Tasks : u # t => phase'[u] = phase[u]
      /\ dependencies'[t] = InitialDependencies[t]
      /\ \A u \in Tasks : u # t => dependencies'[u] = dependencies[u]
  BY <1>0, <1>2 DEF TypeInv, TypeOK
<1>10. \A f \in Nodes : Unsent(t, f) = Into(t, f)
  <2>1. \A f \in Nodes : applied[t][f] = NoBuffer
    BY <1>2 DEF EngineInv, CoreInv, IdleInv
  <2> SUFFICES ASSUME NEW f \in Nodes, NEW e \in Into(t, f) PROVE Held(t, e)
    BY DEF Unsent
  <2>2. e[1] \in Nodes BY IntoFacts DEF LeadsTo
  <2> QED BY <2>1, <2>2 DEF Held
<1>11. DependInv'
  <2> SUFFICES ASSUME NEW u \in Tasks, phase'[u] # "idle", NEW f \in Fns
               PROVE  dependencies'[u][f] = Cardinality(Unsent(u, f)')
    BY DEF DependInv
  <2>1. CASE u = t
    <3>1. f \in Nodes /\ DOMAIN NextOf[t] = Nodes BY DEF Nodes, NextOf
    <3>2. InitialDependencies[t][f] = Dependencies(NextOf[t], GraphRoot)[f]
      BY DEF InitialDependencies
    <3>3. Dependencies(NextOf[t], GraphRoot)[f] = Cardinality(Into(t, f))
      BY <3>1 DEF Dependencies, Into, Reachable
    <3> QED BY <1>7, <1>9, <1>10, <2>1, <3>1, <3>2, <3>3
  <2>2. CASE u # t BY <1>8, <1>9, <2>2 DEF DependInv
  <2> QED BY <2>1, <2>2
<1>12. Into(t, GraphRoot) = {} BY <1>3, IntoFacts, NamesAssumption
<1>13. QueueInv'
  <2> SUFFICES ASSUME NEW v \in Workers, NEW x \in ready'[v], x.fn # NullFn
               PROVE  /\ x.fn \in Wanted(x.base) /\ Unsent(x.base, x.fn)' = {}
                      /\ x.inputs = Received(x.base, x.fn)'
    BY DEF QueueInv, Wanted
  <2>1. CASE x \in ready[v]
    <3>1. x.base \in Tasks /\ x.fn \in Nodes BY <1>0, <2>1, QueueTypes
    <3> QED BY <1>7, <2>1, <3>1 DEF QueueInv
  <2>2. CASE x \notin ready[v]
    <3>1. x = item BY <1>4, <2>2
    <3>2. GraphRoot \in Wanted(t) BY ReachableFacts DEF Wanted
    <3>3. Unsent(t, GraphRoot)' = {} /\ Received(t, GraphRoot)' = {}
      BY <1>3, <1>7, <1>12 DEF Unsent, Received
    <3> QED BY <1>3, <3>1, <3>2, <3>3
  <2> QED BY <2>1, <2>2
<1>14. ActiveInv'
  <2> SUFFICES ASSUME NEW j \in Jobs, job[j].pc \in Active
               PROVE  ActiveOK(job[j])'
    BY <1>5 DEF ActiveInv, ActiveOK
  <2>1. job[j].base \in Tasks /\ job[j].fn \in Nodes
    BY <1>0, QueueTypes
  <2>2. ActiveOK(job[j]) BY DEF ActiveInv
  <2> QED BY <1>2, <1>5, <1>7, <2>1, <2>2 DEF ActiveOK, Wanted
<1>15. AppliedInv' BY <1>2 DEF AppliedInv
<1>16. CapturedInv' BY <1>2, <1>8 DEF CapturedInv
<1>17. WaitingInv' BY <1>2, <1>8 DEF WaitingInv, Wanted
<1>18. NoLossInv'
  <2>0. \A u \in Tasks : Wanted(u) \subseteq Nodes
    BY ReachableFacts DEF Wanted
  <2> SUFFICES ASSUME NEW u \in Tasks, phase'[u] # "idle", ~ has_error[u],
                      NEW f \in Wanted(u), Unsent(u, f)' = {}
               PROVE  InFlight(u, f)' \/ Processed(u, f)'
    BY <1>2 DEF NoLossInv, Wanted
  <2>1. f \in Nodes /\ Unsent(u, f) = {} BY <1>7, <2>0
  <2>2. CASE u = t
    <3>1. f \in Reachable[t] BY <2>2, ReachableFacts DEF Wanted
    <3>2. f = GraphRoot BY <1>10, <2>1, <2>2, <3>1, ReachedByEdge
    <3>3. item \in ready'[CPU] BY <1>4
    <3> QED BY <1>3, <2>2, <3>2, <3>3 DEF InFlight
  <2>3. CASE u # t
    <3>1. InFlight(u, f) \/ Processed(u, f) BY <1>9, <2>1, <2>3 DEF NoLossInv
    <3>2. InFlight(u, f) => InFlight(u, f)' BY <1>4, <1>5 DEF InFlight
    <3>3. Processed(u, f) => Processed(u, f)' BY <1>2 DEF Processed
    <3> QED BY <3>1, <3>2, <3>3
  <2> QED BY <2>2, <2>3
<1>19. FreshInv' BY <1>2, <1>9 DEF FreshInv
<1>20. ResultInv' BY <1>2, <1>9 DEF ResultInv
<1> QED BY <1>11, <1>13, <1>14, <1>15, <1>16, <1>17, <1>18, <1>19, <1>20-----------------------------------------------------------------------------
(***************************************************************************)
(* A call without queued or handled functions and without an error has     *)
(* evaluated everything: a function that were still missing would wait for *)
(* a sender that is missing too, and so on, which an acyclic graph does    *)
(* not allow.                                                              *)
(***************************************************************************)
LEMMA Finished ==
  ASSUME EngineInv, FlowInv, NEW t \in Tasks, phase[t] # "idle", ~ has_error[t],
         ~ Pending(t)
  PROVE  /\ \A f \in Wanted(t) : Unsent(t, f) = {} /\ Processed(t, f)
         /\ \A f \in Fns : not_ready[t][f] = NoBuffer
<1> DEFINE U == {f \in Needed[t] : applied[t][f] = NoBuffer}
<1>0. Needed[t] \subseteq Wanted(t) /\ Wanted(t) \subseteq Nodes
  BY ReachableFacts DEF Wanted
<1>1. \A e : Held(t, e) => applied[t][e[1]] = NoBuffer
  <2>1. \A j \in Jobs : job[j].base = t => job[j].pc \notin {"lock", "propagate"}
    BY ActiveCall DEF Pending, Handling, Active
  <2> QED BY <2>1 DEF Held
<1>2. \A f \in Nodes : ~ InFlight(t, f)
  BY NamesAssumption DEF InFlight, Pending, Handling
<1>3. \A f \in Wanted(t) : Unsent(t, f) = {} => Processed(t, f)
  BY <1>0, <1>2 DEF FlowInv, NoLossInv
<1>4. \A f \in Wanted(t) : \A e \in Unsent(t, f) :
        /\ e[1] \in U /\ e[2] \in DOMAIN NextOf[t][e[1]]
        /\ NextOf[t][e[1]][e[2]] = f /\ f \in Fns
  <2> SUFFICES ASSUME NEW f \in Wanted(t), NEW e \in Unsent(t, f)
               PROVE  /\ e[1] \in U /\ e[2] \in DOMAIN NextOf[t][e[1]]
                      /\ NextOf[t][e[1]][e[2]] = f /\ f \in Fns
    OBVIOUS
  <2>1. e \in Into(t, f) /\ Held(t, e) /\ f \in Nodes BY <1>0 DEF Unsent
  <2>2. /\ e \in EdgesOf(NextOf[t], Nodes) /\ e[1] \in Reachable[t]
        /\ NextOf[t][e[1]][e[2]] = f /\ f \in Fns
    BY <2>1, IntoFacts
  <2>3. e[2] \in DOMAIN NextOf[t][e[1]] BY <2>2, EdgePairs
  <2>4. e[1] \in Needed[t] BY <2>2, <2>3, NeededSenders
  <2> QED BY <1>1, <2>1, <2>2, <2>3, <2>4
<1>5. U = {}
  <2>1. U \subseteq Nodes BY <1>0
  <2>2. ASSUME NEW f \in U
        PROVE  \E p \in U : \E i \in DOMAIN NextOf[t][p] :
                 NextOf[t][p][i] = f /\ f \in Fns
    <3>1. f \in Wanted(t) /\ ~ Processed(t, f) BY <1>0 DEF Processed
    <3>2. Unsent(t, f) # {} BY <1>3, <3>1
    <3>3. PICK e : e \in Unsent(t, f) BY <3>2
    <3> QED BY <1>4, <3>1, <3>3
  <2> HIDE DEF U
  <2>3. AllSentTo(t, U) BY <2>2 DEF AllSentTo
  <2> QED BY <2>1, <2>3, NoEndlessSenders
<1>6. \A f \in Wanted(t) : Unsent(t, f) = {} BY <1>4, <1>5
<1>7. \A f \in Fns : not_ready[t][f] = NoBuffer
  BY <1>6 DEF FlowInv, WaitingInv
<1> QED BY <1>3, <1>6, <1>7

(* execute() ends. *)
LEMMA EndTaskFlow ==
  ASSUME EngineInv, FlowInv, NEW t \in Tasks, EndTask(t), JobsStay,
         phase[t] \notin {"idle", "returned"},
         UNCHANGED <<ready, dependencies, not_ready, captured_vars, applied,
                     has_error>>
  PROVE  FlowInv'
<1>0. TypeInv /\ CountInv /\ outstanding_tasks[t] = 0
  BY DEF EngineInv, CoreInv, EndTask
<1>1. /\ \A w \in Workers : \A x \in ready[w] : x.base # t
      /\ \A j \in Jobs : job[j].base = t => job[j].pc \notin Handling
  BY <1>0, CounterZero
<1>2. ~ has_error[t] => \A f \in Fns : not_ready[t][f] = NoBuffer
  <2>1. ~ Pending(t) BY <1>1 DEF Pending
  <2> QED BY <2>1, Finished
<1>3. /\ phase' = [phase EXCEPT ![t] = "returned"]
      /\ result' = [result EXCEPT ![t] = IF has_error[t] THEN "error" ELSE "ok"]
  BY <1>2 DEF EndTask
<1>4. phase \in [Tasks -> Phases] /\ DOMAIN result = Tasks
  BY <1>0 DEF TypeInv, TypeOK
<1>5. ResultInv' BY <1>3, <1>4 DEF FlowInv, ResultInv
<1>6. \A u \in Tasks : phase'[u] = "idle" <=> phase[u] = "idle"
  BY <1>3, <1>4
<1>7. Jobs' = Jobs /\ job' = job BY DEF JobsStay
<1> QED BY <1>5, <1>6, <1>7, QuietFlow

LEMMA CallerFlow ==
  ASSUME EngineInv, FlowInv, NEW t \in Tasks, CallerStep(t)
  PROVE  FlowInv'
<1>0. phase \in [Tasks -> Phases] BY DEF EngineInv, TypeInv, TypeOK
<1>1. CASE Execute(t)
  <2>1. /\ StartTask(t) /\ UNCHANGED stack
        /\ phase' = [phase EXCEPT ![t] = "checking"]
    BY <1>1 DEF Execute
  <2> QED BY <2>1, SameStack, StartFlow
<1>2. CASE ExecuteReturn(t)
  <2>1. /\ EndTask(t) /\ UNCHANGED stack /\ phase[t] = "checking"
        /\ UNCHANGED <<ready, dependencies, not_ready, captured_vars, applied,
                       has_error>>
    BY <1>2 DEF ExecuteReturn, history
  <2> QED BY <2>1, SameStack, EndTaskFlow
<1>3. CASE WaitCheck(t) \/ WaitBlock(t) \/ WaitReacquire(t) \/ SpuriousWakeup(t)
  <2>1. /\ UNCHANGED <<stack, ready, dependencies, not_ready, captured_vars,
                       applied, has_error, result>>
        /\ phase[t] \notin {"idle", "returned"}
        /\ \E p : p \notin {"idle", "returned"} /\ phase' = [phase EXCEPT ![t] = p]
    BY <1>3 DEF WaitCheck, WaitBlock, WaitReacquire, SpuriousWakeup,
                graphTaskVars, history
  <2>2. \A u \in Tasks : /\ phase'[u] = "idle" <=> phase[u] = "idle"
                         /\ phase'[u] = "returned" <=> phase[u] = "returned"
    BY <1>0, <2>1
  <2>3. ResultInv' BY <2>1, <2>2 DEF FlowInv, ResultInv
  <2>4. Jobs' = Jobs /\ job' = job BY <2>1, SameStack DEF JobsStay
  <2> QED BY <2>1, <2>2, <2>3, <2>4, QuietFlow
<1> QED BY <1>1, <1>2, <1>3 DEF CallerStep
(* A worker's step that moves or ends a job which is no function at work. *)
LEMMA QuietWorker ==
  ASSUME EngineInv, FlowInv, NEW h,
         \A j : j \in Jobs' /\ j # h => j \in Jobs /\ job'[j] = job[j],
         \A j : j \in Jobs /\ j # h => j \in Jobs' /\ job'[j] = job[j],
         h \in Jobs => job[h].pc \notin Active,
         h \in Jobs' => job'[h].pc \notin Active,
         \A w \in Workers : \A x : x.fn # NullFn =>
                  (x \in ready'[w] <=> x \in ready[w]),
         UNCHANGED <<dependencies, not_ready, captured_vars, applied, has_error,
                     result>>,
         \A t \in Tasks : /\ phase'[t] = "idle" <=> phase[t] = "idle"
                          /\ phase'[t] = "returned" <=> phase[t] = "returned"
  PROVE  FlowInv'
<1>1. ResultInv' BY DEF FlowInv, ResultInv
<1>2. \A j : j \in Jobs' /\ job'[j].pc \in Active => j \in Jobs /\ job'[j] = job[j]
  OBVIOUS
<1>3. \A j : j \in Jobs /\ job[j].pc \in Active => j \in Jobs' /\ job'[j] = job[j]
  OBVIOUS
<1> QED BY <1>1, <1>2, <1>3, QuietFlow

LEMMA LoopContinueFlow ==
  ASSUME EngineInv, FlowInv, NEW w \in Workers, LoopContinue(w) \/ SetOwner(w)
  PROVE  FlowInv'
<1>1. Jobs' = Jobs /\ job' = job
  BY LoopContinueJobs, SetOwnerJobs DEF EngineInv, JobsStay
<1>2. UNCHANGED <<ready, dependencies, not_ready, captured_vars, applied,
                  has_error, result, phase>>
  BY DEF LoopContinue, SetOwner, graphTaskVars, history, callVars
<1>3. ResultInv' BY <1>2 DEF FlowInv, ResultInv
<1> QED BY <1>1, <1>2, <1>3, QuietFlow

LEMMA ReadOwnerFlow ==
  ASSUME EngineInv, FlowInv, NEW w \in Workers, ReadOwner(w)
  PROVE  FlowInv'
<1> DEFINE new == [base |-> Now(w).base, fn |-> Now(w).fn,
                   inputs |-> Now(w).inputs, i |-> Now(w).i,
                   base_owner |-> owner[Now(w).base], pc |-> "decrement"]
<1>0. TypeInv BY DEF EngineInv
<1>1. Advances(w, "owner", new) /\ new.pc = "decrement"
  BY <1>0, ReadOwnerJobs
<1> HIDE DEF new
<1>2. PICK h : h = Here(w) OBVIOUS
<1>3. /\ Jobs' = Jobs /\ h \in Jobs /\ job'[h] = new /\ job[h].pc = "owner"
      /\ \A j \in Jobs : j # h => job'[j] = job[j]
  BY <1>1, <1>2, AdvanceFacts DEF EngineInv
<1>4. UNCHANGED <<ready, dependencies, not_ready, captured_vars, applied,
                  has_error, result, phase>>
  BY DEF ReadOwner, graphTaskVars, callVars
<1>5. job[h].pc \notin Active /\ job'[h].pc \notin Active
  BY <1>1, <1>3 DEF Active
<1> QED BY <1>3, <1>4, <1>5, QuietWorker

LEMMA DecrementFlow ==
  ASSUME EngineInv, FlowInv, NEW w \in Workers, Decrement(w)
  PROVE  FlowInv'
<1> DEFINE pc == AfterDecrement(w, Now(w).base_owner,
                                outstanding_tasks[Now(w).base] - 1)
<1>0. TypeInv BY DEF EngineInv
<1>1. /\ pc \in {"loop", "notify", "dummy"}
      /\ pc = "loop" => Finishes(w, "decrement")
      /\ pc # "loop" => Advances(w, "decrement", [Now(w) EXCEPT !.pc = pc])
  BY <1>0, DecrementJobs
<1> HIDE DEF pc
<1>2. UNCHANGED <<ready, dependencies, not_ready, captured_vars, applied,
                  has_error, result, phase>>
  BY DEF Decrement, callVars
<1>3. PICK h : h = Here(w) OBVIOUS
<1>4. CASE pc = "loop"
  <2>1. Finishes(w, "decrement") BY <1>1, <1>4
  <2>2. /\ h \in Jobs /\ job[h].pc = "decrement" /\ Jobs' = Jobs \ {h}
        /\ \A j \in Jobs \ {h} : job'[j] = job[j]
    BY <1>3, <2>1 DEF Finishes, JobEnds, Now
  <2>3. job[h].pc \notin Active BY <2>2 DEF Active
  <2> QED BY <1>2, <2>2, <2>3, QuietWorker
<1>5. CASE pc # "loop"
  <2>1. PICK new : /\ new = [Now(w) EXCEPT !.pc = pc]
                   /\ Advances(w, "decrement", new)
    BY <1>1, <1>5
  <2>2. /\ Jobs' = Jobs /\ h \in Jobs /\ job'[h] = new /\ job[h].pc = "decrement"
        /\ \A j \in Jobs : j # h => job'[j] = job[j]
    BY <1>0, <1>3, <2>1, AdvanceFacts
  <2>3. new.pc = pc
    <3>1. Now(w) \in JobRecord BY <2>1 DEF Advances, JobOK
    <3> QED BY <2>1, <3>1 DEF JobRecord
  <2>4. job[h].pc \notin Active /\ job'[h].pc \notin Active
    BY <1>1, <2>2, <2>3 DEF Active
  <2> QED BY <1>2, <2>2, <2>4, QuietWorker
<1> QED BY <1>4, <1>5

LEMMA NotifyFlow ==
  ASSUME EngineInv, FlowInv, NEW w \in Workers, Notify(w)
  PROVE  FlowInv'
<1>0. TypeInv /\ phase \in [Tasks -> Phases] BY DEF EngineInv, TypeInv, TypeOK
<1>1. PICK h : h = Here(w) OBVIOUS
<1>2. /\ Finishes(w, "notify")
      /\ phase' = [phase EXCEPT ![Now(w).base] =
                     IF @ = "waiting" THEN "woken" ELSE @]
  BY <1>0, NotifyJobs
<1>3. /\ h \in Jobs /\ job[h].pc = "notify" /\ Jobs' = Jobs \ {h}
      /\ \A j \in Jobs \ {h} : job'[j] = job[j]
  BY <1>1, <1>2 DEF Finishes, JobEnds, Now
<1>4. job[h].pc \notin Active BY <1>3 DEF Active
<1>5. \A t \in Tasks : /\ phase'[t] = "idle" <=> phase[t] = "idle"
                       /\ phase'[t] = "returned" <=> phase[t] = "returned"
  BY <1>0, <1>2
<1>6. UNCHANGED <<ready, dependencies, not_ready, captured_vars, applied,
                  has_error, result>>
  BY DEF Notify, graphTaskVars
<1> QED BY <1>3, <1>4, <1>5, <1>6, QuietWorker

LEMMA PushDummyFlow ==
  ASSUME EngineInv, FlowInv, NEW w \in Workers, PushDummy(w)
  PROVE  FlowInv'
<1>0. TypeInv /\ ready \in [Workers -> SUBSET FunctionTask]
  BY DEF EngineInv, TypeInv, TypeOK
<1>1. PICK h : h = Here(w) OBVIOUS
<1>2. /\ Finishes(w, "dummy")
      /\ Push(Now(w).base_owner,
              [base |-> Now(w).base, fn |-> NullFn, inputs |-> {}])
  BY <1>0, PushDummyJobs
<1>3. /\ h \in Jobs /\ job[h].pc = "dummy" /\ Jobs' = Jobs \ {h}
      /\ \A j \in Jobs \ {h} : job'[j] = job[j]
  BY <1>1, <1>2 DEF Finishes, JobEnds, Now
<1>4. job[h].pc \notin Active BY <1>3 DEF Active
<1>5. \A v \in Workers : \A x : x.fn # NullFn => (x \in ready'[v] <=> x \in ready[v])
  BY <1>0, <1>2 DEF Push
<1>6. UNCHANGED <<dependencies, not_ready, captured_vars, applied, has_error,
                  result, phase>>
  BY DEF PushDummy, callVars
<1> QED BY <1>3, <1>4, <1>5, <1>6, QuietWorker

LEMMA WorkerFlow ==
  ASSUME EngineInv, LoopInv, FlowInv, NEW w \in Workers, WorkerStep(w)
  PROVE  FlowInv'
<1>0. TypeInv BY DEF EngineInv
<1>1. CASE LoopExit(w)
  <2>1. /\ EndTask(Top(w).loop)
        /\ UNCHANGED <<ready, dependencies, not_ready, captured_vars, applied,
                       has_error>>
    BY <1>1 DEF LoopExit, graphTaskVars, history
  <2>2. Top(w).loop \in Tasks /\ phase[Top(w).loop] = "working"
    BY <1>0, <1>1, LoopExitLoops
  <2>3. JobsStay BY <1>0, <1>1, LoopExitJobs
  <2> QED BY <2>1, <2>2, <2>3, EndTaskFlow
<1>2. ASSUME NEW t \in Tasks, Reenter(w, t) PROVE FlowInv'
  <2>1. StartTask(t) /\ phase' = [phase EXCEPT ![t] = "working"]
    BY <1>2 DEF Reenter
  <2>2. JobsStay BY <1>0, <1>2, ReenterJobs
  <2> QED BY <2>1, <2>2, StartFlow
<1> QED
  BY <1>1, <1>2, LoopContinueFlow, PopFlow, CaptureFlow, CallFunctionFlow,
     ApplyReturnFlow, ApplyThrowFlow, LockGraphTaskFlow, PropagateInvalidFlow,
     PropagateFlow, OnExceptionFlow, ReadOwnerFlow, DecrementFlow, NotifyFlow,
     PushDummyFlow
     DEF WorkerStep
LEMMA FlowInit == Init => FlowInv
<1> SUFFICES ASSUME Init PROVE FlowInv OBVIOUS
<1>1. \A w \in Workers : /\ stack[w] = <<EmptyFrame(NoTask, "loop")>>
                         /\ Len(stack[w]) = 1 /\ stack[w][1].pc = "loop"
  BY DEF Init, EmptyFrame
<1>2. Jobs = {}
  <2>0. \A k \in 1 .. 1 : k = 1 OBVIOUS
  <2>1. \A w \in Workers : \A k \in 1 .. Len(stack[w]) : k = 1 BY <1>1, <2>0
  <2> QED BY <1>1, <2>1, JobPlaces DEF Busy, Handling
<1>3. \A t \in Tasks : phase[t] = "idle" /\ result[t] = "none" /\ ~ has_error[t]
  BY DEF Init
<1>4. \A t \in Tasks, f \in Nodes : applied[t][f] = NoBuffer BY DEF Init
<1>5. \A t \in Tasks, f \in Fns :
        not_ready[t][f] = NoBuffer /\ captured_vars[t][f] = NoBuffer
  BY DEF Init
<1>6. \A t \in Tasks, f \in Fns : Received(t, f) = {}
  <2> SUFFICES ASSUME NEW t \in Tasks, NEW f \in Fns, NEW e \in Received(t, f)
               PROVE  FALSE
    OBVIOUS
  <2>1. e \in Into(t, f) /\ f \in Nodes /\ ~ Held(t, e) BY DEF Received, Nodes
  <2>2. e \in EdgesOf(NextOf[t], Nodes) BY <2>1, IntoFacts
  <2>3. e[1] \in Nodes BY <2>2, EdgePairs
  <2> QED BY <1>4, <2>1, <2>3 DEF Held
<1>7. DependInv BY <1>3 DEF DependInv
<1>8. QueueInv BY DEF QueueInv, Init
<1>9. ActiveInv BY <1>2 DEF ActiveInv
<1>10. AppliedInv BY <1>4 DEF AppliedInv
<1>11. CapturedInv BY <1>5 DEF CapturedInv
<1>12. WaitingInv BY <1>5, <1>6 DEF WaitingInv
<1>13. NoLossInv BY <1>3 DEF NoLossInv
<1>14. FreshInv BY <1>3, <1>5 DEF FreshInv
<1>15. ResultInv BY <1>3 DEF ResultInv
<1> QED BY <1>7, <1>8, <1>9, <1>10, <1>11, <1>12, <1>13, <1>14, <1>15 DEF FlowInv

(* The invariant of the whole engine. *)
PassInv == EngineInv /\ LoopInv /\ FlowInv

LEMMA PassInit == Init => PassInv
BY EngineInit, LoopInit, FlowInit DEF PassInv

LEMMA PassStep == PassInv /\ [Next]_vars => PassInv'
<1> SUFFICES ASSUME EngineInv, LoopInv, FlowInv, [Next]_vars
             PROVE  EngineInv' /\ LoopInv' /\ FlowInv'
  BY DEF PassInv
<1>1. EngineInv' BY EngineStep
<1>2. LoopInv' BY LoopStep DEF EngineInv
<1>3. CASE Next
  <2>1. FlowInv' BY <1>3, CallerFlow, WorkerFlow DEF Next
  <2> QED BY <1>1, <1>2, <2>1
<1>4. CASE UNCHANGED vars
  <2>1. UNCHANGED <<stack, ready, dependencies, not_ready, captured_vars,
                    applied, has_error, result, phase>>
    BY <1>4 DEF vars, graphTaskVars, history, callVars
  <2>2. Jobs' = Jobs /\ job' = job BY <2>1, SameStack DEF JobsStay
  <2>3. ResultInv' BY <2>1 DEF FlowInv, ResultInv
  <2>4. FlowInv' BY <2>1, <2>2, <2>3, QuietFlow
  <2> QED BY <1>1, <1>2, <2>4
<1> QED BY <1>1, <1>2, <1>3, <1>4

-----------------------------------------------------------------------------
(***************************************************************************)
(* Every gradient goes where it has to, for every graph, every number of   *)
(* devices and every set of calls.                                         *)
(***************************************************************************)
THEOREM PassInvariant == Spec => []PassInv
BY PassInit, PassStep, PTL DEF Spec
LEMMA EdgeMembers ==
  ASSUME NEW t \in Tasks, NEW p \in Nodes, NEW e, NEW f
  PROVE  e \in EdgesInto(NextOf[t], {p}, f) <=>
           /\ e \in EdgesOf(NextOf[t], Nodes) /\ e[1] = p
           /\ NextOf[t][e[1]][e[2]] = f
<1>1. DOMAIN NextOf[t] = Nodes BY DEF NextOf
<1>2. e \in EdgesOf(NextOf[t], {p}) <=> e \in EdgesOf(NextOf[t], Nodes) /\ e[1] = p
  BY <1>1 DEF EdgesOf
<1> QED BY <1>2 DEF EdgesInto

(* With no edge held, what was received is the whole gradient. *)
LEMMA AllReceived ==
  ASSUME NEW t \in Tasks, NEW f \in Wanted(t), Unsent(t, f) = {}
  PROVE  Complete(t, f, Received(t, f))
<1>0. /\ f \in Nodes /\ Needed[t] \subseteq Reachable[t]
      /\ Reachable[t] \subseteq Nodes
  BY ReachableFacts DEF Wanted
<1>1. \A e \in Into(t, f) : ~ Held(t, e) BY DEF Unsent
<1>2. \A p \in Needed[t] : \A e \in EdgesInto(NextOf[t], {p}, f) :
        e \in Into(t, f) /\ e[1] = p
  <2> SUFFICES ASSUME NEW p \in Needed[t], NEW e \in EdgesInto(NextOf[t], {p}, f)
               PROVE  e \in Into(t, f) /\ e[1] = p
    OBVIOUS
  <2>1. /\ e \in EdgesOf(NextOf[t], Nodes) /\ e[1] = p
        /\ NextOf[t][e[1]][e[2]] = f
    BY <1>0, EdgeMembers
  <2> QED BY <1>0, <2>1, IntoFacts
<1>3. \A e \in Into(t, f) :
        /\ e[1] \in Senders(t, f) /\ e \in EdgesInto(NextOf[t], {e[1]}, f)
  <2> SUFFICES ASSUME NEW e \in Into(t, f)
               PROVE  /\ e[1] \in Senders(t, f)
                      /\ e \in EdgesInto(NextOf[t], {e[1]}, f)
    OBVIOUS
  <2>1. /\ e \in EdgesOf(NextOf[t], Nodes) /\ e[1] \in Reachable[t]
        /\ NextOf[t][e[1]][e[2]] = f /\ f \in Fns
    BY <1>0, IntoFacts
  <2>2. e[2] \in DOMAIN NextOf[t][e[1]] BY <2>1, EdgePairs
  <2>3. e[1] \in Needed[t] BY <2>1, <2>2, NeededSenders
  <2>4. e \in EdgesInto(NextOf[t], {e[1]}, f) BY <1>0, <2>1, EdgeMembers
  <2> QED BY <2>3, <2>4 DEF Senders
<1>4. \A p \in Senders(t, f) : applied[t][p] # NoBuffer
  <2> SUFFICES ASSUME NEW p \in Senders(t, f) PROVE applied[t][p] # NoBuffer
    OBVIOUS
  <2>1. PICK e : e \in EdgesInto(NextOf[t], {p}, f) BY DEF Senders
  <2>2. e \in Into(t, f) /\ e[1] = p BY <1>2, <2>1 DEF Senders
  <2> QED BY <1>1, <2>2 DEF Held
<1> DEFINE Sum == UNION {EdgesInto(NextOf[t], {p}, f) \cap applied[t][p] :
                           p \in Senders(t, f)}
<1>5. \A e : e \in Received(t, f) <=> e \in Into(t, f) /\ e \in applied[t][e[1]]
  BY <1>1 DEF Received
<1>6. ASSUME NEW e \in Received(t, f) PROVE e \in Sum
  <2>1. e \in Into(t, f) /\ e \in applied[t][e[1]] BY <1>5
  <2>2. PICK p \in Senders(t, f) : p = e[1] BY <1>3, <2>1
  <2>3. e \in EdgesInto(NextOf[t], {p}, f) \cap applied[t][p]
    BY <1>3, <2>1, <2>2
  <2> QED BY <2>3, Zenon
<1>7. ASSUME NEW e \in Sum PROVE e \in Received(t, f)
  <2>1. PICK p \in Senders(t, f) :
          e \in EdgesInto(NextOf[t], {p}, f) \cap applied[t][p]
    BY Zenon
  <2>2. p \in Needed[t] BY DEF Senders
  <2>3. e \in Into(t, f) /\ e[1] = p BY <1>2, <2>1, <2>2
  <2> QED BY <1>5, <2>1, <2>3
<1>8. Received(t, f) = Sum
  <2> HIDE DEF Sum
  <2>1. Received(t, f) \subseteq Sum BY <1>6
  <2>2. Sum \subseteq Received(t, f) BY <1>7
  <2> QED BY <2>1, <2>2
<1> QED BY <1>4, <1>8 DEF Complete

(* A function is queued, and enters call_function(), only with the         *)
(* gradients of all its senders summed in its InputBuffer.                 *)
THEOREM GradientIsComplete == Spec => []GradientComplete
<1>1. PassInv => GradientComplete
  <2> SUFFICES ASSUME EngineInv, FlowInv PROVE GradientComplete
    BY DEF PassInv
  <2>1. ASSUME NEW w \in Workers, NEW x \in ready[w], x.fn # NullFn
        PROVE  Complete(x.base, x.fn, x.inputs)
    <3>1. x.base \in Tasks BY QueueTypes DEF EngineInv
    <3>2. /\ x.fn \in Wanted(x.base) /\ Unsent(x.base, x.fn) = {}
          /\ x.inputs = Received(x.base, x.fn)
      BY <2>1 DEF FlowInv, QueueInv
    <3> QED BY <3>1, <3>2, AllReceived
  <2>2. ASSUME NEW w \in Workers, NEW k \in 1 .. Len(stack[w]),
               stack[w][k].pc \in {"capture", "call"}
        PROVE  Complete(stack[w][k].base, stack[w][k].fn, stack[w][k].inputs)
    <3> DEFINE j == <<w, k>>
    <3>1. j \in Jobs BY <2>2 DEF Jobs, Busy, Handling
    <3>2. /\ job[j].base = stack[w][k].base /\ job[j].fn = stack[w][k].fn
          /\ job[j].inputs = stack[w][k].inputs /\ job[j].pc = stack[w][k].pc
      BY <2>2, <3>1 DEF job, Job
    <3> HIDE DEF j
    <3>3. job[j].pc \in Active /\ job[j].pc \in {"capture", "call"}
      BY <2>2, <3>2 DEF Active
    <3>4. job[j].base \in Tasks BY <3>1, QueueTypes DEF EngineInv
    <3>5. /\ job[j].fn \in Wanted(job[j].base)
          /\ Unsent(job[j].base, job[j].fn) = {}
          /\ job[j].inputs = Received(job[j].base, job[j].fn)
      BY <3>1, <3>3 DEF FlowInv, ActiveInv, ActiveOK
    <3>6. Complete(job[j].base, job[j].fn, job[j].inputs)
      BY <3>4, <3>5, AllReceived
    <3> QED BY <3>2, <3>6
  <2> QED BY <2>1, <2>2 DEF GradientComplete
<1> QED BY <1>1, PassInvariant, PTL

(* execute() returns without an exception only when every function the     *)
(* call needs has been evaluated and every reachable output captured with  *)
(* its full gradient; it never reports functions it could not compute.     *)
THEOREM ResultIsSound == Spec => []ResultSound
<1>1. PassInv => ResultSound
  <2> SUFFICES ASSUME EngineInv, FlowInv, NEW t \in Tasks
               PROVE  /\ result[t] # "incomplete"
                      /\ result[t] = "ok" =>
                           /\ \A f \in Needed[t] : applied[t][f] # NoBuffer
                           /\ \A f \in Outputs[t] \cap Reachable[t] :
                                /\ captured_vars[t][f] # NoBuffer
                                /\ Complete(t, f, captured_vars[t][f])
    BY DEF PassInv, ResultSound
  <2>1. result[t] # "incomplete" BY DEF FlowInv, ResultInv
  <2>2. ASSUME result[t] = "ok"
        PROVE  /\ \A f \in Needed[t] : applied[t][f] # NoBuffer
               /\ \A f \in Outputs[t] \cap Reachable[t] :
                    /\ captured_vars[t][f] # NoBuffer
                    /\ Complete(t, f, captured_vars[t][f])
    <3>1. phase[t] = "returned" /\ ~ has_error[t]
      BY <2>2 DEF FlowInv, ResultInv
    <3>2. ~ Pending(t) BY <3>1 DEF EngineInv, CoreInv, DrainInv
    <3>3. \A f \in Wanted(t) : Unsent(t, f) = {} /\ Processed(t, f)
      BY <3>1, <3>2, Finished
    <3>4. \A f \in Needed[t] : applied[t][f] # NoBuffer
      BY <3>3 DEF Wanted, Processed
    <3>5. ASSUME NEW f \in Outputs[t] \cap Reachable[t]
          PROVE  /\ captured_vars[t][f] # NoBuffer
                 /\ Complete(t, f, captured_vars[t][f])
      <4>1. f \in Wanted(t) /\ f \in Fns BY GraphAssumption DEF Wanted
      <4>2. captured_vars[t][f] # NoBuffer BY <3>3, <4>1 DEF Processed
      <4>3. captured_vars[t][f] = Received(t, f) /\ Unsent(t, f) = {}
        BY <4>1, <4>2 DEF FlowInv, CapturedInv
      <4> QED BY <4>1, <4>2, <4>3, AllReceived
    <3> QED BY <3>4, <3>5
  <2> QED BY <2>1, <2>2
<1> QED BY <1>1, PassInvariant, PTL-----------------------------------------------------------------------------
(***************************************************************************)
(* The engine implements BackwardPass, its safety part: every step is a    *)
(* step of an abstract call or changes nothing that it shows.              *)
(***************************************************************************)
AbsStatus == [t \in Tasks |-> Status(t)]
DoneOf(t) == {f \in Nodes : applied[t][f] # NoBuffer}
AbsDone   == [t \in Tasks |-> DoneOf(t)]

LEMMA StatusChange ==
  ASSUME NEW t \in Tasks, NEW s, Status(t)' = s,
         \A u \in Tasks \ {t} : Status(u)' = Status(u)
  PROVE  AbsStatus' = [AbsStatus EXCEPT ![t] = s]
BY DEF AbsStatus

LEMMA StatusKept ==
  ASSUME \A u \in Tasks : Status(u)' = Status(u)
  PROVE  AbsStatus' = AbsStatus
BY DEF AbsStatus

LEMMA DoneChange ==
  ASSUME NEW t \in Tasks, NEW S, DoneOf(t)' = S,
         \A u \in Tasks \ {t} : DoneOf(u)' = DoneOf(u)
  PROVE  AbsDone' = [AbsDone EXCEPT ![t] = S]
BY DEF AbsDone

LEMMA DoneKept ==
  ASSUME UNCHANGED applied
  PROVE  AbsDone' = AbsDone
BY DEF AbsDone, DoneOf

LEMMA AbstractStutter ==
  ASSUME AbsStatus' = AbsStatus, AbsDone' = AbsDone
  PROVE  UNCHANGED Abstract!vars
BY DEF Abstract!vars, AbsStatus, AbsDone, DoneOf

LEMMA AbstractStart ==
  ASSUME NEW t \in Tasks, AbsStatus[t] = "idle", AbsDone' = AbsDone,
         AbsStatus' = [AbsStatus EXCEPT ![t] = "running"]
  PROVE  Abstract!Next
BY DEF Abstract!Next, Abstract!Start, AbsStatus, AbsDone, DoneOf

LEMMA AbstractSenders ==
  ASSUME NEW t \in Tasks, NEW f
  PROVE  Abstract!Senders(t, f) = Senders(t, f)
BY DEF Abstract!Senders, Senders, Abstract!EdgesInto, EdgesInto,
       Abstract!EdgesOf, EdgesOf

LEMMA AbstractEvaluate ==
  ASSUME NEW t \in Tasks, NEW f \in Needed[t],
         AbsStatus[t] \in {"running", "failing"}, f \notin AbsDone[t],
         Senders(t, f) \subseteq AbsDone[t],
         AbsDone' = [AbsDone EXCEPT ![t] = AbsDone[t] \cup {f}],
         AbsStatus' = AbsStatus
  PROVE  Abstract!Next
<1>1. Abstract!Senders(t, f) \subseteq AbsDone[t] BY AbstractSenders
<1>2. Abstract!Evaluate(t, f)
  BY <1>1 DEF Abstract!Evaluate, AbsStatus, AbsDone, DoneOf
<1> QED BY <1>2 DEF Abstract!Next, Abstract!Progress

LEMMA AbstractThrow ==
  ASSUME NEW t \in Tasks, NEW f \in Needed[t], f \notin AbsDone[t],
         AbsStatus[t] = "running", Senders(t, f) \subseteq AbsDone[t],
         AbsStatus' = [AbsStatus EXCEPT ![t] = "failing"], AbsDone' = AbsDone
  PROVE  Abstract!Next
<1>1. Abstract!Senders(t, f) \subseteq AbsDone[t] BY AbstractSenders
<1>2. Abstract!Throw(t)
  BY <1>1 DEF Abstract!Throw, AbsStatus, AbsDone, DoneOf
<1> QED BY <1>2 DEF Abstract!Next, Abstract!Progress

LEMMA AbstractEnd ==
  ASSUME NEW t \in Tasks, NEW s,
         \/ /\ AbsStatus[t] = "running" /\ s = "ok"
            /\ Needed[t] \subseteq AbsDone[t]
         \/ AbsStatus[t] = "failing" /\ s = "failed",
         AbsStatus' = [AbsStatus EXCEPT ![t] = s], AbsDone' = AbsDone
  PROVE  Abstract!Next
<1>1. Abstract!Finish(t) \/ Abstract!Fail(t)
  BY DEF Abstract!Finish, Abstract!Fail, AbsStatus, AbsDone, DoneOf
<1> QED BY <1>1 DEF Abstract!Next, Abstract!Progress
AbstractStep == Abstract!Next \/ UNCHANGED Abstract!vars

(* Neither an exception nor a call's begin or end. *)
LEMMA SilentStep ==
  ASSUME UNCHANGED <<applied, has_error, result>>,
         \A t \in Tasks : /\ phase'[t] = "idle" <=> phase[t] = "idle"
                          /\ phase'[t] = "returned" <=> phase[t] = "returned"
  PROVE  AbstractStep
<1>1. \A u \in Tasks : Status(u)' = Status(u) BY DEF Status
<1> QED BY <1>1, StatusKept, DoneKept, AbstractStutter DEF AbstractStep

LEMMA StartStep ==
  ASSUME TypeInv, FlowInv, NEW t \in Tasks, StartTask(t),
         NEW p, p \notin {"idle", "returned"}, phase' = [phase EXCEPT ![t] = p]
  PROVE  AbstractStep
<1>0. phase \in [Tasks -> Phases] BY DEF TypeInv, TypeOK
<1>1. /\ phase[t] = "idle" /\ UNCHANGED <<applied, has_error, result>>
  BY DEF StartTask, history
<1>2. ~ has_error[t] BY <1>1 DEF FlowInv, FreshInv
<1>3. Status(t) = "idle" /\ Status(t)' = "running"
  BY <1>0, <1>1, <1>2 DEF Status
<1>4. \A u \in Tasks \ {t} : Status(u)' = Status(u) BY <1>0, <1>1 DEF Status
<1>5. AbsStatus' = [AbsStatus EXCEPT ![t] = "running"]
  BY <1>3, <1>4, StatusChange
<1>6. AbsStatus[t] = "idle" BY <1>3 DEF AbsStatus
<1> QED BY <1>1, <1>5, <1>6, DoneKept, AbstractStart DEF AbstractStep

LEMMA EndStep ==
  ASSUME EngineInv, FlowInv, NEW t \in Tasks, EndTask(t),
         phase[t] \notin {"idle", "returned"}, UNCHANGED <<applied, has_error>>
  PROVE  AbstractStep
<1>0. /\ phase \in [Tasks -> Phases] /\ DOMAIN result = Tasks
      /\ TypeInv /\ CountInv /\ outstanding_tasks[t] = 0
  BY DEF EngineInv, TypeInv, TypeOK, CoreInv, EndTask
<1>1. ~ Pending(t) BY <1>0, CounterZero DEF Pending
<1>2. ~ has_error[t] =>
        /\ \A f \in Wanted(t) : Processed(t, f)
        /\ \A f \in Fns : not_ready[t][f] = NoBuffer
  BY <1>1, Finished
<1>3. /\ phase' = [phase EXCEPT ![t] = "returned"]
      /\ result' = [result EXCEPT ![t] = IF has_error[t] THEN "error" ELSE "ok"]
  BY <1>2 DEF EndTask
<1> DEFINE s == IF has_error[t] THEN "failed" ELSE "ok"
<1>4. Status(t)' = s BY <1>0, <1>3 DEF Status
<1>5. Status(t) = IF has_error[t] THEN "failing" ELSE "running" BY DEF Status
<1>6. \A u \in Tasks \ {t} : Status(u)' = Status(u) BY <1>0, <1>3 DEF Status
<1>7. AbsStatus' = [AbsStatus EXCEPT ![t] = s] BY <1>4, <1>6, StatusChange
<1>8. AbsStatus[t] = IF has_error[t] THEN "failing" ELSE "running"
  BY <1>5 DEF AbsStatus
<1>9. ~ has_error[t] => Needed[t] \subseteq AbsDone[t]
  <2> SUFFICES ASSUME ~ has_error[t], NEW f \in Needed[t] PROVE f \in AbsDone[t]
    OBVIOUS
  <2>1. f \in Wanted(t) /\ f \in Nodes BY ReachableFacts DEF Wanted
  <2>2. applied[t][f] # NoBuffer BY <1>2, <2>1 DEF Processed
  <2> QED BY <2>1, <2>2 DEF AbsDone, DoneOf
<1>10. AbsDone' = AbsDone BY DoneKept
<1>11. \/ /\ AbsStatus[t] = "running" /\ s = "ok"
          /\ Needed[t] \subseteq AbsDone[t]
       \/ AbsStatus[t] = "failing" /\ s = "failed"
  BY <1>8, <1>9
<1> HIDE DEF s
<1> QED BY <1>7, <1>10, <1>11, AbstractEnd DEF AbstractStep

(* A function at work could be evaluated in the abstract call. *)
LEMMA WorkingEnabled ==
  ASSUME EngineInv, FlowInv, NEW w \in Workers, NEW from \in {"apply", "except"},
         NEW new, Advances(w, from, new)
  PROVE  /\ Now(w).base \in Tasks /\ Now(w).fn \in Nodes
         /\ Now(w).fn \in Needed[Now(w).base]
         /\ phase[Now(w).base] \notin {"idle", "returned"}
         /\ applied[Now(w).base][Now(w).fn] = NoBuffer
         /\ Now(w).fn \notin AbsDone[Now(w).base]
         /\ Senders(Now(w).base, Now(w).fn) \subseteq AbsDone[Now(w).base]
<1>0. from \in Active BY DEF Active
<1>1. /\ Now(w).base \in Tasks /\ Now(w).fn \in Nodes
      /\ phase[Now(w).base] \notin {"idle", "returned"}
      /\ ActiveOK(Now(w)) /\ Now(w).pc = from
  BY <1>0, NowActive
<1>2. /\ Now(w).fn \in Needed[Now(w).base]
      /\ Now(w).fn \in Wanted(Now(w).base)
      /\ Unsent(Now(w).base, Now(w).fn) = {}
      /\ from = "except" => applied[Now(w).base][Now(w).fn] = NoBuffer
  BY <1>0, <1>1 DEF ActiveOK
<1>3. from = "apply" => applied[Now(w).base][Now(w).fn] = NoBuffer
  <2>1. Here(w) \in Jobs /\ job[Here(w)] = Now(w)
    BY AdvanceFacts DEF EngineInv
  <2> QED BY <1>0, <1>1, <2>1 DEF EngineInv, CoreInv, OnceInv
<1>4. Complete(Now(w).base, Now(w).fn, Received(Now(w).base, Now(w).fn))
  BY <1>1, <1>2, AllReceived
<1>5. \A p \in Senders(Now(w).base, Now(w).fn) :
        p \in Nodes /\ applied[Now(w).base][p] # NoBuffer
  BY <1>1, <1>4, ReachableFacts DEF Complete, Senders
<1> QED BY <1>1, <1>2, <1>3, <1>5 DEF AbsDone, DoneOf

LEMMA ApplyReturnStep ==
  ASSUME EngineInv, FlowInv, NEW w \in Workers, ApplyReturn(w)
  PROVE  AbstractStep
<1>0. TypeInv /\ applied \in [Tasks -> [Nodes -> Buffers]]
  BY DEF EngineInv, TypeInv, TypeOK
<1> DEFINE new == [Now(w) EXCEPT !.pc =
                     IF NextOf[Now(w).base][Now(w).fn] = <<>> THEN "owner" ELSE "lock"]
<1>1. /\ Advances(w, "apply", new)
      /\ \E D \in DefinedOutputs(Now(w).base, Now(w).fn) :
           applied' = [applied EXCEPT ![Now(w).base][Now(w).fn] = {Now(w).fn} \X D]
  BY <1>0, ApplyReturnJobs
<1> HIDE DEF new
<1>2. PICK t, f : t = Now(w).base /\ f = Now(w).fn OBVIOUS
<1>3. /\ t \in Tasks /\ f \in Nodes /\ f \in Needed[t]
      /\ phase[t] \notin {"idle", "returned"} /\ applied[t][f] = NoBuffer
      /\ f \notin AbsDone[t] /\ Senders(t, f) \subseteq AbsDone[t]
  BY <1>1, <1>2, WorkingEnabled
<1>4. PICK D \in DefinedOutputs(t, f) :
        applied' = [applied EXCEPT ![t][f] = {f} \X D]
  BY <1>1, <1>2
<1>5. {f} \X D # NoBuffer
  BY <1>3, <1>4, OutputsBuffer DEF DefinedOutputs
<1>6. \A u \in Tasks, g \in Nodes :
        applied'[u][g] = IF u = t /\ g = f THEN {f} \X D ELSE applied[u][g]
  BY <1>0, <1>3, <1>4
<1>7. AbsDone' = [AbsDone EXCEPT ![t] = AbsDone[t] \cup {f}]
  <2>1. AbsDone[t] = DoneOf(t) BY <1>3 DEF AbsDone
  <2>2. DoneOf(t)' = DoneOf(t) \cup {f} BY <1>3, <1>5, <1>6 DEF DoneOf
  <2>3. \A u \in Tasks \ {t} : DoneOf(u)' = DoneOf(u) BY <1>6 DEF DoneOf
  <2> QED BY <1>3, <2>1, <2>2, <2>3, DoneChange
<1>8. UNCHANGED <<phase, result, has_error>>
  BY DEF ApplyReturn, callVars, graphTaskVars
<1>9. \A u \in Tasks : Status(u)' = Status(u) BY <1>8 DEF Status
<1>10. AbsStatus' = AbsStatus BY <1>9, StatusKept
<1>11. AbsStatus[t] \in {"running", "failing"} BY <1>3 DEF AbsStatus, Status
<1> QED BY <1>3, <1>7, <1>10, <1>11, AbstractEvaluate DEF AbstractStep

LEMMA OnExceptionStep ==
  ASSUME EngineInv, FlowInv, NEW w \in Workers, OnException(w)
  PROVE  AbstractStep
<1>0. TypeInv /\ has_error \in [Tasks -> BOOLEAN] BY DEF EngineInv, TypeInv, TypeOK
<1> DEFINE new == [Now(w) EXCEPT !.pc = "owner"]
<1>1. /\ Advances(w, "except", new)
      /\ has_error' = [has_error EXCEPT ![Now(w).base] = TRUE]
  BY <1>0, OnExceptionJobs
<1> HIDE DEF new
<1>2. PICK t, f : t = Now(w).base /\ f = Now(w).fn OBVIOUS
<1>3. /\ t \in Tasks /\ f \in Needed[t]
      /\ phase[t] \notin {"idle", "returned"}
      /\ f \notin AbsDone[t] /\ Senders(t, f) \subseteq AbsDone[t]
  BY <1>1, <1>2, WorkingEnabled
<1>4. UNCHANGED <<phase, result, applied>>
  BY DEF OnException, callVars, history
<1>5. has_error' = [has_error EXCEPT ![t] = TRUE] BY <1>1, <1>2
<1>6. \A u \in Tasks \ {t} : Status(u)' = Status(u)
  BY <1>0, <1>4, <1>5 DEF Status
<1>7. Status(t)' = "failing" BY <1>0, <1>3, <1>4, <1>5 DEF Status
<1>8. AbsStatus' = [AbsStatus EXCEPT ![t] = "failing"]
  BY <1>3, <1>6, <1>7, StatusChange
<1>9. AbsDone' = AbsDone BY <1>4, DoneKept
<1>10. CASE has_error[t]
  <2>1. Status(t) = "failing" BY <1>3, <1>10 DEF Status
  <2>2. \A u \in Tasks : Status(u)' = Status(u) BY <1>6, <1>7, <2>1
  <2> QED BY <1>9, <2>2, StatusKept, AbstractStutter DEF AbstractStep
<1>11. CASE ~ has_error[t]
  <2>1. AbsStatus[t] = "running" BY <1>3, <1>11 DEF Status, AbsStatus
  <2> QED BY <1>3, <1>8, <1>9, <2>1, AbstractThrow DEF AbstractStep
<1> QED BY <1>10, <1>11

LEMMA CallerAbstract ==
  ASSUME EngineInv, FlowInv, NEW t \in Tasks, CallerStep(t)
  PROVE  AbstractStep
<1>0. TypeInv /\ phase \in [Tasks -> Phases] BY DEF EngineInv, TypeInv, TypeOK
<1>1. CASE Execute(t)
  <2>1. StartTask(t) /\ phase' = [phase EXCEPT ![t] = "checking"]
    BY <1>1 DEF Execute
  <2> QED BY <1>0, <2>1, StartStep
<1>2. CASE ExecuteReturn(t)
  <2>1. /\ EndTask(t) /\ phase[t] = "checking" /\ UNCHANGED <<applied, has_error>>
    BY <1>2 DEF ExecuteReturn, history
  <2> QED BY <2>1, EndStep
<1>3. CASE WaitCheck(t) \/ WaitBlock(t) \/ WaitReacquire(t) \/ SpuriousWakeup(t)
  <2>1. /\ UNCHANGED <<applied, has_error, result>>
        /\ phase[t] \notin {"idle", "returned"}
        /\ \E p : p \notin {"idle", "returned"} /\ phase' = [phase EXCEPT ![t] = p]
    BY <1>3 DEF WaitCheck, WaitBlock, WaitReacquire, SpuriousWakeup,
                graphTaskVars, history
  <2>2. \A u \in Tasks : /\ phase'[u] = "idle" <=> phase[u] = "idle"
                         /\ phase'[u] = "returned" <=> phase[u] = "returned"
    BY <1>0, <2>1
  <2> QED BY <2>1, <2>2, SilentStep
<1> QED BY <1>1, <1>2, <1>3 DEF CallerStep

LEMMA WorkerAbstract ==
  ASSUME EngineInv, LoopInv, FlowInv, NEW w \in Workers, WorkerStep(w)
  PROVE  AbstractStep
<1>0. TypeInv /\ phase \in [Tasks -> Phases] BY DEF EngineInv, TypeInv, TypeOK
<1>1. CASE LoopExit(w)
  <2>1. EndTask(Top(w).loop) /\ UNCHANGED <<applied, has_error>>
    BY <1>1 DEF LoopExit, graphTaskVars, history
  <2>2. Top(w).loop \in Tasks /\ phase[Top(w).loop] = "working"
    BY <1>0, <1>1, LoopExitLoops
  <2> QED BY <2>1, <2>2, EndStep
<1>2. ASSUME NEW t \in Tasks, Reenter(w, t) PROVE AbstractStep
  <2>1. StartTask(t) /\ phase' = [phase EXCEPT ![t] = "working"]
    BY <1>2 DEF Reenter
  <2> QED BY <1>0, <2>1, StartStep
<1>3. CASE Notify(w)
  <2>1. /\ phase' = [phase EXCEPT ![Now(w).base] =
                       IF @ = "waiting" THEN "woken" ELSE @]
        /\ UNCHANGED <<applied, has_error, result>>
    BY <1>0, <1>3, NotifyJobs DEF Notify, graphTaskVars
  <2>2. \A u \in Tasks : /\ phase'[u] = "idle" <=> phase[u] = "idle"
                         /\ phase'[u] = "returned" <=> phase[u] = "returned"
    BY <1>0, <2>1
  <2> QED BY <2>1, <2>2, SilentStep
<1>4. CASE \/ LoopContinue(w) \/ Pop(w) \/ Capture(w) \/ CallFunction(w)
           \/ SetOwner(w) \/ ApplyThrow(w) \/ LockGraphTask(w)
           \/ PropagateInvalid(w) \/ Propagate(w) \/ ReadOwner(w)
           \/ Decrement(w) \/ PushDummy(w)
  <2>1. UNCHANGED <<applied, has_error, result, phase>>
    BY <1>4 DEF LoopContinue, Pop, Capture, CallFunction, SetOwner, ApplyThrow,
       LockGraphTask, PropagateInvalid, Propagate, ReadOwner, Decrement,
       PushDummy, callVars, graphTaskVars, history
  <2> QED BY <2>1, SilentStep
<1> QED
  BY <1>1, <1>2, <1>3, <1>4, ApplyReturnStep, OnExceptionStep DEF WorkerStep

(* The engine implements the abstract backward pass: a function is         *)
(* evaluated once, after everything that sends it a gradient, for a call   *)
(* that has started and not ended, and execute() ends the way the abstract *)
(* call does.                                                              *)
THEOREM EngineImplementsBackwardPass == Spec => Abstract!Spec
<1>1. Init => Abstract!Init
  <2> SUFFICES ASSUME Init PROVE Abstract!Init OBVIOUS
  <2>1. \A t \in Tasks : Status(t) = "idle" BY DEF Init, Status
  <2>2. \A t \in Tasks : {f \in Nodes : applied[t][f] # NoBuffer} = {} BY DEF Init
  <2> QED BY <2>1, <2>2 DEF Abstract!Init
<1>2. PassInv /\ [Next]_vars => [Abstract!Next]_(Abstract!vars)
  <2> SUFFICES ASSUME EngineInv, LoopInv, FlowInv, [Next]_vars PROVE AbstractStep
    BY DEF PassInv, AbstractStep
  <2>1. CASE Next BY <2>1, CallerAbstract, WorkerAbstract DEF Next
  <2>2. CASE UNCHANGED vars
    <3>1. UNCHANGED <<applied, has_error, result, phase>>
      BY <2>2 DEF vars, callVars, graphTaskVars, history
    <3> QED BY <3>1, SilentStep
  <2> QED BY <2>1, <2>2
<1> QED BY <1>1, <1>2, PassInvariant, PTL DEF Spec, Abstract!Spec

-----------------------------------------------------------------------------
(***************************************************************************)
(* What holds of the engine's threads only in some circumstances, for      *)
(* every graph and number of devices: no worker touches a GraphTask after  *)
(* its execute() has returned, checkpoint_valid means what its comment     *)
(* says, and no function's apply() is entered by two workers.  The         *)
(* circumstances are the hypotheses of the theorems.                       *)
(***************************************************************************)

(* No function calls execute() from its apply(). *)
NoReentry == \A t \in Tasks : Host[t] = Caller

(* Every call has something to differentiate. *)
NonemptyRoots == \A t \in Tasks : Roots[t] # <<>>

(***************************************************************************)
(* The life of a GraphTask, for calls made by threads of their own.  Until *)
(* the caller sleeps it holds the mutex, and without it the worker cannot  *)
(* propagate from the root: so the counter reaches 0 only when the caller  *)
(* waits, and the worker that brought it to 0 wakes it as its last step.   *)
(***************************************************************************)
RootSteps == {"call", "apply", "lock"}
RootWaits(t) ==
  \/ \E w \in Workers : \E x \in ready[w] : x.base = t /\ x.fn = GraphRoot
  \/ \E j \in Jobs : /\ job[j].base = t /\ job[j].fn = GraphRoot
                     /\ job[j].pc \in RootSteps

NoJobOf(t) == \A j \in Jobs : job[j].base # t
Gone(t)    == outstanding_tasks[t] = 0 /\ NoJobOf(t)

OwnedInv == \A t \in Tasks : owner[t] = NO_DEVICE /\ phase[t] # "working"

(* GraphTask::mutex excludes workers from each other ... *)
MutexInv ==
  /\ \A j \in Jobs : job[j].pc = "propagate" => mutex[job[j].base]
  /\ \A i, j \in Jobs :
       /\ job[i].pc = "propagate" /\ job[j].pc = "propagate"
       /\ job[i].base = job[j].base
       => i = j

TellInv ==
  /\ \A j \in Jobs : job[j].pc = "notify" => outstanding_tasks[job[j].base] = 0
  /\ \A i, j \in Jobs :
       /\ job[i].pc = "notify" /\ job[j].pc = "notify"
       /\ job[i].base = job[j].base
       => i = j

(* ... and from the caller, which holds it until it sleeps. *)
CallerHolds(t) ==
  /\ mutex[t]
  /\ \A j \in Jobs : job[j].base = t => job[j].pc # "propagate"
  /\ \/ RootWaits(t) /\ ~ has_error[t]
     \/ phase[t] = "checking" /\ Gone(t)
CallerInv ==
  \A t \in Tasks :
    /\ phase[t] \in {"checking", "blocking"} => CallerHolds(t)
    /\ phase[t] \in {"woken", "returned"} => Gone(t)

LifeInv == OwnedInv /\ MutexInv /\ TellInv /\ CallerInv /\ ~ dangling

(***************************************************************************)
(* checkpoint_valid: the functions a worker is inside of, up to depth n of *)
(* its thread_main() calls, all belong to imperative backward passes.      *)
(***************************************************************************)
Inside(fr) == fr.pc \in {"apply", "nested"}
Imperative(s, n) == \A k \in 1 .. n : Inside(s[k]) => ~ GradMode(s[k].base)

(* prev is the value to come back to. *)
CheckpointOK(s, valid) ==
  /\ valid <=> Imperative(s, Len(s))
  /\ \A k \in 1 .. Len(s) : Inside(s[k]) => (s[k].prev <=> Imperative(s, k - 1))
CheckpointInv == \A w \in Workers : CheckpointOK(stack[w], checkpoint_valid[w])

(* Nothing fails if no function does. *)
NoErrorInv ==
  /\ \A j \in Jobs : job[j].pc # "except"
  /\ \A t \in Tasks : ~ has_error[t]
-----------------------------------------------------------------------------
LEMMA NoOwners ==
  ASSUME EngineInv, OwnedInv, NEW j \in Jobs
  PROVE  /\ job[j].base \in Tasks /\ job[j].pc # "dummy"
         /\ job[j].pc = "decrement" => job[j].base_owner = NO_DEVICE
<1>1. job[j].base \in Tasks /\ (job[j].pc = "dummy" => job[j].base_owner \in Workers)
  BY JobTypes DEF EngineInv, JobsOK, JobOK, JobRecord
<1>2. job[j].pc \in {"decrement", "notify", "dummy"} =>
        job[j].base_owner \in {NO_DEVICE, owner[job[j].base]}
  BY DEF EngineInv, CoreInv, OwnerInv
<1>3. owner[job[j].base] = NO_DEVICE BY <1>1 DEF OwnedInv
<1> QED BY <1>1, <1>2, <1>3, CPUWorker

LEMMA NoLoops ==
  ASSUME TypeInv, LoopInv, OwnedInv, NEW w \in Workers
  PROVE  Top(w).loop = NoTask
<1>1. Len(stack[w]) \in 1 .. Len(stack[w]) BY TopOK
<1>2. Top(w).loop \in Tasks \cup {NoTask} BY <1>1, LoopTypes DEF Top
<1>3. Top(w).loop # NoTask => phase[Top(w).loop] = "working"
  BY <1>1 DEF LoopInv, Top
<1> QED BY <1>2, <1>3 DEF OwnedInv

(* While a FunctionTask of call b is handled, the counter is not 0, nobody *)
(* has been told of its end, and a caller with the mutex waits for the     *)
(* root.                                                                   *)
LEMMA HandledCall ==
  ASSUME EngineInv, LifeInv, NEW h \in Jobs, job[h].pc \in Handling
  PROVE  LET b == job[h].base IN
         /\ b \in Tasks /\ outstanding_tasks[b] # 0 /\ ~ Gone(b)
         /\ phase[b] \notin {"woken", "returned"}
         /\ phase[b] \in {"checking", "blocking"} =>
              CallerHolds(b) /\ RootWaits(b) /\ ~ has_error[b]
         /\ \A j \in Jobs : job[j].base = b => job[j].pc # "notify"
<1>1. PICK b : b = job[h].base OBVIOUS
<1>2. b \in Tasks BY <1>1, NoOwners DEF LifeInv
<1>3. outstanding_tasks[b] # 0
  BY <1>1, <1>2, CounterZero DEF EngineInv, CoreInv
<1>4. ~ Gone(b) BY <1>3 DEF Gone
<1>5. phase[b] \notin {"woken", "returned"} BY <1>2, <1>4 DEF LifeInv, CallerInv
<1>6. phase[b] \in {"checking", "blocking"} =>
        CallerHolds(b) /\ RootWaits(b) /\ ~ has_error[b]
  BY <1>2, <1>4 DEF LifeInv, CallerInv, CallerHolds
<1>7. \A j \in Jobs : job[j].base = b => job[j].pc # "notify"
  BY <1>3 DEF LifeInv, TellInv
<1> QED BY <1>1, <1>2, <1>3, <1>4, <1>5, <1>6, <1>7

(* Calls other than b are left alone; the jobs of b may change. *)
OthersKept(b) ==
  /\ \A t \in Tasks : t # b =>
       /\ mutex'[t] = mutex[t] /\ has_error'[t] = has_error[t]
       /\ outstanding_tasks'[t] = outstanding_tasks[t]
  /\ \A w \in Workers : ready[w] \subseteq ready'[w]

(* Without the mutex a worker leaves the mutex and the error flag alone,   *)
(* and does not take the root past its evaluation.                         *)
MutexRespected(w, from, new) ==
  /\ new.pc = "propagate" =>
       mutex'[Now(w).base] /\ (from = "propagate" \/ ~ mutex[Now(w).base])
  /\ mutex[Now(w).base] /\ from # "propagate" =>
       /\ mutex'[Now(w).base]
       /\ has_error'[Now(w).base] = has_error[Now(w).base]
       /\ Now(w).fn = GraphRoot /\ from \in RootSteps => new.pc \in RootSteps

LEMMA OtherCall ==
  ASSUME NEW t \in Tasks, CallerHolds(t), phase'[t] = phase[t],
         mutex'[t] = mutex[t], has_error'[t] = has_error[t],
         outstanding_tasks'[t] = outstanding_tasks[t],
         RootWaits(t) => RootWaits(t)', NoJobOf(t) => NoJobOf(t)',
         \A j \in Jobs' : job'[j].base = t => job'[j].pc # "propagate"
  PROVE  CallerHolds(t)'
BY DEF CallerHolds, Gone

LEMMA AdvanceLife ==
  ASSUME PassInv, LifeInv, NEW w \in Workers, NEW from \in Handling, NEW new,
         Advances(w, from, new), new.base = Now(w).base, new.fn = Now(w).fn,
         UNCHANGED <<owner, phase>>, ~ dangling',
         OthersKept(Now(w).base), MutexRespected(w, from, new),
         new.pc = "notify" => outstanding_tasks'[Now(w).base] = 0
  PROVE  LifeInv'
<1> USE DEF LifeInv
<1>0. EngineInv /\ TypeInv BY DEF PassInv, EngineInv
<1>1. PICK h, b : h = Here(w) /\ b = Now(w).base OBVIOUS
<1>2. /\ Jobs' = Jobs /\ h \in Jobs /\ job'[h] = new
      /\ \A j \in Jobs : j # h => job'[j] = job[j]
      /\ job[h] = Now(w) /\ job[h].pc = from /\ job[h].base = b
  BY <1>0, <1>1, AdvanceFacts
<1>3. /\ b \in Tasks /\ outstanding_tasks[b] # 0 /\ ~ Gone(b)
      /\ phase[b] \notin {"woken", "returned"}
      /\ phase[b] \in {"checking", "blocking"} =>
           CallerHolds(b) /\ RootWaits(b) /\ ~ has_error[b]
      /\ \A j \in Jobs : job[j].base = b => job[j].pc # "notify"
  BY <1>0, <1>2, HandledCall
<1>4. /\ new.base = b /\ new.fn = job[h].fn
      /\ new.pc = "propagate" => mutex'[b] /\ (from = "propagate" \/ ~ mutex[b])
      /\ mutex[b] /\ from # "propagate" =>
           /\ mutex'[b] /\ has_error'[b] = has_error[b]
           /\ new.fn = GraphRoot /\ from \in RootSteps => new.pc \in RootSteps
      /\ new.pc = "notify" => outstanding_tasks'[b] = 0
  BY <1>1, <1>2 DEF MutexRespected
<1>5. /\ \A t \in Tasks : t # b =>
           /\ mutex'[t] = mutex[t] /\ has_error'[t] = has_error[t]
           /\ outstanding_tasks'[t] = outstanding_tasks[t]
      /\ \A v \in Workers : ready[v] \subseteq ready'[v]
  BY <1>1 DEF OthersKept
<1>6. \A j \in Jobs : job[j].base \in Tasks BY <1>0, NoOwners
<1>7. OwnedInv' BY DEF OwnedInv
<1>8. MutexInv'
  <2>1. ASSUME NEW j \in Jobs, job'[j].pc = "propagate" PROVE mutex'[job'[j].base]
    <3>1. CASE j = h BY <1>2, <1>4, <2>1, <3>1
    <3>2. CASE j # h
      <4>1. job'[j] = job[j] /\ mutex[job[j].base] BY <1>2, <2>1, <3>2 DEF MutexInv
      <4>2. CASE job[j].base # b BY <1>5, <1>6, <4>1, <4>2
      <4>3. CASE job[j].base = b
        <5>1. from # "propagate" BY <1>2, <2>1, <3>2, <4>1, <4>3 DEF MutexInv
        <5> QED BY <1>4, <4>1, <4>3, <5>1
      <4> QED BY <4>2, <4>3
    <3> QED BY <3>1, <3>2
  <2>2. ASSUME NEW j \in Jobs, j # h, job'[j].pc = "propagate",
               new.pc = "propagate", job'[j].base = b
        PROVE  FALSE
    <3>1. job'[j] = job[j] /\ mutex[b] BY <1>2, <2>2 DEF MutexInv
    <3>2. from # "propagate" BY <1>2, <2>2, <3>1 DEF MutexInv
    <3> QED BY <1>4, <2>2, <3>1, <3>2
  <2>3. ASSUME NEW i \in Jobs, NEW j \in Jobs, job'[i].pc = "propagate",
               job'[j].pc = "propagate", job'[i].base = job'[j].base
        PROVE  i = j
    <3>1. CASE i = h BY <1>2, <1>4, <2>2, <2>3, <3>1
    <3>2. CASE j = h BY <1>2, <1>4, <2>2, <2>3, <3>2
    <3>3. CASE i # h /\ j # h BY <1>2, <2>3, <3>3 DEF MutexInv
    <3> QED BY <3>1, <3>2, <3>3
  <2> QED BY <1>2, <2>1, <2>3 DEF MutexInv
<1>9. TellInv'
  <2>1. ASSUME NEW j \in Jobs, j # h, job'[j].pc = "notify"
        PROVE  job'[j] = job[j] /\ job[j].base # b
    BY <1>2, <1>3, <2>1
  <2>2. ASSUME NEW j \in Jobs, job'[j].pc = "notify"
        PROVE  outstanding_tasks'[job'[j].base] = 0
    <3>1. CASE j = h BY <1>2, <1>4, <2>2, <3>1
    <3>2. CASE j # h BY <1>5, <1>6, <2>1, <2>2, <3>2 DEF TellInv
    <3> QED BY <3>1, <3>2
  <2>3. ASSUME NEW i \in Jobs, NEW j \in Jobs, job'[i].pc = "notify",
               job'[j].pc = "notify", job'[i].base = job'[j].base
        PROVE  i = j
    <3>1. CASE i = h \/ j = h BY <1>2, <1>4, <2>1, <2>3, <3>1
    <3>2. CASE i # h /\ j # h BY <2>1, <2>3, <3>2 DEF TellInv
    <3> QED BY <3>1, <3>2
  <2> QED BY <1>2, <2>2, <2>3 DEF TellInv
<1>10. CallerInv'
  <2>1. ASSUME NEW t \in Tasks, t # b
        PROVE  /\ phase'[t] \in {"checking", "blocking"} => CallerHolds(t)'
               /\ phase'[t] \in {"woken", "returned"} => Gone(t)'
    <3>1. \A j \in Jobs : job'[j].base = t => job'[j] = job[j]
      BY <1>2, <1>4, <2>1
    <3>2. NoJobOf(t) => NoJobOf(t)' BY <1>2, <3>1 DEF NoJobOf
    <3>3. RootWaits(t) => RootWaits(t)'
      BY <1>2, <1>5, <2>1 DEF RootWaits
    <3>4. CallerHolds(t) =>
            \A j \in Jobs' : job'[j].base = t => job'[j].pc # "propagate"
      BY <1>2, <3>1 DEF CallerHolds
    <3>5. Gone(t) => Gone(t)' BY <1>5, <2>1, <3>2 DEF Gone
    <3>6. CallerHolds(t) => CallerHolds(t)'
      BY <1>5, <2>1, <3>2, <3>3, <3>4, OtherCall
    <3> QED BY <3>5, <3>6 DEF CallerInv
  <2>2. ASSUME phase'[b] \in {"checking", "blocking"} PROVE CallerHolds(b)'
    <3>1. CallerHolds(b) /\ RootWaits(b) /\ ~ has_error[b] BY <1>3, <2>2
    <3>2. mutex[b] /\ from # "propagate" BY <1>2, <3>1 DEF CallerHolds
    <3>3. mutex'[b] /\ ~ has_error'[b] BY <1>4, <3>1, <3>2
    <3>4. \A j \in Jobs : job'[j].base = b => job'[j].pc # "propagate"
      BY <1>2, <1>4, <3>1, <3>2 DEF CallerHolds
    <3>5. RootWaits(b)'
      <4>1. CASE \E v \in Workers : \E x \in ready[v] : x.base = b /\ x.fn = GraphRoot
        BY <1>5, <4>1 DEF RootWaits
      <4>2. CASE \E j \in Jobs : /\ job[j].base = b /\ job[j].fn = GraphRoot
                                 /\ job[j].pc \in RootSteps
        BY <1>2, <1>4, <3>2, <4>2 DEF RootWaits
      <4> QED BY <3>1, <4>1, <4>2 DEF RootWaits
    <3> QED BY <1>2, <3>2, <3>3, <3>4, <3>5 DEF CallerHolds
  <2>3. phase'[b] \notin {"woken", "returned"} BY <1>3
  <2> QED BY <2>1, <2>2, <2>3 DEF CallerInv
<1> QED BY <1>7, <1>8, <1>9, <1>10

(***************************************************************************)
(* Steps that take a FunctionTask on.                                      *)
(***************************************************************************)
LEMMA QuietAdvanceLife ==
  ASSUME PassInv, LifeInv, NEW w \in Workers, NEW from \in Handling, NEW new,
         Advances(w, from, new), new.base = Now(w).base, new.fn = Now(w).fn,
         UNCHANGED <<ready, outstanding_tasks, mutex, has_error, owner, phase>>,
         ~ dangling', new.pc \notin {"propagate", "notify"},
         Now(w).fn = GraphRoot /\ from \in RootSteps => new.pc \in RootSteps
  PROVE  LifeInv'
<1>1. OthersKept(Now(w).base) BY DEF OthersKept
<1>2. MutexRespected(w, from, new) BY DEF MutexRespected
<1> QED BY <1>1, <1>2, AdvanceLife

LEMMA CaptureLife ==
  ASSUME PassInv, LifeInv, NEW w \in Workers, Capture(w)
  PROVE  LifeInv'
<1> DEFINE new == [Now(w) EXCEPT !.pc = IF Now(w).fn \in Needed[Now(w).base]
                                        THEN "call" ELSE "owner"]
<1>1. Advances(w, "capture", new) BY CaptureJobs DEF PassInv, EngineInv
<1>2. Now(w) \in JobRecord BY <1>1 DEF Advances, JobOK
<1>3. new.base = Now(w).base /\ new.fn = Now(w).fn /\ new.pc \in {"call", "owner"}
  BY <1>2 DEF JobRecord
<1> HIDE DEF new
<1>4. /\ UNCHANGED <<ready, outstanding_tasks, mutex, has_error, owner, phase>>
      /\ ~ dangling'
  BY DEF Capture, callVars, history, LifeInv
<1> QED BY <1>1, <1>3, <1>4, QuietAdvanceLife DEF Handling, RootSteps

LEMMA CallFunctionLife ==
  ASSUME PassInv, LifeInv, NEW w \in Workers, CallFunction(w)
  PROVE  LifeInv'
<1> DEFINE new == [base |-> Now(w).base, fn |-> Now(w).fn, inputs |-> {},
                   i |-> Now(w).i, base_owner |-> Now(w).base_owner, pc |-> "apply"]
<1>1. Advances(w, "call", new) BY CallFunctionJobs DEF PassInv, EngineInv
<1>3. new.base = Now(w).base /\ new.fn = Now(w).fn /\ new.pc = "apply" OBVIOUS
<1> HIDE DEF new
<1>4. /\ UNCHANGED <<ready, outstanding_tasks, mutex, has_error, owner, phase>>
      /\ ~ dangling'
  BY DEF CallFunction, callVars, graphTaskVars, history, LifeInv
<1> QED BY <1>1, <1>3, <1>4, QuietAdvanceLife DEF Handling, RootSteps

(* The root of a call has outputs, so that it cannot end without the mutex. *)
LEMMA ApplyReturnLife ==
  ASSUME NonemptyRoots, PassInv, LifeInv, NEW w \in Workers, ApplyReturn(w)
  PROVE  LifeInv'
<1> DEFINE new == [Now(w) EXCEPT !.pc = IF NextOf[Now(w).base][Now(w).fn] = <<>>
                                        THEN "owner" ELSE "lock"]
<1>1. Advances(w, "apply", new) BY ApplyReturnJobs DEF PassInv, EngineInv
<1>2. Now(w) \in JobRecord BY <1>1 DEF Advances, JobOK
<1>3. new.base = Now(w).base /\ new.fn = Now(w).fn /\ new.pc \in {"lock", "owner"}
      /\ (NextOf[Now(w).base][Now(w).fn] # <<>> => new.pc = "lock")
  BY <1>2 DEF JobRecord
<1> HIDE DEF new
<1>4. ASSUME Now(w).fn = GraphRoot PROVE new.pc = "lock"
  <2>1. Now(w).base \in Tasks BY <1>2 DEF JobRecord
  <2>2. NextOf[Now(w).base][GraphRoot] = Roots[Now(w).base]
    BY <2>1 DEF NextOf, Nodes
  <2> QED BY <1>3, <1>4, <2>1, <2>2 DEF NonemptyRoots
<1>5. /\ UNCHANGED <<ready, outstanding_tasks, mutex, has_error, owner, phase>>
      /\ ~ dangling'
  BY DEF ApplyReturn, callVars, graphTaskVars, LifeInv
<1> QED BY <1>1, <1>3, <1>4, <1>5, QuietAdvanceLife DEF Handling, RootSteps

LEMMA ApplyThrowLife ==
  ASSUME NoReentry, PassInv, LifeInv, NEW w \in Workers, ApplyThrow(w)
  PROVE  LifeInv'
<1> DEFINE new == [Now(w) EXCEPT !.pc = "except"]
<1>1. Advances(w, "apply", new) /\ CanThrow(Now(w).fn)
  BY ApplyThrowJobs DEF PassInv, EngineInv
<1>2. Now(w) \in JobRecord BY <1>1 DEF Advances, JobOK
<1>3. new.base = Now(w).base /\ new.fn = Now(w).fn /\ new.pc = "except"
  BY <1>2 DEF JobRecord
<1> HIDE DEF new
<1>4. Now(w).fn # GraphRoot
  <2>1. Caller # GraphRoot /\ GraphRoot \notin MayThrow
    BY NamesAssumption, GraphAssumption DEF Nodes
  <2> QED BY <1>1, <2>1 DEF CanThrow, NoReentry
<1>5. /\ UNCHANGED <<ready, outstanding_tasks, mutex, has_error, owner, phase>>
      /\ ~ dangling'
  BY DEF ApplyThrow, callVars, graphTaskVars, history, LifeInv
<1> QED BY <1>1, <1>3, <1>4, <1>5, QuietAdvanceLife DEF Handling

LEMMA ReadOwnerLife ==
  ASSUME PassInv, LifeInv, NEW w \in Workers, ReadOwner(w)
  PROVE  LifeInv'
<1> DEFINE new == [base |-> Now(w).base, fn |-> Now(w).fn, inputs |-> Now(w).inputs,
                   i |-> Now(w).i, base_owner |-> owner[Now(w).base],
                   pc |-> "decrement"]
<1>1. Advances(w, "owner", new) /\ Access(Now(w).base)
  BY ReadOwnerJobs DEF PassInv, EngineInv
<1>2. new.base = Now(w).base /\ new.fn = Now(w).fn /\ new.pc = "decrement" OBVIOUS
<1> HIDE DEF new
<1>3. Here(w) \in Jobs /\ job[Here(w)] = Now(w) /\ Now(w).pc \in Handling
  BY <1>1 DEF Advances, Now, Handling
<1>4. phase[Now(w).base] # "returned" BY <1>3, HandledCall DEF PassInv
<1>5. ~ dangling' BY <1>1, <1>4 DEF Access, LifeInv
<1>6. UNCHANGED <<ready, outstanding_tasks, mutex, has_error, owner, phase>>
  BY DEF ReadOwner, callVars, graphTaskVars
<1> QED BY <1>1, <1>2, <1>5, <1>6, QuietAdvanceLife DEF Handling, RootSteps

LEMMA LockGraphTaskLife ==
  ASSUME PassInv, LifeInv, NEW w \in Workers, LockGraphTask(w)
  PROVE  LifeInv'
<1> DEFINE new == [base |-> Now(w).base, fn |-> Now(w).fn, inputs |-> Now(w).inputs,
                   i |-> 1, base_owner |-> Now(w).base_owner, pc |-> "propagate"]
<1>1. /\ Advances(w, "lock", new) /\ ~ mutex[Now(w).base]
      /\ mutex' = [mutex EXCEPT ![Now(w).base] = TRUE]
  BY LockGraphTaskJobs DEF PassInv, EngineInv
<1>2. new.base = Now(w).base /\ new.fn = Now(w).fn /\ new.pc = "propagate" OBVIOUS
<1> HIDE DEF new
<1>3. Now(w).base \in Tasks BY <1>1 DEF Advances, JobOK, JobRecord
<1>4. UNCHANGED <<ready, outstanding_tasks, has_error, owner, phase>> /\ ~ dangling'
  BY DEF LockGraphTask, callVars, history, LifeInv
<1>5. mutex \in [Tasks -> BOOLEAN] BY DEF PassInv, EngineInv, TypeInv, TypeOK
<1>6. OthersKept(Now(w).base) BY <1>1, <1>3, <1>4, <1>5 DEF OthersKept
<1>7. MutexRespected(w, "lock", new) BY <1>1, <1>3, <1>5 DEF MutexRespected
<1> QED BY <1>1, <1>2, <1>4, <1>6, <1>7, AdvanceLife DEF Handling

LEMMA OnExceptionLife ==
  ASSUME PassInv, LifeInv, NEW w \in Workers, OnException(w)
  PROVE  LifeInv'
<1> DEFINE new == [Now(w) EXCEPT !.pc = "owner"]
<1>1. /\ Advances(w, "except", new) /\ ~ mutex[Now(w).base]
      /\ has_error' = [has_error EXCEPT ![Now(w).base] = TRUE]
  BY OnExceptionJobs DEF PassInv, EngineInv
<1>2. Now(w) \in JobRecord BY <1>1 DEF Advances, JobOK
<1>3. new.base = Now(w).base /\ new.fn = Now(w).fn /\ new.pc = "owner"
  BY <1>2 DEF JobRecord
<1> HIDE DEF new
<1>4. UNCHANGED <<ready, outstanding_tasks, mutex, owner, phase>> /\ ~ dangling'
  BY DEF OnException, callVars, history, LifeInv
<1>5. has_error \in [Tasks -> BOOLEAN] BY DEF PassInv, EngineInv, TypeInv, TypeOK
<1>6. OthersKept(Now(w).base) BY <1>1, <1>4, <1>5 DEF OthersKept
<1>7. MutexRespected(w, "except", new) BY <1>1, <1>3 DEF MutexRespected
<1> QED BY <1>1, <1>3, <1>4, <1>6, <1>7, AdvanceLife DEF Handling

(* The next output, or the end of the loop, where the mutex is released. *)
LEMMA AdvanceOutputMutex ==
  ASSUME TypeInv, NEW w \in Workers, At(w, "propagate"), NEW ok \in BOOLEAN,
         AdvanceOutput(w, ok)
  PROVE  \E new : /\ OutputDone(w, new) /\ new.pc # "notify"
                  /\ new.pc = "propagate" => mutex'[Now(w).base]
                  /\ \A t \in Tasks : t # Now(w).base => mutex'[t] = mutex[t]
<1> DEFINE last == Now(w).i = Len(NextOf[Now(w).base][Now(w).fn])
           a == [Now(w) EXCEPT !.i = Now(w).i + 1]
           c == [base |-> Now(w).base, fn |-> Now(w).fn, inputs |-> Now(w).inputs,
                 i |-> 1, base_owner |-> Now(w).base_owner,
                 pc |-> IF ok THEN "owner" ELSE "except"]
<1>1. /\ ok /\ ~ last => Advances(w, "propagate", a)
      /\ ~ (ok /\ ~ last) => Advances(w, "propagate", c)
      /\ mutex' = [mutex EXCEPT ![Now(w).base] = ok /\ ~ last]
  BY AdvanceOutputJobs
<1>2. c.base = Now(w).base /\ c.fn = Now(w).fn /\ c.pc \in {"owner", "except"}
  OBVIOUS
<1>3. Now(w) \in JobRecord /\ Now(w).pc = "propagate" /\ Now(w).base \in Tasks
  BY <1>1 DEF Advances, JobOK, JobRecord
<1>4. a.base = Now(w).base /\ a.fn = Now(w).fn /\ a.pc = "propagate"
  BY <1>3 DEF JobRecord
<1>5. mutex \in [Tasks -> BOOLEAN] BY DEF TypeInv, TypeOK
<1>6. \A t \in Tasks : t # Now(w).base => mutex'[t] = mutex[t] BY <1>1, <1>5
<1>7. ok /\ ~ last => mutex'[Now(w).base] BY <1>1, <1>3, <1>5
<1> HIDE DEF a, c, last
<1> QED BY <1>1, <1>2, <1>4, <1>6, <1>7 DEF OutputDone

LEMMA OutputLife ==
  ASSUME PassInv, LifeInv, NEW w \in Workers, At(w, "propagate"),
         NEW ok \in BOOLEAN, AdvanceOutput(w, ok),
         UNCHANGED <<owner, phase, has_error>>, ~ dangling',
         \A t \in Tasks : t # Now(w).base =>
           outstanding_tasks'[t] = outstanding_tasks[t],
         \A v \in Workers : ready[v] \subseteq ready'[v]
  PROVE  LifeInv'
<1>1. PICK new : /\ OutputDone(w, new) /\ new.pc # "notify"
                 /\ new.pc = "propagate" => mutex'[Now(w).base]
                 /\ \A t \in Tasks : t # Now(w).base => mutex'[t] = mutex[t]
  BY AdvanceOutputMutex DEF PassInv, EngineInv
<1>2. OthersKept(Now(w).base) BY <1>1 DEF OthersKept
<1>3. MutexRespected(w, "propagate", new) BY <1>1 DEF MutexRespected
<1> QED BY <1>1, <1>2, <1>3, AdvanceLife DEF OutputDone, Handling

LEMMA PropagateInvalidLife ==
  ASSUME PassInv, LifeInv, NEW w \in Workers, PropagateInvalid(w)
  PROVE  LifeInv'
<1>1. /\ At(w, "propagate") /\ AdvanceOutput(w, TRUE)
      /\ UNCHANGED <<owner, phase, has_error, ready, outstanding_tasks>>
      /\ ~ dangling'
  BY DEF PropagateInvalid, callVars, history, LifeInv
<1> QED BY <1>1, OutputLife

LEMMA PropagateLife ==
  ASSUME PassInv, LifeInv, NEW w \in Workers, Propagate(w)
  PROVE  LifeInv'
<1>1. PICK ok, d, f, B :
        /\ At(w, "propagate") /\ AdvanceOutput(w, ok) /\ ok \in BOOLEAN
        /\ UNCHANGED <<owner, phase, has_error, dangling>>
        /\ \/ UNCHANGED <<ready, outstanding_tasks>>
           \/ Push(d, [base |-> Top(w).base, fn |-> f, inputs |-> B])
  <2> DEFINE f == NextOf[Top(w).base][Top(w).fn][Top(w).i]
             buffer == BufferWith(Top(w).base, f, <<Top(w).fn, Top(w).i>>)
             known == dependencies[Top(w).base][f] > 0
  <2>1. /\ At(w, "propagate") /\ AdvanceOutput(w, known)
        /\ UNCHANGED <<threadVars, callVars, has_error, owner, captured_vars, history>>
        /\ \/ UNCHANGED <<ready, outstanding_tasks>>
           \/ Push(BufferDevice(Top(w).base, f, buffer),
                   [base |-> Top(w).base, fn |-> f, inputs |-> buffer])
    BY Zenon DEF Propagate
  <2>2. known \in BOOLEAN OBVIOUS
  <2> HIDE DEF f, buffer, known
  <2> QED BY <2>1, <2>2 DEF callVars, history
<1>2. Now(w).base = Top(w).base
  BY <1>1, NowFields DEF PassInv, EngineInv, Busy, Handling
<1>3. /\ \A t \in Tasks : t # Now(w).base =>
           outstanding_tasks'[t] = outstanding_tasks[t]
      /\ \A v \in Workers : ready[v] \subseteq ready'[v]
  <2>1. CASE UNCHANGED <<ready, outstanding_tasks>> BY <2>1
  <2>2. CASE Push(d, [base |-> Top(w).base, fn |-> f, inputs |-> B])
    <3>1. /\ ready \in [Workers -> SUBSET FunctionTask]
          /\ outstanding_tasks \in [Tasks -> Int]
      BY DEF PassInv, EngineInv, TypeInv, TypeOK
    <3> QED BY <1>2, <2>2, <3>1 DEF Push
  <2> QED BY <1>1, <2>1, <2>2
<1> QED BY <1>1, <1>3, OutputLife DEF LifeInv

(* A FunctionTask has been counted down, and was not the last of its call. *)
LEMMA FinishLife ==
  ASSUME PassInv, LifeInv, NEW w \in Workers, Finishes(w, "decrement"),
         UNCHANGED <<owner, phase, mutex, has_error, ready>>, ~ dangling',
         \A t \in Tasks : t # Now(w).base =>
           outstanding_tasks'[t] = outstanding_tasks[t]
  PROVE  LifeInv'
<1> USE DEF LifeInv
<1>0. EngineInv BY DEF PassInv
<1>1. PICK h, b : h = Here(w) /\ b = Now(w).base OBVIOUS
<1>2. /\ Jobs' = Jobs \ {h} /\ \A j \in Jobs' : job'[j] = job[j]
      /\ h \in Jobs /\ job[h].base = b /\ job[h].pc = "decrement"
  BY <1>1 DEF Finishes, JobEnds, Now
<1>3. /\ b \in Tasks /\ phase[b] \notin {"woken", "returned"}
      /\ phase[b] \in {"checking", "blocking"} =>
           CallerHolds(b) /\ RootWaits(b) /\ ~ has_error[b]
      /\ \A j \in Jobs : job[j].base = b => job[j].pc # "notify"
  BY <1>0, <1>2, HandledCall DEF Handling
<1>4. \A t \in Tasks : t # b => outstanding_tasks'[t] = outstanding_tasks[t]
  BY <1>1
<1>5. \A j \in Jobs : job[j].base \in Tasks BY <1>0, NoOwners
<1>6. \A t \in Tasks : RootWaits(t) => RootWaits(t)'
  BY <1>2 DEF RootWaits, RootSteps
<1>7. \A t \in Tasks : NoJobOf(t) => NoJobOf(t)' BY <1>2 DEF NoJobOf
<1>8. OwnedInv' BY DEF OwnedInv
<1>9. MutexInv' BY <1>2 DEF MutexInv
<1>10. TellInv' BY <1>2, <1>3, <1>4, <1>5 DEF TellInv
<1>11. CallerInv'
  <2>1. ASSUME NEW t \in Tasks, t # b
        PROVE  /\ phase'[t] \in {"checking", "blocking"} => CallerHolds(t)'
               /\ phase'[t] \in {"woken", "returned"} => Gone(t)'
    <3>1. CallerHolds(t) =>
            \A j \in Jobs' : job'[j].base = t => job'[j].pc # "propagate"
      BY <1>2 DEF CallerHolds
    <3>2. Gone(t) => Gone(t)' BY <1>4, <1>7, <2>1 DEF Gone
    <3>3. CallerHolds(t) => CallerHolds(t)'
      BY <1>4, <1>6, <1>7, <2>1, <3>1, OtherCall
    <3> QED BY <3>2, <3>3 DEF CallerInv
  <2>2. phase'[b] \in {"checking", "blocking"} => CallerHolds(b)'
    BY <1>2, <1>3, <1>6 DEF CallerHolds
  <2> QED BY <1>3, <2>1, <2>2 DEF CallerInv
<1> QED BY <1>8, <1>9, <1>10, <1>11

LEMMA DecrementLife ==
  ASSUME PassInv, LifeInv, NEW w \in Workers, Decrement(w)
  PROVE  LifeInv'
<1> DEFINE left == outstanding_tasks[Now(w).base] - 1
           pc == AfterDecrement(w, Now(w).base_owner, left)
           new == [Now(w) EXCEPT !.pc = pc]
<1>1. /\ outstanding_tasks' = [outstanding_tasks EXCEPT ![Now(w).base] = left]
      /\ pc \in {"loop", "notify", "dummy"}
      /\ pc = "loop" => Finishes(w, "decrement")
      /\ pc # "loop" => Advances(w, "decrement", new)
      /\ Access(Now(w).base)
  BY DecrementJobs DEF PassInv, EngineInv
<1>2. pc # "loop" => left = 0 BY DEF AfterDecrement
<1>3. /\ UNCHANGED <<ready, mutex, has_error, owner, phase>>
      /\ outstanding_tasks \in [Tasks -> Int]
  BY DEF Decrement, callVars, PassInv, EngineInv, TypeInv, TypeOK
<1>4. Here(w) \in Jobs /\ job[Here(w)] = Now(w) /\ Now(w).pc \in Handling
      /\ Now(w) \in JobRecord
  BY <1>1 DEF Advances, Finishes, Now, Handling, JobOK
<1>5. phase[Now(w).base] # "returned" /\ Now(w).base \in Tasks
  BY <1>4, HandledCall DEF PassInv
<1>6. ~ dangling' BY <1>1, <1>5 DEF Access, LifeInv
<1>7. new.base = Now(w).base /\ new.fn = Now(w).fn /\ new.pc = pc
  BY <1>4 DEF JobRecord
<1>8. /\ \A t \in Tasks : t # Now(w).base =>
           outstanding_tasks'[t] = outstanding_tasks[t]
      /\ outstanding_tasks'[Now(w).base] = left
  BY <1>1, <1>3, <1>5
<1> HIDE DEF left, pc, new
<1>9. CASE pc = "loop"
  BY <1>1, <1>3, <1>6, <1>8, <1>9, FinishLife
<1>10. CASE pc # "loop"
  <2>1. OthersKept(Now(w).base) BY <1>3, <1>8 DEF OthersKept
  <2>2. MutexRespected(w, "decrement", new)
    BY <1>1, <1>3, <1>7 DEF MutexRespected, RootSteps
  <2> QED BY <1>1, <1>2, <1>3, <1>6, <1>7, <1>8, <1>10, <2>1, <2>2, AdvanceLife
          DEF Handling
<1> QED BY <1>9, <1>10

(* The caller is woken when nothing of its call is left, and what wakes it *)
(* is the last to know the GraphTask.                                      *)
LEMMA NotifyLife ==
  ASSUME PassInv, LifeInv, NEW w \in Workers, Notify(w)
  PROVE  LifeInv'
<1> USE DEF LifeInv
<1>0. EngineInv /\ TypeInv /\ CountInv BY DEF PassInv, EngineInv, CoreInv
<1>1. PICK h, b : h = Here(w) /\ b = Now(w).base OBVIOUS
<1>2. /\ Finishes(w, "notify") /\ Access(b) /\ ~ mutex[b]
      /\ phase' = [phase EXCEPT ![b] = IF @ = "waiting" THEN "woken" ELSE @]
  BY <1>0, <1>1, NotifyJobs
<1>3. /\ Jobs' = Jobs \ {h} /\ \A j \in Jobs' : job'[j] = job[j]
      /\ h \in Jobs /\ job[h].base = b /\ job[h].pc = "notify"
  BY <1>1, <1>2 DEF Finishes, JobEnds, Now
<1>4. /\ UNCHANGED <<ready, outstanding_tasks, mutex, has_error, owner>>
      /\ phase \in [Tasks -> Phases]
  BY <1>0 DEF Notify, graphTaskVars, TypeInv, TypeOK
<1>5. b \in Tasks BY <1>0, <1>3, NoOwners
<1>6. outstanding_tasks[b] = 0 BY <1>3 DEF TellInv
<1>7. \A j \in Jobs : job[j].base = b => j = h
  <2> SUFFICES ASSUME NEW j \in Jobs, job[j].base = b PROVE j = h OBVIOUS
  <2>1. job[j].pc \notin Handling BY <1>0, <1>5, <1>6, CounterZero
  <2>2. job[j].pc \in Busy \ {"nested"}
    BY <1>0, JobTypes DEF JobsOK, JobOK, JobRecord
  <2>3. job[j].pc # "dummy" BY <1>0, NoOwners
  <2>4. job[j].pc = "notify" BY <2>1, <2>2, <2>3 DEF Busy
  <2> QED BY <1>3, <2>4 DEF TellInv
<1>8. Gone(b)' BY <1>3, <1>4, <1>6, <1>7 DEF Gone, NoJobOf
<1>9. phase[b] \notin {"checking", "blocking", "woken", "returned", "working"}
  <2>1. ~ Gone(b) BY <1>3 DEF Gone, NoJobOf
  <2>2. ~ CallerHolds(b) BY <1>2 DEF CallerHolds
  <2> QED BY <1>5, <2>1, <2>2 DEF CallerInv, OwnedInv
<1>10. ~ dangling' BY <1>2, <1>9 DEF Access
<1>11. /\ \A t \in Tasks : t # b => phase'[t] = phase[t]
       /\ phase'[b] \notin {"checking", "blocking", "working"}
  BY <1>2, <1>4, <1>5, <1>9
<1>12. OwnedInv' BY <1>4, <1>11 DEF OwnedInv
<1>13. MutexInv' BY <1>3, <1>4 DEF MutexInv
<1>14. TellInv' BY <1>3, <1>4 DEF TellInv
<1>15. CallerInv'
  <2>1. ASSUME NEW t \in Tasks, t # b
        PROVE  /\ phase'[t] \in {"checking", "blocking"} => CallerHolds(t)'
               /\ phase'[t] \in {"woken", "returned"} => Gone(t)'
    <3>1. CallerHolds(t) =>
            \A j \in Jobs' : job'[j].base = t => job'[j].pc # "propagate"
      BY <1>3 DEF CallerHolds
    <3>2. NoJobOf(t) => NoJobOf(t)' BY <1>3 DEF NoJobOf
    <3>3. RootWaits(t) => RootWaits(t)' BY <1>3, <1>4 DEF RootWaits, RootSteps
    <3>4. Gone(t) => Gone(t)' BY <1>4, <3>2 DEF Gone
    <3>5. CallerHolds(t) => CallerHolds(t)'
      BY <1>4, <1>11, <2>1, <3>1, <3>2, <3>3, OtherCall
    <3> QED BY <1>11, <2>1, <3>4, <3>5 DEF CallerInv
  <2> QED BY <1>8, <1>11, <2>1 DEF CallerInv
<1> QED BY <1>10, <1>12, <1>13, <1>14, <1>15

(* The root of a call that a caller with the mutex waits for is evaluated. *)
LEMMA PopLife ==
  ASSUME PassInv, LifeInv, NEW w \in Workers, Pop(w)
  PROVE  LifeInv'
<1> USE DEF LifeInv
<1>0. EngineInv /\ TypeInv /\ CountInv BY DEF PassInv, EngineInv, CoreInv
<1>1. PICK h : h = Here(w) OBVIOUS
<1>2. PICK x, new :
        /\ x \in ready[w]
        /\ x \in FunctionTask
        /\ ready' = [ready EXCEPT ![w] = @ \ {x}]
        /\ JobMoves(w, new)
        /\ new.base = x.base /\ new.fn = x.fn /\ new.pc = FirstStep(x)
  BY <1>0, PopJobs
<1>3. /\ h \notin Jobs /\ Jobs' = Jobs \cup {h} /\ job'[h] = new
      /\ \A j \in Jobs : job'[j] = job[j]
  BY <1>0, <1>1, <1>2, PopJobs DEF JobMoves
<1>4. PICK b : b = x.base OBVIOUS
<1>5. b \in Tasks /\ new.base = b /\ new.pc \in {"owner", "capture", "call"}
  BY <1>2, <1>4 DEF FunctionTask, FirstStep
<1>6. /\ UNCHANGED <<outstanding_tasks, mutex, has_error, owner, phase>>
      /\ ~ dangling'
  BY DEF Pop, callVars, graphTaskVars, history
<1>7. /\ ready \in [Workers -> SUBSET FunctionTask]
      /\ \A v \in Workers : \A y \in ready[v] : y # x => y \in ready'[v]
  BY <1>0, <1>2 DEF TypeInv, TypeOK
<1>8. outstanding_tasks[b] # 0 BY <1>0, <1>2, <1>4, <1>5, CounterZero
<1>9. ~ Gone(b) BY <1>8 DEF Gone
<1>10. OwnedInv' BY <1>6 DEF OwnedInv
<1>11. MutexInv' BY <1>3, <1>5, <1>6 DEF MutexInv
<1>12. TellInv' BY <1>3, <1>5, <1>6 DEF TellInv
<1>13. CallerInv'
  <2>1. ASSUME NEW t \in Tasks, t # b
        PROVE  /\ phase'[t] \in {"checking", "blocking"} => CallerHolds(t)'
               /\ phase'[t] \in {"woken", "returned"} => Gone(t)'
    <3>1. CallerHolds(t) =>
            \A j \in Jobs' : job'[j].base = t => job'[j].pc # "propagate"
      BY <1>3, <1>5, <2>1 DEF CallerHolds
    <3>2. NoJobOf(t) => NoJobOf(t)' BY <1>3, <1>5, <2>1 DEF NoJobOf
    <3>3. RootWaits(t) => RootWaits(t)'
      BY <1>3, <1>4, <1>7, <2>1 DEF RootWaits
    <3>4. Gone(t) => Gone(t)' BY <1>6, <3>2 DEF Gone
    <3>5. CallerHolds(t) => CallerHolds(t)'
      BY <1>6, <3>1, <3>2, <3>3, OtherCall
    <3> QED BY <1>6, <3>4, <3>5 DEF CallerInv
  <2>2. ASSUME phase'[b] \in {"checking", "blocking"} PROVE CallerHolds(b)'
    <3>1. CallerHolds(b) /\ RootWaits(b) /\ ~ has_error[b]
      BY <1>5, <1>6, <1>9, <2>2 DEF CallerInv, CallerHolds
    <3>2. \A j \in Jobs' : job'[j].base = b => job'[j].pc # "propagate"
      BY <1>3, <1>5, <3>1 DEF CallerHolds
    <3>3. RootWaits(b)'
      <4>1. CASE x.fn = GraphRoot
        <5>1. GraphRoot # NullFn /\ GraphRoot \notin Outputs[b]
          BY <1>5, NamesAssumption, GraphAssumption DEF Nodes
        <5>2. GraphRoot \in Wanted(b)
          BY <1>2, <1>4, <4>1, <5>1 DEF PassInv, FlowInv, QueueInv
        <5>3. GraphRoot \in Needed[b] BY <5>1, <5>2 DEF Wanted
        <5>4. new.pc = "call"
          BY <1>2, <1>4, <3>1, <4>1, <5>1, <5>3 DEF FirstStep
        <5> QED BY <1>2, <1>3, <1>4, <4>1, <5>4 DEF RootWaits, RootSteps
      <4>2. CASE x.fn # GraphRoot
        BY <1>3, <1>7, <3>1, <4>2 DEF RootWaits
      <4> QED BY <4>1, <4>2
    <3> QED BY <1>6, <3>1, <3>2, <3>3 DEF CallerHolds
  <2> QED BY <1>5, <1>6, <1>9, <2>1, <2>2 DEF CallerInv
<1> QED BY <1>6, <1>10, <1>11, <1>12, <1>13

(***************************************************************************)
(* Steps of a caller.                                                      *)
(***************************************************************************)
LEMMA CallLife ==
  ASSUME EngineInv, LifeInv, NEW t \in Tasks, JobsStay,
         UNCHANGED <<owner, has_error>>, ~ dangling',
         \A u \in Tasks : u # t =>
           /\ mutex'[u] = mutex[u] /\ phase'[u] = phase[u]
           /\ outstanding_tasks'[u] = outstanding_tasks[u],
         \A v \in Workers : ready[v] \subseteq ready'[v],
         phase'[t] # "working",
         mutex'[t] \/ \A j \in Jobs : job[j].base = t => job[j].pc # "propagate",
         outstanding_tasks'[t] = outstanding_tasks[t] \/ NoJobOf(t),
         phase'[t] \in {"checking", "blocking"} => CallerHolds(t)',
         phase'[t] \in {"woken", "returned"} => Gone(t)'
  PROVE  LifeInv'
<1> USE DEF LifeInv
<1>1. Jobs' = Jobs /\ job' = job BY DEF JobsStay
<1>2. \A j \in Jobs : job[j].base \in Tasks BY NoOwners
<1>3. OwnedInv' BY DEF OwnedInv
<1>4. MutexInv' BY <1>1, <1>2 DEF MutexInv
<1>5. TellInv' BY <1>1, <1>2 DEF TellInv, NoJobOf
<1>6. CallerInv'
  <2>1. ASSUME NEW u \in Tasks, u # t
        PROVE  /\ phase'[u] \in {"checking", "blocking"} => CallerHolds(u)'
               /\ phase'[u] \in {"woken", "returned"} => Gone(u)'
    <3>1. CallerHolds(u) =>
            \A j \in Jobs' : job'[j].base = u => job'[j].pc # "propagate"
      BY <1>1 DEF CallerHolds
    <3>2. NoJobOf(u) => NoJobOf(u)' BY <1>1 DEF NoJobOf
    <3>3. RootWaits(u) => RootWaits(u)' BY <1>1 DEF RootWaits
    <3>4. Gone(u) => Gone(u)' BY <2>1, <3>2 DEF Gone
    <3>5. CallerHolds(u) => CallerHolds(u)'
      BY <2>1, <3>1, <3>2, <3>3, OtherCall
    <3> QED BY <2>1, <3>4, <3>5 DEF CallerInv
  <2> QED BY <2>1 DEF CallerInv
<1> QED BY <1>3, <1>4, <1>5, <1>6

(* A call starts: the mutex is taken before the root is queued. *)
LEMMA ExecuteLife ==
  ASSUME PassInv, LifeInv, NEW t \in Tasks, Execute(t)
  PROVE  LifeInv'
<1>0. EngineInv /\ TypeInv /\ IdleInv /\ FreshInv
  BY DEF PassInv, EngineInv, CoreInv, FlowInv
<1> DEFINE root == [base |-> t, fn |-> GraphRoot, inputs |-> {}]
<1>1. /\ phase[t] = "idle" /\ phase' = [phase EXCEPT ![t] = "checking"]
      /\ mutex' = [mutex EXCEPT ![t] = TRUE]
      /\ ready' = [ready EXCEPT ![CPU] = @ \cup {root}]
      /\ outstanding_tasks' = [outstanding_tasks EXCEPT ![t] = @ + 1]
      /\ UNCHANGED <<stack, owner, has_error, dangling>>
  BY DEF Execute, StartTask, Push, history
<1>2. /\ phase \in [Tasks -> Phases] /\ mutex \in [Tasks -> BOOLEAN]
      /\ ready \in [Workers -> SUBSET FunctionTask]
      /\ outstanding_tasks \in [Tasks -> Int]
  BY <1>0 DEF TypeInv, TypeOK
<1>3. JobsStay BY <1>1, SameStack
<1>4. NoJobOf(t) /\ ~ has_error[t]
  BY <1>0, <1>1 DEF IdleInv, FreshInv, NoJobOf
<1>5. RootWaits(t)'
  <2>1. root \in ready'[CPU] /\ root.base = t /\ root.fn = GraphRoot
    BY <1>1, <1>2, CPUWorker
  <2> HIDE DEF root
  <2> QED BY <2>1, CPUWorker DEF RootWaits
<1>6. \A j \in Jobs : job[j].base = t => job[j].pc # "propagate"
  BY <1>4 DEF NoJobOf
<1>7. mutex'[t] /\ ~ has_error'[t] BY <1>1, <1>2, <1>4
<1>8. CallerHolds(t)'
  BY <1>3, <1>5, <1>6, <1>7 DEF CallerHolds, JobsStay
<1>9. /\ \A u \in Tasks : u # t =>
           /\ mutex'[u] = mutex[u] /\ phase'[u] = phase[u]
           /\ outstanding_tasks'[u] = outstanding_tasks[u]
      /\ \A v \in Workers : ready[v] \subseteq ready'[v]
      /\ phase'[t] = "checking"
  BY <1>1, <1>2
<1> QED BY <1>0, <1>1, <1>3, <1>4, <1>7, <1>8, <1>9, CallLife DEF LifeInv

(* The predicate of wait() is false only while the root has not been       *)
(* propagated, and true only when the call is over.                        *)
LEMMA WaitLife ==
  ASSUME Spurious = FALSE, PassInv, LifeInv, NEW t \in Tasks,
         \/ WaitCheck(t) \/ WaitBlock(t) \/ WaitReacquire(t) \/ ExecuteReturn(t)
         \/ SpuriousWakeup(t)
  PROVE  LifeInv'
<1> USE DEF LifeInv
<1>0. EngineInv /\ TypeInv /\ CountInv BY DEF PassInv, EngineInv, CoreInv
<1>1. /\ UNCHANGED <<ready, stack, outstanding_tasks, has_error, owner>>
      /\ ~ dangling'
  BY DEF WaitCheck, WaitBlock, WaitReacquire, ExecuteReturn, SpuriousWakeup,
         graphTaskVars, history
<1>2. phase \in [Tasks -> Phases] /\ mutex \in [Tasks -> BOOLEAN]
  BY <1>0 DEF TypeInv, TypeOK
<1>3. JobsStay /\ Jobs' = Jobs /\ job' = job BY <1>1, SameStack DEF JobsStay
<1>4. \A u \in Tasks : u # t => mutex'[u] = mutex[u] /\ phase'[u] = phase[u]
  BY <1>2 DEF WaitCheck, WaitBlock, WaitReacquire, ExecuteReturn, EndTask,
         SpuriousWakeup, graphTaskVars
<1>5. RootWaits(t)' <=> RootWaits(t) BY <1>1, <1>3 DEF RootWaits
<1>6. Gone(t)' <=> Gone(t) BY <1>1, <1>3 DEF Gone, NoJobOf
<1>7. CASE WaitCheck(t)
  <2>1. /\ phase[t] = "checking" /\ outstanding_tasks[t] # 0
        /\ phase'[t] = "blocking" /\ mutex'[t] = mutex[t]
    BY <1>2, <1>7 DEF WaitCheck, graphTaskVars
  <2>2. CallerHolds(t) /\ RootWaits(t) /\ ~ has_error[t]
    BY <2>1 DEF CallerInv, CallerHolds, Gone
  <2>3. CallerHolds(t)' BY <1>1, <1>3, <1>5, <2>1, <2>2 DEF CallerHolds
  <2> QED BY <1>0, <1>1, <1>3, <1>4, <2>1, <2>2, <2>3, CallLife DEF CallerHolds
<1>8. CASE WaitBlock(t)
  <2>1. phase[t] = "blocking" /\ phase'[t] = "waiting"
    BY <1>2, <1>8 DEF WaitBlock
  <2>2. CallerHolds(t) BY <2>1 DEF CallerInv
  <2> QED BY <1>0, <1>1, <1>3, <1>4, <2>1, <2>2, CallLife DEF CallerHolds
<1>9. CASE WaitReacquire(t)
  <2>1. phase[t] = "woken" /\ phase'[t] = "checking" /\ mutex'[t]
    BY <1>2, <1>9 DEF WaitReacquire
  <2>2. Gone(t) BY <2>1 DEF CallerInv
  <2>3. CallerHolds(t)'
    BY <1>3, <1>6, <2>1, <2>2 DEF CallerHolds, Gone, NoJobOf
  <2> QED BY <1>0, <1>1, <1>3, <1>4, <2>1, <2>3, CallLife
<1>10. CASE ExecuteReturn(t)
  <2>1. /\ phase[t] = "checking" /\ phase'[t] = "returned"
        /\ outstanding_tasks[t] = 0
    BY <1>2, <1>10 DEF ExecuteReturn, EndTask
  <2>2. ~ RootWaits(t)
    BY <1>0, <2>1, CounterZero DEF RootWaits, RootSteps, Handling
  <2>3. CallerHolds(t) /\ Gone(t) BY <2>1, <2>2 DEF CallerInv, CallerHolds
  <2> QED BY <1>0, <1>1, <1>3, <1>4, <1>6, <2>1, <2>3, CallLife DEF CallerHolds
<1>11. CASE SpuriousWakeup(t) BY <1>11 DEF SpuriousWakeup
<1> QED BY <1>7, <1>8, <1>9, <1>10, <1>11
-----------------------------------------------------------------------------
(***************************************************************************)
(* No GraphTask is touched after its death.                                *)
(***************************************************************************)
LEMMA LifeInit == Init => LifeInv
<1> SUFFICES ASSUME Init PROVE LifeInv OBVIOUS
<1>1. \A j : j \notin Jobs
  <2>1. \A w \in Workers : /\ Len(stack[w]) = 1 /\ stack[w][1].pc = "loop"
    BY DEF Init, EmptyFrame
  <2>2. \A k \in 1 .. 1 : k = 1 OBVIOUS
  <2> QED BY <2>1, <2>2, JobPlaces DEF Busy, Handling
<1>2. OwnedInv /\ CallerInv /\ ~ dangling BY DEF Init, OwnedInv, CallerInv
<1> QED BY <1>1, <1>2 DEF LifeInv, MutexInv, TellInv

LEMMA LifeStep ==
  ASSUME NoReentry, NonemptyRoots, Spurious = FALSE, PassInv, LifeInv, [Next]_vars
  PROVE  LifeInv'
<1>0. EngineInv /\ TypeInv /\ LoopInv BY DEF PassInv, EngineInv
<1>1. ASSUME NEW t \in Tasks, CallerStep(t) PROVE LifeInv'
  BY <1>1, ExecuteLife, WaitLife DEF CallerStep
<1>2. ASSUME NEW w \in Workers, WorkerStep(w) PROVE LifeInv'
  <2>1. Top(w).loop = NoTask /\ Top(w) \in Frame /\ FrameOK(Top(w))
    BY <1>0, NoLoops, TopOK DEF LifeInv
  <2>2. ~ LoopExit(w) BY <2>1 DEF LoopExit
  <2>3. ~ SetOwner(w) BY <2>1, NamesAssumption DEF SetOwner, At, FrameOK
  <2>4. \A t \in Tasks : ~ Reenter(w, t)
    BY <2>1, NamesAssumption DEF Reenter, At, FrameOK, HasFunction, NoReentry
  <2>5. CASE LoopContinue(w)
    <3>1. JobsStay BY <1>0, <2>5, LoopContinueJobs
    <3>2. UNCHANGED <<ready, phase, mutex, outstanding_tasks, has_error, owner,
                      dangling>>
      BY <2>5 DEF LoopContinue, callVars, graphTaskVars, history
    <3> QED BY <3>1, <3>2 DEF LifeInv, OwnedInv, MutexInv, TellInv, CallerInv,
               CallerHolds, RootWaits, Gone, NoJobOf, JobsStay
  <2>6. CASE PushDummy(w)
    <3>1. Here(w) \in Jobs /\ job[Here(w)].pc = "dummy"
      BY <1>0, <2>6, PushDummyJobs DEF Finishes, Now
    <3> QED BY <1>0, <3>1, NoOwners DEF LifeInv
  <2> QED
    BY <1>2, <2>2, <2>3, <2>4, <2>5, <2>6, PopLife, CaptureLife,
       CallFunctionLife, ApplyReturnLife, ApplyThrowLife, LockGraphTaskLife,
       PropagateInvalidLife, PropagateLife, OnExceptionLife, ReadOwnerLife,
       DecrementLife, NotifyLife
       DEF WorkerStep
<1>3. CASE UNCHANGED vars
  <2>1. UNCHANGED <<ready, stack, phase, mutex, outstanding_tasks, has_error,
                    owner, dangling>>
    BY <1>3 DEF vars, callVars, graphTaskVars, history
  <2>2. JobsStay BY <2>1, SameStack
  <2> QED BY <2>1, <2>2 DEF LifeInv, OwnedInv, MutexInv, TellInv, CallerInv,
             CallerHolds, RootWaits, Gone, NoJobOf, JobsStay
<1> QED BY <1>1, <1>2, <1>3 DEF Next

(***************************************************************************)
(* No worker reads or writes a GraphTask whose execute() has returned, in  *)
(* any graph, on any number of devices and for any number of concurrent    *)
(* calls with any errors: if no function calls execute(), every call has a *)
(* root and condition_variable::wait does not wake up by itself.  Each of  *)
(* the three is needed: the last use of the GraphTask comes after the      *)
(* counter has reached 0, and only a sleeping caller is sure to be late.   *)
(***************************************************************************)
THEOREM NoDanglingAccess ==
  ASSUME NoReentry, NonemptyRoots, Spurious = FALSE
  PROVE  Spec => []NoDangling
<1>1. Init => LifeInv BY LifeInit
<1>2. PassInv /\ LifeInv /\ [Next]_vars => LifeInv' BY LifeStep
<1>3. LifeInv => NoDangling BY DEF LifeInv, NoDangling
<1>4. Spec => []PassInv BY PassInvariant
<1> QED BY <1>1, <1>2, <1>3, <1>4, PTL DEF Spec

-----------------------------------------------------------------------------
(***************************************************************************)
(* Steps that change the innermost thread_main() only.                     *)
(***************************************************************************)
LEMMA TopSet ==
  ASSUME TypeInv, NEW w \in Workers, NEW fr, SetTop(w, fr)
  PROVE  /\ Len(stack'[w]) = Len(stack[w]) /\ stack'[w][Len(stack[w])] = fr
         /\ Top(w)' = fr
         /\ \A k \in 1 .. Len(stack[w]) :
              k # Len(stack[w]) => stack'[w][k] = stack[w][k]
         /\ \A v \in Workers : v # w => stack'[v] = stack[v] /\ Top(v)' = Top(v)
<1> DEFINE n == Len(stack[w])
           s2 == [stack[w] EXCEPT ![n] = fr]
<1>1. stack[w] \in Seq(Frame) /\ n \in Nat \ {0} /\ n \in 1 .. n
      /\ stack \in [Workers -> Seq(Frame)]
  BY TopOK DEF TypeInv, TypeOK
<1>2. stack'[w] = s2 /\ \A v \in Workers : v # w => stack'[v] = stack[v]
  BY <1>1 DEF SetTop
<1>3. Len(s2) = n /\ s2[n] = fr /\ \A k \in 1 .. n : k # n => s2[k] = stack[w][k]
  BY <1>1
<1> HIDE DEF s2
<1> QED BY <1>2, <1>3 DEF Top

(* The steps of a worker outside of call_function() and its preparation. *)
IdleStep(w) ==
  \/ LoopContinue(w) \/ SetOwner(w) \/ LockGraphTask(w) \/ PropagateInvalid(w)
  \/ Propagate(w) \/ OnException(w) \/ ReadOwner(w) \/ Decrement(w) \/ Notify(w)
  \/ PushDummy(w)

LEMMA IdleTop ==
  ASSUME TypeInv, NEW w \in Workers, IdleStep(w)
  PROVE  /\ ~ Inside(Top(w)) /\ UNCHANGED checkpoint_valid
         /\ \E fr : /\ SetTop(w, fr)
                    /\ fr.pc \notin {"capture", "call", "apply", "nested"}
<1>0. Top(w) \in Frame BY TopOK
<1>1. ~ Inside(Top(w))
  BY DEF IdleStep, Inside, LoopContinue, SetOwner, LockGraphTask,
     PropagateInvalid, Propagate, OnException, ReadOwner, Decrement, Notify,
     PushDummy, At
<1>2. UNCHANGED checkpoint_valid
  BY DEF IdleStep, LoopContinue, SetOwner, LockGraphTask, PropagateInvalid,
     Propagate, OnException, ReadOwner, Decrement, Notify, PushDummy, threadVars
<1>3. \A pc : [Top(w) EXCEPT !.pc = pc].pc = pc BY <1>0 DEF Frame
<1>4. EmptyFrame(Top(w).loop, "loop").pc = "loop" BY DEF EmptyFrame
<1>5. CASE LoopContinue(w) \/ SetOwner(w) \/ OnException(w)
  <2>1. PICK pc \in {"pop", "loop", "owner"} : SetTop(w, [Top(w) EXCEPT !.pc = pc])
    BY <1>5 DEF LoopContinue, SetOwner, OnException, Goto
  <2> QED BY <1>1, <1>2, <1>3, <2>1
<1>6. CASE LockGraphTask(w)
  <2>1. [Top(w) EXCEPT !.pc = "propagate", !.i = 1].pc = "propagate"
    BY <1>0 DEF Frame
  <2> QED BY <1>1, <1>2, <1>6, <2>1 DEF LockGraphTask
<1>7. CASE PropagateInvalid(w) \/ Propagate(w)
  <2>1. PICK ok : AdvanceOutput(w, ok)
    BY <1>7, Zenon DEF PropagateInvalid, Propagate
  <2>2. PICK pc2 : pc2 = IF ok THEN "owner" ELSE "except" OBVIOUS
  <2>3. At(w, "propagate") BY <1>7 DEF PropagateInvalid, Propagate
  <2>4. /\ [Top(w) EXCEPT !.i = @ + 1].pc = "propagate"
        /\ [Top(w) EXCEPT !.i = 1, !.pc = pc2].pc \in {"owner", "except"}
    BY <1>0, <2>2, <2>3 DEF Frame, At
  <2>5. \/ SetTop(w, [Top(w) EXCEPT !.i = @ + 1])
        \/ SetTop(w, [Top(w) EXCEPT !.i = 1, !.pc = pc2])
    BY <2>1, <2>2, Zenon DEF AdvanceOutput
  <2> QED BY <1>1, <1>2, <2>4, <2>5
<1>8. CASE ReadOwner(w)
  <2>1. [Top(w) EXCEPT !.pc = "decrement",
                       !.base_owner = owner[Top(w).base]].pc = "decrement"
    BY <1>0 DEF Frame
  <2> QED BY <1>1, <1>2, <1>8, <2>1 DEF ReadOwner
<1>9. CASE Decrement(w)
  <2> DEFINE pc == AfterDecrement(w, Top(w).base_owner,
                                  outstanding_tasks[Top(w).base] - 1)
  <2>1. \/ SetTop(w, EmptyFrame(Top(w).loop, "loop"))
        \/ SetTop(w, [Top(w) EXCEPT !.pc = pc])
    BY <1>9, Zenon DEF Decrement
  <2>2. pc \in {"loop", "notify", "dummy"} BY DEF AfterDecrement
  <2> HIDE DEF pc
  <2> QED BY <1>1, <1>2, <1>3, <1>4, <2>1, <2>2
<1>10. CASE Notify(w) \/ PushDummy(w)
  <2>1. SetTop(w, EmptyFrame(Top(w).loop, "loop")) BY <1>10 DEF Notify, PushDummy
  <2> QED BY <1>1, <1>2, <1>4, <2>1
<1> QED BY <1>5, <1>6, <1>7, <1>8, <1>9, <1>10 DEF IdleStep

LEMMA PopTop ==
  ASSUME TypeInv, NEW w \in Workers, Pop(w)
  PROVE  /\ ~ Inside(Top(w)) /\ UNCHANGED checkpoint_valid
         /\ \E fr : SetTop(w, fr) /\ fr.pc \in {"owner", "capture", "call"}
<1>1. PICK x \in HeapTop(w) :
        SetTop(w, [Top(w) EXCEPT !.base = x.base, !.fn = x.fn,
                                 !.inputs = x.inputs, !.pc = FirstStep(x)])
  BY DEF Pop
<1> DEFINE fr == [Top(w) EXCEPT !.base = x.base, !.fn = x.fn,
                                !.inputs = x.inputs, !.pc = FirstStep(x)]
<1>2. Top(w) \in Frame BY TopOK
<1>3. fr.pc = FirstStep(x) BY <1>2 DEF Frame
<1>4. FirstStep(x) \in {"owner", "capture", "call"} BY DEF FirstStep
<1>5. SetTop(w, fr) BY <1>1
<1> HIDE DEF fr
<1> QED BY <1>3, <1>4, <1>5 DEF Pop, Inside, At

LEMMA CaptureTop ==
  ASSUME TypeInv, NEW w \in Workers, Capture(w)
  PROVE  /\ ~ Inside(Top(w)) /\ UNCHANGED checkpoint_valid
         /\ Top(w).pc = "capture"
         /\ \E fr : /\ SetTop(w, fr) /\ fr.pc \in {"owner", "call"}
                    /\ fr.base = Top(w).base
<1>0. Top(w) \in Frame BY TopOK
<1>1. PICK pc \in {"call", "owner"} : SetTop(w, [Top(w) EXCEPT !.pc = pc])
  BY DEF Capture, Goto
<1>2. [Top(w) EXCEPT !.pc = pc].pc = pc
      /\ [Top(w) EXCEPT !.pc = pc].base = Top(w).base
  BY <1>0 DEF Frame
<1> QED BY <1>1, <1>2 DEF Capture, Inside, At, threadVars

LEMMA CallFunctionTop ==
  ASSUME TypeInv, NEW w \in Workers, CallFunction(w)
  PROVE  /\ ~ Inside(Top(w)) /\ Top(w).pc = "call"
         /\ checkpoint_valid' = [checkpoint_valid EXCEPT ![w] =
                                   ~ GradMode(Top(w).base) /\ @]
         /\ \E fr : /\ SetTop(w, fr) /\ fr.pc = "apply"
                    /\ fr.base = Top(w).base /\ fr.prev = checkpoint_valid[w]
<1> DEFINE fr == [Top(w) EXCEPT !.pc = "apply", !.inputs = {},
                                !.prev = checkpoint_valid[w]]
<1>0. Top(w) \in Frame BY TopOK
<1>1. fr.pc = "apply" /\ fr.base = Top(w).base /\ fr.prev = checkpoint_valid[w]
  BY <1>0 DEF Frame
<1>2. SetTop(w, fr) BY DEF CallFunction
<1> HIDE DEF fr
<1> QED BY <1>1, <1>2 DEF CallFunction, Inside, At

LEMMA ApplyReturnTop ==
  ASSUME TypeInv, NEW w \in Workers, ApplyReturn(w)
  PROVE  /\ Top(w).pc = "apply"
         /\ checkpoint_valid' = [checkpoint_valid EXCEPT ![w] = Top(w).prev]
         /\ \E fr : SetTop(w, fr) /\ fr.pc \in {"owner", "lock"}
<1>0. Top(w) \in Frame BY TopOK
<1>1. PICK pc \in {"lock", "owner"} : SetTop(w, [Top(w) EXCEPT !.pc = pc])
  BY DEF ApplyReturn, Goto
<1>2. [Top(w) EXCEPT !.pc = pc].pc = pc BY <1>0 DEF Frame
<1> QED BY <1>1, <1>2 DEF ApplyReturn, At

-----------------------------------------------------------------------------
(***************************************************************************)
(* Without functions that throw there are no errors, and the messages      *)
(* "dependency not found" and "could not compute gradients for some        *)
(* functions" do not make any.                                             *)
(***************************************************************************)
LEMMA NoErrorAdvance ==
  ASSUME TypeInv, NoErrorInv, NEW w \in Workers, NEW from, NEW new,
         Advances(w, from, new), new.pc # "except", UNCHANGED has_error
  PROVE  NoErrorInv'
BY AdvanceFacts DEF NoErrorInv

LEMMA NoThrow ==
  ASSUME MayThrow = {}, PassInv, NoErrorInv, NEW w \in Workers
  PROVE  ~ ApplyThrow(w) /\ ~ OnException(w)
<1>0. TypeInv /\ ResultInv BY DEF PassInv, EngineInv, FlowInv
<1>1. ~ ApplyThrow(w)
  <2>1. \A t \in Tasks : result[t] \in {"none", "ok"}
    BY <1>0 DEF ResultInv, NoErrorInv
  <2> QED BY <2>1 DEF ApplyThrow, CanThrow
<1>2. ASSUME OnException(w) PROVE FALSE
  <2>1. Advances(w, "except", [Now(w) EXCEPT !.pc = "owner"])
    BY <1>0, <1>2, OnExceptionJobs
  <2> QED BY <2>1 DEF Advances, Now, NoErrorInv
<1> QED BY <1>1, <1>2

LEMMA NoErrorPropagate ==
  ASSUME PassInv, NoErrorInv, NEW w \in Workers, Propagate(w)
  PROVE  NoErrorInv'
<1>0. EngineInv /\ FlowInv /\ TypeInv BY DEF PassInv, EngineInv
<1>1. PICK new, b, f, e, buffer : PropagateEffect(w, new, b, f, e, buffer)
  BY <1>0, PropagateJobs
<1>2. dependencies[b][f] \in Nat \ {0} BY <1>0, <1>1, SendEdge
<1>3. new.pc # "except" /\ Advances(w, "propagate", new) /\ UNCHANGED has_error
  BY <1>1, <1>2 DEF PropagateEffect, PropagateOK, OutputDone
<1> QED BY <1>0, <1>3, NoErrorAdvance

LEMMA NoErrorStep ==
  ASSUME MayThrow = {}, PassInv, NoErrorInv, [Next]_vars
  PROVE  NoErrorInv'
<1>0. TypeInv BY DEF PassInv, EngineInv
<1>1. ASSUME JobsStay, UNCHANGED has_error PROVE NoErrorInv'
  BY <1>1 DEF NoErrorInv, JobsStay
<1>2. ASSUME NEW t \in Tasks, CallerStep(t) PROVE NoErrorInv'
  <2>1. UNCHANGED <<stack, has_error>>
    BY <1>2 DEF CallerStep, Execute, WaitCheck, WaitBlock, WaitReacquire,
       ExecuteReturn, SpuriousWakeup, StartTask, graphTaskVars
  <2> QED BY <1>1, <2>1, SameStack
<1>3. ASSUME NEW w \in Workers, WorkerStep(w) PROVE NoErrorInv'
  <2>0. ~ ApplyThrow(w) /\ ~ OnException(w) BY NoThrow
  <2>1. UNCHANGED has_error
    BY <1>3, <2>0 DEF WorkerStep, LoopContinue, LoopExit, Pop, Capture,
       CallFunction, SetOwner, ApplyReturn, LockGraphTask, PropagateInvalid,
       Propagate, ReadOwner, Decrement, Notify, PushDummy, Reenter, StartTask,
       graphTaskVars
  <2>2. ASSUME NEW from, Finishes(w, from) PROVE NoErrorInv'
    BY <2>1, <2>2 DEF Finishes, JobEnds, NoErrorInv
  <2>3. CASE LoopContinue(w) \/ LoopExit(w) \/ SetOwner(w)
    BY <1>0, <1>1, <2>1, <2>3, LoopContinueJobs, LoopExitJobs, SetOwnerJobs
  <2>4. CASE \E t \in Tasks : Reenter(w, t)
    BY <1>0, <1>1, <2>1, <2>4, ReenterJobs
  <2>5. CASE Pop(w)
    <3>1. PICK x, new : JobMoves(w, new) /\ new.pc = FirstStep(x)
      BY <1>0, <2>5, PopJobs
    <3>2. FirstStep(x) # "except" BY DEF FirstStep
    <3> QED BY <2>1, <3>1, <3>2 DEF JobMoves, NoErrorInv
  <2>6. CASE Capture(w)
    <3> DEFINE new == [Now(w) EXCEPT !.pc = IF Now(w).fn \in Needed[Now(w).base]
                                            THEN "call" ELSE "owner"]
    <3>1. Advances(w, "capture", new) BY <1>0, <2>6, CaptureJobs
    <3>2. Now(w) \in JobRecord BY <3>1 DEF Advances, JobOK
    <3>3. new.pc # "except" BY <3>2 DEF JobRecord
    <3> HIDE DEF new
    <3> QED BY <1>0, <2>1, <3>1, <3>3, NoErrorAdvance
  <2>7. CASE CallFunction(w)
    <3> DEFINE new == [base |-> Now(w).base, fn |-> Now(w).fn, inputs |-> {},
                       i |-> Now(w).i, base_owner |-> Now(w).base_owner,
                       pc |-> "apply"]
    <3>1. Advances(w, "call", new) /\ new.pc # "except"
      BY <1>0, <2>7, CallFunctionJobs
    <3> HIDE DEF new
    <3> QED BY <1>0, <2>1, <3>1, NoErrorAdvance
  <2>8. CASE ApplyReturn(w)
    <3> DEFINE new == [Now(w) EXCEPT !.pc = IF NextOf[Now(w).base][Now(w).fn] = <<>>
                                            THEN "owner" ELSE "lock"]
    <3>1. Advances(w, "apply", new) BY <1>0, <2>8, ApplyReturnJobs
    <3>2. Now(w) \in JobRecord BY <3>1 DEF Advances, JobOK
    <3>3. new.pc # "except" BY <3>2 DEF JobRecord
    <3> HIDE DEF new
    <3> QED BY <1>0, <2>1, <3>1, <3>3, NoErrorAdvance
  <2>9. CASE LockGraphTask(w)
    <3> DEFINE new == [base |-> Now(w).base, fn |-> Now(w).fn,
                       inputs |-> Now(w).inputs, i |-> 1,
                       base_owner |-> Now(w).base_owner, pc |-> "propagate"]
    <3>1. Advances(w, "lock", new) /\ new.pc # "except"
      BY <1>0, <2>9, LockGraphTaskJobs
    <3> HIDE DEF new
    <3> QED BY <1>0, <2>1, <3>1, NoErrorAdvance
  <2>10. CASE PropagateInvalid(w)
    <3>0. At(w, "propagate") /\ AdvanceOutput(w, TRUE)
      BY <2>10 DEF PropagateInvalid
    <3> DEFINE last == Now(w).i = Len(NextOf[Now(w).base][Now(w).fn])
               a == [Now(w) EXCEPT !.i = Now(w).i + 1]
               c == [base |-> Now(w).base, fn |-> Now(w).fn,
                     inputs |-> Now(w).inputs, i |-> 1,
                     base_owner |-> Now(w).base_owner, pc |-> "owner"]
    <3>1. /\ ~ last => Advances(w, "propagate", a)
          /\ last => Advances(w, "propagate", c)
      BY <1>0, <3>0, AdvanceOutputJobs
    <3>2. Now(w) \in JobRecord /\ Now(w).pc = "propagate"
      BY <3>1 DEF Advances, JobOK
    <3>3. a.pc # "except" /\ c.pc # "except" BY <3>2 DEF JobRecord
    <3> HIDE DEF a, c, last
    <3> QED BY <1>0, <2>1, <3>1, <3>3, NoErrorAdvance
  <2>11. CASE ReadOwner(w)
    <3> DEFINE new == [base |-> Now(w).base, fn |-> Now(w).fn,
                       inputs |-> Now(w).inputs, i |-> Now(w).i,
                       base_owner |-> owner[Now(w).base], pc |-> "decrement"]
    <3>1. Advances(w, "owner", new) /\ new.pc # "except"
      BY <1>0, <2>11, ReadOwnerJobs
    <3> HIDE DEF new
    <3> QED BY <1>0, <2>1, <3>1, NoErrorAdvance
  <2>12. CASE Decrement(w)
    <3> DEFINE pc == AfterDecrement(w, Now(w).base_owner,
                                    outstanding_tasks[Now(w).base] - 1)
               new == [Now(w) EXCEPT !.pc = pc]
    <3>1. /\ pc \in {"loop", "notify", "dummy"}
          /\ pc = "loop" => Finishes(w, "decrement")
          /\ pc # "loop" => Advances(w, "decrement", new)
      BY <1>0, <2>12, DecrementJobs
    <3>2. Now(w) \in JobRecord BY <3>1 DEF Advances, Finishes, JobOK
    <3>3. new.pc = pc BY <3>2 DEF JobRecord
    <3> HIDE DEF pc, new
    <3> QED BY <1>0, <2>1, <2>2, <3>1, <3>3, NoErrorAdvance
  <2>13. CASE Notify(w) BY <1>0, <2>2, <2>13, NotifyJobs
  <2>14. CASE PushDummy(w) BY <1>0, <2>2, <2>14, PushDummyJobs
  <2> QED
    BY <1>3, <2>0, <2>3, <2>4, <2>5, <2>6, <2>7, <2>8, <2>9, <2>10, <2>11,
       <2>12, <2>13, <2>14, NoErrorPropagate
       DEF WorkerStep
<1>4. CASE UNCHANGED vars
  <2>1. UNCHANGED <<stack, has_error>> BY <1>4 DEF vars, graphTaskVars
  <2> QED BY <1>1, <2>1, SameStack
<1> QED BY <1>2, <1>3, <1>4 DEF Next

-----------------------------------------------------------------------------
(***************************************************************************)
(* checkpoint_valid, one stack of thread_main() calls at a time.           *)
(***************************************************************************)
LEMMA SameImperative ==
  ASSUME NEW s, NEW s2, NEW n \in Int,
         \A k \in 1 .. n : /\ Inside(s2[k]) <=> Inside(s[k])
                           /\ Inside(s[k]) => s2[k].base = s[k].base
  PROVE  (Imperative(s2, n) <=> Imperative(s, n))
BY DEF Imperative

(* The last place does not count if its function is not running. *)
LEMMA ImperativeTop ==
  ASSUME NEW s, NEW n \in Nat \ {0}
  PROVE  Imperative(s, n) <=>
           (Imperative(s, n - 1) /\ (Inside(s[n]) => ~ GradMode(s[n].base)))
<1>1. 1 .. n = (1 .. (n - 1)) \cup {n} OBVIOUS
<1> QED BY <1>1 DEF Imperative

(* Below place n nothing changes. *)
LEMMA PrefixOK ==
  ASSUME NEW s, NEW s2, NEW n \in Nat, Len(s) \in Nat, n <= Len(s),
         \A k \in 1 .. Len(s) : Inside(s[k]) => (s[k].prev <=> Imperative(s, k - 1)),
         \A k \in 1 .. n : /\ Inside(s2[k]) <=> Inside(s[k])
                           /\ Inside(s[k]) => /\ s2[k].base = s[k].base
                                              /\ (s2[k].prev <=> s[k].prev)
  PROVE  /\ (Imperative(s2, n) <=> Imperative(s, n))
         /\ \A k \in 1 .. n :
              Inside(s2[k]) => (s2[k].prev <=> Imperative(s2, k - 1))
<1>1. (Imperative(s2, n) <=> Imperative(s, n)) BY SameImperative
<1>2. ASSUME NEW k \in 1 .. n, Inside(s2[k])
      PROVE  (s2[k].prev <=> Imperative(s2, k - 1))
  <2>1. k \in 1 .. Len(s) /\ k - 1 \in Int /\ \A m \in 1 .. (k - 1) : m \in 1 .. n
    OBVIOUS
  <2>2. (Imperative(s2, k - 1) <=> Imperative(s, k - 1)) BY <2>1, SameImperative
  <2>3. (s2[k].prev <=> s[k].prev) /\ (s[k].prev <=> Imperative(s, k - 1))
    BY <1>2, <2>1
  <2> QED BY <2>2, <2>3
<1> QED BY <1>1, <1>2

(* The innermost thread_main() goes on; its function is called or returns. *)
LEMMA TopCheckpoint ==
  ASSUME NEW s, NEW s2, NEW valid, NEW valid2, CheckpointOK(s, valid),
         Len(s) \in Nat \ {0}, Len(s2) = Len(s),
         \A k \in 1 .. Len(s) : k # Len(s) => s2[k] = s[k],
         \/ ~ Inside(s[Len(s)]) /\ ~ Inside(s2[Len(s)]) /\ (valid2 <=> valid)
         \/ /\ ~ Inside(s[Len(s)]) /\ (s2[Len(s)].prev <=> valid)
            /\ Inside(s2[Len(s)])
            /\ (valid2 <=> ~ GradMode(s2[Len(s)].base) /\ valid)
         \/ /\ Inside(s[Len(s)]) /\ ~ Inside(s2[Len(s)])
            /\ (valid2 <=> s[Len(s)].prev)
  PROVE  CheckpointOK(s2, valid2)
<1>1. PICK n : n = Len(s) OBVIOUS
<1>2. /\ n \in Nat \ {0} /\ n - 1 \in Nat /\ n - 1 <= Len(s) /\ n \in 1 .. n
      /\ \A k \in 1 .. (n - 1) : k \in 1 .. n /\ k # n
      /\ \A k \in 1 .. n : k # n => k \in 1 .. (n - 1)
  BY <1>1
<1>3. /\ (valid <=> Imperative(s, n))
      /\ \A k \in 1 .. Len(s) : Inside(s[k]) => (s[k].prev <=> Imperative(s, k - 1))
  BY <1>1 DEF CheckpointOK
<1>4. \A k \in 1 .. (n - 1) :
        /\ s2[k] = s[k] /\ (Inside(s2[k]) <=> Inside(s[k]))
        /\ Inside(s[k]) => s2[k].base = s[k].base /\ (s2[k].prev <=> s[k].prev)
  BY <1>1, <1>2
<1>5. /\ (Imperative(s2, n - 1) <=> Imperative(s, n - 1))
      /\ \A k \in 1 .. (n - 1) :
           Inside(s2[k]) => (s2[k].prev <=> Imperative(s2, k - 1))
  BY <1>1, <1>2, <1>3, <1>4, PrefixOK
<1>6. /\ Imperative(s, n) <=>
           (Imperative(s, n - 1) /\ (Inside(s[n]) => ~ GradMode(s[n].base)))
      /\ Imperative(s2, n) <=>
           (Imperative(s2, n - 1) /\ (Inside(s2[n]) => ~ GradMode(s2[n].base)))
  BY <1>2, ImperativeTop
<1>7. Inside(s[n]) => (s[n].prev <=> Imperative(s, n - 1)) BY <1>1, <1>2, <1>3
<1>9. CASE ~ Inside(s[n]) /\ ~ Inside(s2[n]) /\ (valid2 <=> valid)
  <2>1. (valid2 <=> Imperative(s2, n)) BY <1>3, <1>5, <1>6, <1>9
  <2> QED BY <1>1, <1>2, <1>5, <1>9, <2>1 DEF CheckpointOK
<1>10. CASE /\ ~ Inside(s[n]) /\ (s2[n].prev <=> valid) /\ Inside(s2[n])
            /\ (valid2 <=> ~ GradMode(s2[n].base) /\ valid)
  <2>1. (valid <=> Imperative(s2, n - 1)) BY <1>3, <1>5, <1>6, <1>10
  <2>2. (valid2 <=> Imperative(s2, n)) BY <1>6, <1>10, <2>1
  <2> QED BY <1>1, <1>2, <1>5, <1>10, <2>1, <2>2 DEF CheckpointOK
<1>11. CASE Inside(s[n]) /\ ~ Inside(s2[n]) /\ (valid2 <=> s[n].prev)
  <2>1. (valid2 <=> Imperative(s2, n)) BY <1>5, <1>6, <1>7, <1>11
  <2> QED BY <1>1, <1>2, <1>5, <1>11, <2>1 DEF CheckpointOK
<1> QED BY <1>1, <1>9, <1>10, <1>11

(* A function that is inside stays so while it makes a call of execute(). *)
LEMMA NestedCheckpoint ==
  ASSUME NEW s, NEW s2, NEW valid, NEW n \in Nat, CheckpointOK(s, valid),
         Len(s) \in Nat, Len(s2) \in Nat, n <= Len(s), n <= Len(s2),
         Len(s) <= n + 1, Len(s2) <= n + 1,
         Len(s) = n + 1 => ~ Inside(s[n + 1]),
         Len(s2) = n + 1 => ~ Inside(s2[n + 1]),
         \A k \in 1 .. n : /\ Inside(s2[k]) <=> Inside(s[k])
                           /\ Inside(s[k]) => /\ s2[k].base = s[k].base
                                              /\ (s2[k].prev <=> s[k].prev)
  PROVE  CheckpointOK(s2, valid)
<1>1. /\ (Imperative(s2, n) <=> Imperative(s, n))
      /\ \A k \in 1 .. n : Inside(s2[k]) => (s2[k].prev <=> Imperative(s2, k - 1))
  BY PrefixOK DEF CheckpointOK
<1>2. n + 1 \in Nat \ {0} /\ (n + 1) - 1 = n OBVIOUS
<1>3. Len(s) = n + 1 => (Imperative(s, n + 1) <=> Imperative(s, n))
  BY <1>2, ImperativeTop
<1>4. Len(s2) = n + 1 => (Imperative(s2, n + 1) <=> Imperative(s2, n))
  BY <1>2, ImperativeTop
<1>5. (Imperative(s, Len(s)) <=> Imperative(s, n))
  <2>1. Len(s) = n \/ Len(s) = n + 1 OBVIOUS
  <2> QED BY <1>3, <2>1
<1>6. (Imperative(s2, Len(s2)) <=> Imperative(s2, n))
  <2>1. Len(s2) = n \/ Len(s2) = n + 1 OBVIOUS
  <2> QED BY <1>4, <2>1
<1>7. \A k \in 1 .. Len(s2) : Inside(s2[k]) => k \in 1 .. n
  <2> SUFFICES ASSUME NEW k \in 1 .. Len(s2), Inside(s2[k]) PROVE k \in 1 .. n
    OBVIOUS
  <2>1. k \in 1 .. n \/ (k = n + 1 /\ Len(s2) = n + 1) OBVIOUS
  <2> QED BY <2>1
<1> QED BY <1>1, <1>5, <1>6, <1>7 DEF CheckpointOK

LEMMA SetTopCheckpoint ==
  ASSUME TypeInv, CheckpointInv, NEW w \in Workers, NEW fr, SetTop(w, fr),
         \A v \in Workers : v # w => checkpoint_valid'[v] = checkpoint_valid[v],
         \/ /\ ~ Inside(Top(w)) /\ ~ Inside(fr)
            /\ checkpoint_valid'[w] <=> checkpoint_valid[w]
         \/ /\ ~ Inside(Top(w)) /\ (fr.prev <=> checkpoint_valid[w])
            /\ Inside(fr)
            /\ checkpoint_valid'[w] <=> ~ GradMode(fr.base) /\ checkpoint_valid[w]
         \/ /\ Inside(Top(w)) /\ ~ Inside(fr)
            /\ checkpoint_valid'[w] <=> Top(w).prev
  PROVE  CheckpointInv'
<1>1. PICK s, s2, valid, valid2 :
        /\ s = stack[w] /\ s2 = stack'[w]
        /\ valid = checkpoint_valid[w] /\ valid2 = checkpoint_valid'[w]
  OBVIOUS
<1>2. Len(s) \in Nat \ {0} /\ s[Len(s)] = Top(w) BY <1>1, TopOK DEF Top
<1>3. /\ Len(s2) = Len(s) /\ s2[Len(s)] = fr
      /\ \A k \in 1 .. Len(s) : k # Len(s) => s2[k] = s[k]
      /\ \A v \in Workers : v # w => stack'[v] = stack[v]
  BY <1>1, TopSet
<1>4. CheckpointOK(s, valid) BY <1>1 DEF CheckpointInv
<1>5. \/ ~ Inside(s[Len(s)]) /\ ~ Inside(s2[Len(s)]) /\ (valid2 <=> valid)
      \/ /\ ~ Inside(s[Len(s)]) /\ (s2[Len(s)].prev <=> valid)
         /\ Inside(s2[Len(s)])
         /\ (valid2 <=> ~ GradMode(s2[Len(s)].base) /\ valid)
      \/ /\ Inside(s[Len(s)]) /\ ~ Inside(s2[Len(s)])
         /\ (valid2 <=> s[Len(s)].prev)
  BY <1>1, <1>2, <1>3
<1>6. CheckpointOK(s2, valid2) BY <1>2, <1>3, <1>4, <1>5, TopCheckpoint
<1>7. \A v \in Workers : v # w => CheckpointOK(stack'[v], checkpoint_valid'[v])
  BY <1>3 DEF CheckpointInv
<1>8. \A v \in Workers : CheckpointOK(stack'[v], checkpoint_valid'[v])
  BY <1>1, <1>6, <1>7
<1> QED BY <1>8 DEF CheckpointInv, CheckpointOK, Imperative, Inside, GradMode

(* A reentrant call begins and ends inside the function that makes it. *)
LEMMA ReenterCheckpoint ==
  ASSUME TypeInv, CheckpointInv, NEW w \in Workers, NEW t \in Tasks, Reenter(w, t)
  PROVE  CheckpointInv'
<1>1. PICK s, n, valid :
        s = stack[w] /\ n = Len(stack[w]) /\ valid = checkpoint_valid[w]
  OBVIOUS
<1>2. /\ s \in Seq(Frame) /\ n \in Nat \ {0} /\ n \in 1 .. n /\ s[n] \in Frame
      /\ stack \in [Workers -> Seq(Frame)] /\ s[n].pc = "apply" /\ Len(s) = n
  BY <1>1, TopOK DEF TypeInv, TypeOK, Top, Reenter, At
<1> DEFINE nested == [s[n] EXCEPT !.pc = "nested"]
           s1 == [s EXCEPT ![n] = nested]
           e == EmptyFrame(t, "setowner")
           s2 == Append(s1, e)
<1>3. /\ nested \in Frame /\ nested.base = s[n].base /\ nested.prev = s[n].prev
      /\ nested.pc = "nested"
  BY <1>2 DEF Frame, PCs
<1>4. e \in Frame /\ e.pc = "setowner" BY EmptyFrameOK DEF EmptyFrame
<1>5. stack' = [stack EXCEPT ![w] = s2] BY <1>1 DEF Reenter
<1> HIDE DEF nested, e
<1>6. /\ s1 \in Seq(Frame) /\ Len(s1) = n
      /\ \A k \in 1 .. n : s1[k] = IF k = n THEN nested ELSE s[k]
  BY <1>2, <1>3
<1> HIDE DEF s1
<1>7. /\ Len(s2) = n + 1 /\ s2[n + 1] = e /\ \A k \in 1 .. n : s2[k] = s1[k]
  BY <1>2, <1>4, <1>6
<1>8. stack'[w] = s2 /\ \A v \in Workers : v # w => stack'[v] = stack[v]
  BY <1>2, <1>5
<1> HIDE DEF s2
<1>9. \A k \in 1 .. n : /\ Inside(s2[k]) <=> Inside(s[k])
                        /\ s2[k].base = s[k].base /\ (s2[k].prev <=> s[k].prev)
  BY <1>2, <1>3, <1>6, <1>7 DEF Inside
<1>10. ~ Inside(s2[n + 1]) BY <1>4, <1>7 DEF Inside
<1>11. CheckpointOK(s, valid) BY <1>1 DEF CheckpointInv
<1>12. CheckpointOK(s2, valid)
  <2>1. /\ n \in Nat /\ Len(s) \in Nat /\ Len(s2) \in Nat
        /\ n <= Len(s) /\ n <= Len(s2) /\ Len(s) <= n + 1 /\ Len(s2) <= n + 1
        /\ Len(s) # n + 1
    BY <1>2, <1>7
  <2> QED BY <1>9, <1>10, <1>11, <2>1, NestedCheckpoint
<1>13. UNCHANGED checkpoint_valid BY DEF Reenter, StartTask, threadVars
<1>14. \A v \in Workers : CheckpointOK(stack'[v], checkpoint_valid'[v])
  BY <1>1, <1>8, <1>12, <1>13 DEF CheckpointInv
<1> QED BY <1>14 DEF CheckpointInv, CheckpointOK, Imperative, Inside, GradMode

LEMMA LoopExitCheckpoint ==
  ASSUME TypeInv, CheckpointInv, NEW w \in Workers, LoopExit(w)
  PROVE  CheckpointInv'
<1>1. PICK s, n, valid :
        s = stack[w] /\ n = Len(stack[w]) - 1 /\ valid = checkpoint_valid[w]
  OBVIOUS
<1>2. /\ s \in Seq(Frame) /\ Len(s) \in Nat \ {0} /\ s[1].loop = NoTask
      /\ s[Len(s)].loop # NoTask /\ s[Len(s)].pc = "loop"
      /\ \A k \in 1 .. (Len(s) - 1) : s[k].pc = "nested"
      /\ stack \in [Workers -> Seq(Frame)]
  BY <1>1, TopOK DEF TypeInv, TypeOK, StackOK, LoopExit, At, Top
<1>3. n \in Nat \ {0} /\ Len(s) = n + 1 /\ n \in 1 .. n /\ n \in 1 .. Len(s)
  BY <1>1, <1>2
<1> DEFINE cut == SubSeq(s, 1, n)
           fr == [cut[n] EXCEPT !.pc = "apply"]
           s2 == [cut EXCEPT ![n] = fr]
<1>4. cut \in Seq(Frame) /\ Len(cut) = n /\ \A k \in 1 .. n : cut[k] = s[k]
  BY <1>2, <1>3
<1>5. stack' = [stack EXCEPT ![w] = s2] BY <1>1, Zenon DEF LoopExit
<1> HIDE DEF cut
<1>6. cut[n] = s[n] /\ s[n] \in Frame /\ s[n].pc = "nested"
  BY <1>2, <1>3, <1>4
<1>7. fr.base = s[n].base /\ fr.prev = s[n].prev /\ fr.pc = "apply"
  BY <1>6 DEF Frame
<1> HIDE DEF fr
<1>8. Len(s2) = n /\ \A k \in 1 .. n : s2[k] = IF k = n THEN fr ELSE s[k]
  BY <1>3, <1>4
<1>9. stack'[w] = s2 /\ \A v \in Workers : v # w => stack'[v] = stack[v]
  BY <1>2, <1>5
<1> HIDE DEF s2
<1>10. \A k \in 1 .. n : /\ Inside(s2[k]) <=> Inside(s[k])
                         /\ s2[k].base = s[k].base /\ (s2[k].prev <=> s[k].prev)
  BY <1>6, <1>7, <1>8 DEF Inside
<1>11. ~ Inside(s[n + 1]) BY <1>2, <1>3 DEF Inside
<1>12. CheckpointOK(s, valid) BY <1>1 DEF CheckpointInv
<1>13. CheckpointOK(s2, valid)
  <2>1. /\ n \in Nat /\ Len(s) \in Nat /\ Len(s2) \in Nat
        /\ n <= Len(s) /\ n <= Len(s2) /\ Len(s) <= n + 1 /\ Len(s2) <= n + 1
        /\ Len(s2) # n + 1
    BY <1>3, <1>8
  <2> QED BY <1>10, <1>11, <1>12, <2>1, NestedCheckpoint
<1>14. UNCHANGED checkpoint_valid BY DEF LoopExit, threadVars
<1>15. \A v \in Workers : CheckpointOK(stack'[v], checkpoint_valid'[v])
  BY <1>1, <1>9, <1>13, <1>14 DEF CheckpointInv
<1> QED BY <1>15 DEF CheckpointInv, CheckpointOK, Imperative, Inside, GradMode

LEMMA CheckpointStep ==
  ASSUME MayThrow = {}, PassInv, NoErrorInv, CheckpointInv, [Next]_vars
  PROVE  CheckpointInv'
<1>0. TypeInv /\ checkpoint_valid \in [Workers -> BOOLEAN]
  BY DEF PassInv, EngineInv, TypeInv, TypeOK
<1>1. ASSUME UNCHANGED <<stack, checkpoint_valid>> PROVE CheckpointInv'
  BY <1>1 DEF CheckpointInv, CheckpointOK, Imperative, Inside, GradMode
<1>2. ASSUME NEW t \in Tasks, CallerStep(t) PROVE CheckpointInv'
  <2>1. UNCHANGED <<stack, checkpoint_valid>>
    BY <1>2 DEF CallerStep, Execute, WaitCheck, WaitBlock, WaitReacquire,
       ExecuteReturn, SpuriousWakeup, StartTask, threadVars
  <2> QED BY <1>1, <2>1
<1>3. ASSUME NEW w \in Workers, WorkerStep(w) PROVE CheckpointInv'
  <2>0. ~ ApplyThrow(w) BY NoThrow
  <2>1. CASE IdleStep(w)
    <3>1. PICK fr : SetTop(w, fr) /\ ~ Inside(fr)
      BY <1>0, <2>1, IdleTop DEF Inside
    <3>2. ~ Inside(Top(w)) /\ UNCHANGED checkpoint_valid
      BY <1>0, <2>1, IdleTop
    <3> QED BY <1>0, <3>1, <3>2, SetTopCheckpoint
  <2>2. CASE Pop(w)
    <3>1. PICK fr : SetTop(w, fr) /\ ~ Inside(fr)
      BY <1>0, <2>2, PopTop DEF Inside
    <3>2. ~ Inside(Top(w)) /\ UNCHANGED checkpoint_valid
      BY <1>0, <2>2, PopTop
    <3> QED BY <1>0, <3>1, <3>2, SetTopCheckpoint
  <2>3. CASE Capture(w)
    <3>1. PICK fr : SetTop(w, fr) /\ ~ Inside(fr)
      BY <1>0, <2>3, CaptureTop DEF Inside
    <3>2. ~ Inside(Top(w)) /\ UNCHANGED checkpoint_valid
      BY <1>0, <2>3, CaptureTop
    <3> QED BY <1>0, <3>1, <3>2, SetTopCheckpoint
  <2>4. CASE CallFunction(w)
    <3>1. PICK fr : /\ SetTop(w, fr) /\ fr.pc = "apply"
                    /\ fr.base = Top(w).base /\ fr.prev = checkpoint_valid[w]
      BY <1>0, <2>4, CallFunctionTop
    <3>2. /\ ~ Inside(Top(w)) /\ Inside(fr)
          /\ checkpoint_valid' = [checkpoint_valid EXCEPT ![w] =
                                    ~ GradMode(Top(w).base) /\ @]
      BY <1>0, <2>4, <3>1, CallFunctionTop DEF Inside
    <3>3. /\ checkpoint_valid'[w] <=> ~ GradMode(fr.base) /\ checkpoint_valid[w]
          /\ \A v \in Workers : v # w => checkpoint_valid'[v] = checkpoint_valid[v]
      BY <1>0, <3>1, <3>2
    <3> QED BY <1>0, <3>1, <3>2, <3>3, SetTopCheckpoint
  <2>5. CASE ApplyReturn(w)
    <3>1. PICK fr : SetTop(w, fr) /\ ~ Inside(fr)
      BY <1>0, <2>5, ApplyReturnTop DEF Inside
    <3>2. /\ Inside(Top(w))
          /\ checkpoint_valid' = [checkpoint_valid EXCEPT ![w] = Top(w).prev]
      BY <1>0, <2>5, ApplyReturnTop DEF Inside
    <3>3. /\ checkpoint_valid'[w] <=> Top(w).prev
          /\ \A v \in Workers : v # w => checkpoint_valid'[v] = checkpoint_valid[v]
      BY <1>0, <3>2
    <3> QED BY <1>0, <3>1, <3>2, <3>3, SetTopCheckpoint
  <2> QED BY <1>0, <1>3, <2>0, <2>1, <2>2, <2>3, <2>4, <2>5, ReenterCheckpoint,
             LoopExitCheckpoint DEF WorkerStep, IdleStep
<1>4. CASE UNCHANGED vars BY <1>1, <1>4 DEF vars, threadVars
<1> QED BY <1>2, <1>3, <1>4 DEF Next

(***************************************************************************)
(* If no function throws, checkpoint_valid says that all the functions a   *)
(* worker is inside of belong to imperative backward passes, to any depth  *)
(* of reentrant calls.  (apply() may throw with checkpoint_valid set, and  *)
(* nobody restores it.)                                                    *)
(***************************************************************************)
THEOREM CheckpointIsRight ==
  ASSUME MayThrow = {}
  PROVE  Spec => []CheckpointMeaning
<1>1. ASSUME Init PROVE NoErrorInv /\ CheckpointInv
  <2>1. /\ \A w \in Workers : Len(stack[w]) = 1 /\ stack[w][1].pc = "loop"
        /\ \A w \in Workers : checkpoint_valid[w] = TRUE
    BY <1>1 DEF Init, EmptyFrame
  <2>2. \A k \in 1 .. 1 : k = 1 OBVIOUS
  <2>3. \A j : j \notin Jobs BY <2>1, <2>2, JobPlaces DEF Busy, Handling
  <2>4. NoErrorInv BY <1>1, <2>3 DEF Init, NoErrorInv
  <2>5. CheckpointInv
    BY <2>1, <2>2 DEF CheckpointInv, CheckpointOK, Imperative, Inside
  <2> QED BY <2>4, <2>5
<1>2. PassInv /\ NoErrorInv /\ CheckpointInv /\ [Next]_vars =>
        NoErrorInv' /\ CheckpointInv'
  BY NoErrorStep, CheckpointStep
<1>3. PassInv /\ CheckpointInv => CheckpointMeaning
  <2> SUFFICES ASSUME PassInv, CheckpointInv, NEW w \in Workers
               PROVE  checkpoint_valid[w] =
                        \A k \in 1 .. Len(stack[w]) :
                          stack[w][k].pc \in {"apply", "nested"} =>
                            ~ GradMode(stack[w][k].base)
    BY DEF CheckpointMeaning
  <2>1. checkpoint_valid[w] \in BOOLEAN BY DEF PassInv, EngineInv, TypeInv, TypeOK
  <2>2. checkpoint_valid[w] <=>
          \A k \in 1 .. Len(stack[w]) :
            stack[w][k].pc \in {"apply", "nested"} => ~ GradMode(stack[w][k].base)
    BY DEF CheckpointInv, CheckpointOK, Imperative, Inside
  <2> QED BY <2>1, <2>2
<1>4. Spec => []PassInv BY PassInvariant
<1> QED BY <1>1, <1>2, <1>3, <1>4, PTL DEF Spec

-----------------------------------------------------------------------------
(***************************************************************************)
(* "Right now the implementation guarantees that a single function's apply *)
(* will never be entered concurrently (even if multiple graphs are         *)
(* executed at the same time)" (engine.cpp).  The guarantee rests on every *)
(* function having one worker, which takes two conditions: its inputs are  *)
(* all on one device, and gradients are defined.                           *)
(***************************************************************************)
SingleDevice ==
  \A f \in Fns : \A m, n \in DOMAIN InputDevice[f] :
     InputDevice[f][m] = InputDevice[f][n]

(* The device of the inputs of f, and so its worker. *)
Home(f) == InputDevice[f][1]

FrameHome(w, fr) == fr.pc \in HasFunction /\ fr.fn \in Fns => Home(fr.fn) = w

(* A function whose outputs are being propagated has been called, and all  *)
(* its outputs are defined.                                                *)
AllOutputs(t, f) == {f} \X DOMAIN NextOf[t][f]
FrameApplied(done, fr) ==
  fr.pc \in {"lock", "propagate"} =>
    done[fr.base][fr.fn] = AllOutputs(fr.base, fr.fn)

(***************************************************************************)
(* The invariant: functions are queued and called at home only, and the    *)
(* buffer of a function holds gradients of edges that lead to it.          *)
(***************************************************************************)
QueueHome ==
  \A w \in Workers : \A x \in ready[w] : x.fn \in Fns => Home(x.fn) = w
StackHome ==
  \A w \in Workers : \A k \in 1 .. Len(stack[w]) :
     FrameHome(w, stack[w][k]) /\ FrameApplied(applied, stack[w][k])
BufferHome ==
  \A t \in Tasks, f \in Fns : not_ready[t][f] # NoBuffer =>
     \A e \in not_ready[t][f] : LeadsTo(t, e, f)
HomeInv == TypeInv /\ QueueHome /\ StackHome /\ BufferHome

-----------------------------------------------------------------------------
(* InputBuffer::device() is the home of the function, if at least one      *)
(* gradient is defined.                                                    *)
LEMMA BufferDeviceHome ==
  ASSUME SingleDevice, NEW t \in Tasks, NEW f \in Fns, NEW buffer,
         buffer # {}, \A e \in buffer : LeadsTo(t, e, f)
  PROVE  BufferDevice(t, f, buffer) = Home(f)
<1> DEFINE inputs == {InputNrOf(t, e) : e \in buffer}
           positions == {n \in inputs : InputDevice[f][n] # CPU}
           least == CHOOSE n \in positions : \A m \in positions : n <= m
<1>1. inputs \subseteq DOMAIN InputDevice[f] /\ inputs # {}
  BY InputNrType
<1>2. InputDevice[f] \in Seq(Workers)
  BY GraphAssumption
<1>3. DOMAIN InputDevice[f] = 1 .. Len(InputDevice[f]) /\ Len(InputDevice[f]) \in Nat
  BY <1>2
<1>4. \A n \in inputs : InputDevice[f][n] = Home(f)
  <2>1. 1 \in DOMAIN InputDevice[f]
    BY <1>1, <1>3
  <2> QED BY <1>1, <2>1 DEF SingleDevice, Home
<1>5. CASE Home(f) = CPU
  <2>1. positions = {}
    BY <1>4, <1>5
  <2> QED BY <1>5, <2>1 DEF BufferDevice
<1>6. CASE Home(f) # CPU
  <2>1. positions = inputs
    BY <1>4, <1>6
  <2>2. positions \in SUBSET Nat /\ positions # {}
    <3> HIDE DEF inputs, positions
    <3>1. DOMAIN InputDevice[f] \subseteq Nat
      BY <1>3
    <3> QED BY <1>1, <2>1, <3>1
  <2> HIDE DEF positions
  <2>3. \E n \in positions : \A m \in positions : n <= m
    BY <2>2, MinExists
  <2>4. least \in positions
    BY <2>3
  <2>5. InputDevice[f][least] = Home(f)
    BY <1>4, <2>1, <2>4
  <2> QED BY <2>2, <2>5 DEF BufferDevice, positions
<1> QED BY <1>5, <1>6

-----------------------------------------------------------------------------
(***************************************************************************)
(* Stacks.  What a function has returned stays returned.                   *)
(***************************************************************************)
AppliedKept ==
  \A t \in Tasks, f \in Nodes :
     applied[t][f] = AllOutputs(t, f) => applied'[t][f] = AllOutputs(t, f)

LEMMA FrameKept ==
  ASSUME AppliedKept, NEW fr \in Frame, FrameOK(fr), FrameApplied(applied, fr)
  PROVE  FrameApplied(applied', fr)
<1> SUFFICES ASSUME fr.pc \in {"lock", "propagate"}
             PROVE  applied'[fr.base][fr.fn] = AllOutputs(fr.base, fr.fn)
  BY DEF FrameApplied, AllOutputs
<1>1. fr.base \in Tasks /\ fr.fn \in Nodes
  BY DEF FrameOK, HasTask, HasFunction, PCs
<1> QED BY <1>1 DEF FrameApplied, AppliedKept

LEMMA NewStackHome ==
  ASSUME HomeInv, AppliedKept, NEW w \in Workers, NEW s2 \in Seq(Frame),
         \A k \in 1 .. Len(s2) : FrameHome(w, s2[k]) /\ FrameApplied(applied', s2[k]),
         stack' = [stack EXCEPT ![w] = s2]
  PROVE  StackHome'
<1>1. stack \in [Workers -> Seq(Frame)]
  BY DEF HomeInv, TypeInv, TypeOK
<1>2. stack'[w] = s2 /\ \A v \in Workers \ {w} : stack'[v] = stack[v]
  BY <1>1
<1> SUFFICES ASSUME NEW v \in Workers, NEW k \in 1 .. Len(stack'[v])
             PROVE  FrameHome(v, stack'[v][k]) /\ FrameApplied(applied', stack'[v][k])
  BY DEF StackHome, FrameHome
<1>3. CASE v = w
  BY <1>2, <1>3
<1>4. CASE v # w
  <2> DEFINE fr == stack[v][k]
  <2>1. fr \in Frame /\ FrameOK(fr) /\ FrameHome(v, fr) /\ FrameApplied(applied, fr)
    BY <1>1, <1>2, <1>4 DEF HomeInv, StackHome, TypeInv, StackOK
  <2>2. stack'[v][k] = fr
    BY <1>2, <1>4
  <2> HIDE DEF fr
  <2>3. FrameApplied(applied', fr)
    BY <2>1, FrameKept
  <2> QED BY <2>1, <2>2, <2>3
<1> QED BY <1>3, <1>4

LEMMA SetTopHome ==
  ASSUME HomeInv, AppliedKept, NEW w \in Workers, NEW fr \in Frame,
         FrameHome(w, fr), FrameApplied(applied', fr), SetTop(w, fr)
  PROVE  StackHome'
<1> DEFINE s == stack[w]
           n == Len(stack[w])
           s2 == [s EXCEPT ![n] = fr]
<1>1. s \in Seq(Frame) /\ n \in Nat \ {0}
  BY TopOK DEF HomeInv, TypeInv, TypeOK
<1>2. s2 \in Seq(Frame) /\ Len(s2) = n
  BY <1>1
<1>3. stack' = [stack EXCEPT ![w] = s2]
  BY DEF SetTop
<1>4. \A k \in 1 .. n : s2[k] = IF k = n THEN fr ELSE s[k]
  BY <1>1
<1>5. ASSUME NEW k \in 1 .. n
      PROVE  FrameHome(w, s[k]) /\ FrameApplied(applied', s[k])
  <2>1. /\ s[k] \in Frame /\ FrameOK(s[k])
        /\ FrameHome(w, s[k]) /\ FrameApplied(applied, s[k])
    BY <1>1, <1>5 DEF HomeInv, StackHome, TypeInv, StackOK
  <2> QED BY <2>1, FrameKept
<1> HIDE DEF s2, s
<1>6. \A k \in 1 .. Len(s2) : FrameHome(w, s2[k]) /\ FrameApplied(applied', s2[k])
  BY <1>2, <1>4, <1>5
<1> QED BY <1>2, <1>3, <1>6, NewStackHome

(* A step that lets go of the function, or goes on with it without having  *)
(* its outputs.                                                            *)
LEMMA MoveHome ==
  ASSUME HomeInv, AppliedKept, NEW w \in Workers, NEW fr \in Frame,
         fr.pc \notin {"lock", "propagate"},
         fr.pc \in HasFunction => Top(w).pc \in HasFunction /\ fr.fn = Top(w).fn,
         SetTop(w, fr)
  PROVE  StackHome'
<1>1. Len(stack[w]) \in Nat \ {0}
  BY TopOK DEF HomeInv
<1>2. FrameHome(w, Top(w))
  BY <1>1 DEF HomeInv, StackHome, Top
<1>3. FrameHome(w, fr)
  BY <1>2 DEF FrameHome
<1>4. FrameApplied(applied', fr)
  BY DEF FrameApplied
<1> QED BY <1>3, <1>4, SetTopHome

LEMMA GotoHome ==
  ASSUME HomeInv, AppliedKept, NEW w \in Workers, NEW pc \in PCs, Goto(w, pc),
         pc \notin {"lock", "propagate"},
         pc \in HasFunction => Top(w).pc \in HasFunction
  PROVE  StackHome'
<1> DEFINE fr == [Top(w) EXCEPT !.pc = pc]
<1>1. Top(w) \in Frame
  BY TopOK DEF HomeInv
<1>2. fr \in Frame /\ fr.pc = pc /\ fr.fn = Top(w).fn
  BY <1>1 DEF Frame
<1>3. SetTop(w, fr)
  BY DEF Goto
<1> HIDE DEF fr
<1> QED BY <1>2, <1>3, MoveHome

LEMMA EmptyFrameHome ==
  ASSUME HomeInv, AppliedKept, NEW w \in Workers,
         SetTop(w, EmptyFrame(Top(w).loop, "loop"))
  PROVE  StackHome'
<1> DEFINE fr == EmptyFrame(Top(w).loop, "loop")
<1>1. fr \in Frame /\ fr.pc = "loop"
  BY TopOK DEF HomeInv, Frame, EmptyFrame, PCs
<1> HIDE DEF fr
<1>2. fr.pc \notin HasFunction /\ fr.pc \notin {"lock", "propagate"}
  BY <1>1 DEF HasFunction
<1> QED BY <1>1, <1>2, MoveHome DEF fr

LEMMA Unapplied == UNCHANGED applied => AppliedKept
BY DEF AppliedKept

-----------------------------------------------------------------------------
(***************************************************************************)
(* Queues.                                                                 *)
(***************************************************************************)
LEMMA PushHome ==
  ASSUME HomeInv, NEW d \in Workers, NEW item \in FunctionTask, Push(d, item),
         item.fn \in Fns => Home(item.fn) = d
  PROVE  QueueHome'
<1>1. ready' = [ready EXCEPT ![d] = ready[d] \cup {item}]
  BY DEF Push
<1>2. ready \in [Workers -> SUBSET FunctionTask]
  BY DEF HomeInv, TypeInv, TypeOK
<1>3. \A v \in Workers : ready'[v] \subseteq ready[v] \cup {item}
  BY <1>1, <1>2
<1>4. \A v \in Workers \ {d} : ready'[v] = ready[v]
  BY <1>1, <1>2
<1> SUFFICES ASSUME NEW v \in Workers, NEW x \in ready'[v], x.fn \in Fns
             PROVE  Home(x.fn) = v
  BY DEF QueueHome
<1>5. CASE x \in ready[v]
  BY <1>5 DEF HomeInv, QueueHome
<1>6. CASE x \notin ready[v]
  BY <1>3, <1>4, <1>6
<1> QED BY <1>5, <1>6

LEMMA StartTaskHome ==
  ASSUME HomeInv, NEW t \in Tasks, StartTask(t)
  PROVE  QueueHome' /\ BufferHome' /\ AppliedKept
<1> DEFINE item == [base |-> t, fn |-> GraphRoot, inputs |-> {}]
<1>1. item \in FunctionTask /\ item.fn = GraphRoot
  BY DEF FunctionTask, Nodes
<1>2. Push(CPU, item) /\ UNCHANGED <<not_ready, applied>>
  BY DEF StartTask, history
<1> HIDE DEF item
<1>3. QueueHome'
  BY <1>1, <1>2, CPUWorker, NamesAssumption, PushHome
<1> QED BY <1>2, <1>3, Unapplied DEF BufferHome, HomeInv

-----------------------------------------------------------------------------
(***************************************************************************)
(* The steps.                                                              *)
(***************************************************************************)
Rest == QueueHome /\ StackHome /\ BufferHome

LEMMA HomeInit == Init => HomeInv
<1> SUFFICES ASSUME Init PROVE HomeInv
  OBVIOUS
<1>1. TypeInv
  BY TypeInit
<1>2. QueueHome /\ BufferHome
  BY DEF Init, QueueHome, BufferHome
<1>3. StackHome
  <2> DEFINE e == EmptyFrame(NoTask, "loop")
  <2>1. e.pc = "loop"
    BY DEF EmptyFrame
  <2>2. stack = [w \in Workers |-> <<e>>]
    BY DEF Init
  <2> HIDE DEF e
  <2>3. \A w \in Workers : FrameHome(w, e) /\ FrameApplied(applied, e)
    BY <2>1 DEF FrameHome, FrameApplied, HasFunction
  <2> QED BY <2>2, <2>3 DEF StackHome
<1> QED BY <1>1, <1>2, <1>3 DEF HomeInv

LEMMA CallerStepHome ==
  ASSUME HomeInv, NEW t \in Tasks, CallerStep(t)
  PROVE  Rest'
<1>1. UNCHANGED <<stack, not_ready, applied>>
  BY DEF CallerStep, Execute, WaitCheck, WaitBlock, SpuriousWakeup,
         WaitReacquire, ExecuteReturn, StartTask, graphTaskVars, history
<1>2. StackHome' /\ BufferHome'
  BY <1>1 DEF HomeInv, StackHome, BufferHome
<1>3. QueueHome'
  <2>1. CASE Execute(t)
    BY <2>1, StartTaskHome DEF Execute
  <2>2. CASE ~ Execute(t)
    <3>1. UNCHANGED ready
      BY <2>2 DEF CallerStep, WaitCheck, WaitBlock, SpuriousWakeup,
                  WaitReacquire, ExecuteReturn
    <3> QED BY <3>1 DEF HomeInv, QueueHome
  <2> QED BY <2>1, <2>2
<1> QED BY <1>2, <1>3 DEF Rest

(* Steps that touch neither a queue nor a buffer nor what was applied. *)
LEMMA QuietStepHome ==
  ASSUME HomeInv, NEW w \in Workers,
         \/ LoopContinue(w) \/ Capture(w) \/ CallFunction(w) \/ SetOwner(w)
         \/ ApplyThrow(w) \/ OnException(w) \/ ReadOwner(w) \/ Decrement(w)
         \/ Notify(w)
  PROVE  Rest'
<1>1. UNCHANGED <<ready, not_ready, applied>>
  BY DEF LoopContinue, Capture, CallFunction, SetOwner, ApplyThrow, OnException,
         ReadOwner, Decrement, Notify, graphTaskVars, history
<1>2. QueueHome' /\ BufferHome'
  BY <1>1 DEF HomeInv, QueueHome, BufferHome
<1>3. AppliedKept
  BY <1>1, Unapplied
<1> DEFINE top == Top(w)
<1>4. top \in Frame
  BY TopOK DEF HomeInv
<1>5. StackHome'
  <2>1. CASE LoopContinue(w)
    BY <2>1, <1>3, GotoHome DEF LoopContinue, PCs, HasFunction
  <2>2. CASE Capture(w)
    BY <2>2, <1>3, GotoHome DEF Capture, At, PCs, HasFunction
  <2>3. CASE CallFunction(w)
    <3> DEFINE fr == [top EXCEPT !.pc = "apply", !.inputs = {},
                                 !.prev = checkpoint_valid[w]]
    <3>1. checkpoint_valid[w] \in BOOLEAN
      BY DEF HomeInv, TypeInv, TypeOK
    <3>2. fr \in Frame /\ fr.pc = "apply" /\ fr.fn = top.fn
      BY <1>4, <3>1 DEF Frame, PCs
    <3>3. SetTop(w, fr) /\ top.pc = "call"
      BY <2>3 DEF CallFunction, At
    <3> HIDE DEF fr
    <3>4. top.pc \in HasFunction /\ fr.pc \notin {"lock", "propagate"}
      BY <3>2, <3>3 DEF HasFunction
    <3> QED BY <1>3, <3>2, <3>3, <3>4, MoveHome
  <2>4. CASE SetOwner(w)
    BY <2>4, <1>3, GotoHome DEF SetOwner, PCs, HasFunction
  <2>5. CASE ApplyThrow(w)
    BY <2>5, <1>3, GotoHome DEF ApplyThrow, At, PCs, HasFunction
  <2>6. CASE OnException(w)
    BY <2>6, <1>3, GotoHome DEF OnException, PCs, HasFunction
  <2>7. CASE ReadOwner(w)
    <3> DEFINE fr == [top EXCEPT !.pc = "decrement",
                                 !.base_owner = owner[top.base]]
    <3>1. SetTop(w, fr) /\ top.pc = "owner"
      BY <2>7 DEF ReadOwner, At
    <3>2. top.base \in Tasks
      BY <3>1, TopOK DEF HomeInv, FrameOK, HasTask, PCs
    <3>3. owner[top.base] \in Workers \cup {NO_DEVICE}
      BY <3>2 DEF HomeInv, TypeInv, TypeOK
    <3>4. fr \in Frame /\ fr.pc = "decrement"
      BY <1>4, <3>3 DEF Frame, PCs
    <3> HIDE DEF fr
    <3>5. fr.pc \notin HasFunction /\ fr.pc \notin {"lock", "propagate"}
      BY <3>4 DEF HasFunction
    <3> QED BY <1>3, <3>1, <3>4, <3>5, MoveHome
  <2>8. CASE Decrement(w)
    <3> DEFINE left == outstanding_tasks[top.base] - 1
               pc == AfterDecrement(w, top.base_owner, left)
    <3>1. pc \in {"loop", "notify", "dummy"}
      BY DEF AfterDecrement
    <3>2. SetTop(w, IF pc = "loop" THEN EmptyFrame(top.loop, "loop")
                                   ELSE [top EXCEPT !.pc = pc])
      BY <2>8 DEF Decrement
    <3> HIDE DEF pc
    <3>3. CASE pc = "loop"
      BY <1>3, <3>2, <3>3, EmptyFrameHome
    <3>4. CASE pc # "loop"
      <4>1. Goto(w, pc)
        BY <3>2, <3>4 DEF Goto
      <4> QED BY <1>3, <3>1, <4>1, GotoHome DEF PCs, HasFunction
    <3> QED BY <3>3, <3>4
  <2>9. CASE Notify(w)
    BY <2>9, <1>3, EmptyFrameHome DEF Notify
  <2> QED BY <2>1, <2>2, <2>3, <2>4, <2>5, <2>6, <2>7, <2>8, <2>9
<1> QED BY <1>2, <1>5 DEF Rest

(* The frames of a worker, seen from the state after a step. *)
LEMMA OldFrames ==
  ASSUME HomeInv, AppliedKept, NEW w \in Workers, NEW k \in 1 .. Len(stack[w])
  PROVE  /\ stack[w][k] \in Frame
         /\ FrameHome(w, stack[w][k]) /\ FrameApplied(applied', stack[w][k])
<1>1. /\ stack[w][k] \in Frame /\ FrameOK(stack[w][k])
      /\ FrameHome(w, stack[w][k]) /\ FrameApplied(applied, stack[w][k])
  BY DEF HomeInv, StackHome, TypeInv, TypeOK, StackOK
<1> QED BY <1>1, FrameKept

LEMMA LoopExitHome ==
  ASSUME HomeInv, NEW w \in Workers, LoopExit(w)
  PROVE  Rest'
<1> DEFINE s == stack[w]
           below == Len(s) - 1
           cut == SubSeq(s, 1, below)
           fr == [s[below] EXCEPT !.pc = "apply"]
           s2 == [cut EXCEPT ![below] = fr]
<1>1. UNCHANGED <<ready, not_ready, applied>>
  BY DEF LoopExit, graphTaskVars, history
<1>2. QueueHome' /\ BufferHome' /\ AppliedKept
  BY <1>1, Unapplied DEF HomeInv, QueueHome, BufferHome
<1>3. /\ s \in Seq(Frame) /\ Len(s) \in Nat \ {0}
      /\ s[1].loop = NoTask
      /\ \A k \in 1 .. (Len(s) - 1) : s[k].pc = "nested"
  BY TopOK DEF HomeInv, TypeInv, TypeOK, StackOK
<1>4. Len(s) > 1
  BY <1>3 DEF LoopExit, Top
<1>50. /\ cut \in Seq(Frame) /\ Len(cut) = below
       /\ \A k \in 1 .. below : cut[k] = s[k]
  BY <1>3, <1>4
<1>51. below \in Nat \ {0}
  <2> DEFINE n == Len(stack[w])
  <2>1. n \in Nat /\ n > 1
    BY <1>3, <1>4
  <2> HIDE DEF n
  <2>2. n - 1 \in Nat \ {0}
    BY <2>1
  <2> QED BY <2>2 DEF n
<1>5. /\ cut \in Seq(Frame) /\ Len(cut) = below /\ below \in Nat \ {0}
      /\ \A k \in 1 .. below : cut[k] = s[k]
  BY <1>50, <1>51
<1>6. ASSUME NEW k \in 1 .. below
      PROVE  s[k] \in Frame /\ FrameHome(w, s[k]) /\ FrameApplied(applied', s[k])
  <2>1. k \in 1 .. Len(s)
    BY <1>3
  <2> QED BY <1>2, <2>1, OldFrames
<1>7. fr \in Frame /\ FrameHome(w, fr) /\ FrameApplied(applied', fr)
  <2>1. s[below] \in Frame /\ FrameHome(w, s[below]) /\ s[below].pc = "nested"
    BY <1>3, <1>4, <1>5, <1>6
  <2> QED BY <2>1 DEF Frame, PCs, FrameHome, FrameApplied, HasFunction
<1>8. s2 = [cut EXCEPT ![below].pc = "apply"]
  BY <1>4, <1>5
<1>9. stack' = [stack EXCEPT ![w] = s2]
  BY <1>8 DEF LoopExit
<1> HIDE DEF fr, cut, below
<1>10. /\ s2 \in Seq(Frame) /\ Len(s2) = below
       /\ \A k \in 1 .. below : s2[k] = IF k = below THEN fr ELSE s[k]
  BY <1>5, <1>7
<1> HIDE DEF s2, s
<1>11. \A k \in 1 .. Len(s2) : FrameHome(w, s2[k]) /\ FrameApplied(applied', s2[k])
  BY <1>6, <1>7, <1>10
<1>12. StackHome'
  BY <1>2, <1>9, <1>10, <1>11, NewStackHome
<1> QED BY <1>2, <1>12 DEF Rest

LEMMA ReenterHome ==
  ASSUME HomeInv, NEW w \in Workers, NEW t \in Tasks, Reenter(w, t)
  PROVE  Rest'
<1> DEFINE s == stack[w]
           n == Len(s)
           nested == [s[n] EXCEPT !.pc = "nested"]
           s1 == [s EXCEPT ![n] = nested]
           e == EmptyFrame(t, "setowner")
           s2 == Append(s1, e)
<1>1. QueueHome' /\ BufferHome' /\ AppliedKept
  BY StartTaskHome DEF Reenter
<1>2. s \in Seq(Frame) /\ n \in Nat \ {0} /\ s[n].pc = "apply"
  BY TopOK DEF HomeInv, TypeInv, TypeOK, Reenter, At, Top
<1>3. ASSUME NEW k \in 1 .. n
      PROVE  s[k] \in Frame /\ FrameHome(w, s[k]) /\ FrameApplied(applied', s[k])
  BY <1>1, <1>3, OldFrames
<1>4. nested \in Frame /\ FrameHome(w, nested) /\ FrameApplied(applied', nested)
  <2>1. s[n] \in Frame /\ FrameHome(w, s[n])
    BY <1>2, <1>3
  <2> QED BY <1>2, <2>1 DEF Frame, PCs, FrameHome, FrameApplied, HasFunction
<1>5. e \in Frame /\ FrameHome(w, e) /\ FrameApplied(applied', e)
  BY EmptyFrameOK DEF EmptyFrame, FrameHome, FrameApplied, HasFunction
<1>6. stack' = [stack EXCEPT ![w] = s2]
  BY DEF Reenter
<1> HIDE DEF nested, e
<1>7. /\ s1 \in Seq(Frame) /\ Len(s1) = n
      /\ \A k \in 1 .. n : s1[k] = IF k = n THEN nested ELSE s[k]
  BY <1>2, <1>4
<1> HIDE DEF s1
<1>8. /\ s2 \in Seq(Frame) /\ Len(s2) = n + 1
      /\ \A k \in 1 .. (n + 1) : s2[k] = IF k = n + 1 THEN e ELSE s1[k]
  BY <1>2, <1>5, <1>7
<1> HIDE DEF s2, s
<1>9. \A k \in 1 .. Len(s2) : FrameHome(w, s2[k]) /\ FrameApplied(applied', s2[k])
  BY <1>2, <1>3, <1>4, <1>5, <1>7, <1>8
<1>10. StackHome'
  BY <1>1, <1>6, <1>8, <1>9, NewStackHome
<1> QED BY <1>1, <1>10 DEF Rest

(* A worker pops only from its own queue. *)
LEMMA PopHome ==
  ASSUME HomeInv, NEW w \in Workers, Pop(w)
  PROVE  Rest'
<1>1. PICK x \in HeapTop(w) :
        /\ ready' = [ready EXCEPT ![w] = @ \ {x}]
        /\ SetTop(w, [Top(w) EXCEPT !.base = x.base, !.fn = x.fn,
                                    !.inputs = x.inputs, !.pc = FirstStep(x)])
  BY DEF Pop
<1>2. UNCHANGED <<not_ready, applied>>
  BY DEF Pop, graphTaskVars, history
<1>3. BufferHome' /\ AppliedKept
  BY <1>2, Unapplied DEF HomeInv, BufferHome
<1>4. x \in ready[w]
  BY DEF HeapTop
<1>5. x.fn \in Fns => Home(x.fn) = w
  BY <1>4 DEF HomeInv, QueueHome
<1>6. QueueHome'
  <2>1. ready \in [Workers -> SUBSET FunctionTask]
    BY DEF HomeInv, TypeInv, TypeOK
  <2>2. \A v \in Workers : ready'[v] \subseteq ready[v]
    BY <1>1, <2>1
  <2> QED BY <2>2 DEF HomeInv, QueueHome
<1> DEFINE fr == [Top(w) EXCEPT !.base = x.base, !.fn = x.fn,
                                !.inputs = x.inputs, !.pc = FirstStep(x)]
<1>7. FirstStep(x) \in {"owner", "capture", "call"}
  BY DEF FirstStep
<1>8. x \in FunctionTask
  BY <1>4 DEF HomeInv, TypeInv, TypeOK
<1>9. Top(w) \in Frame
  BY TopOK DEF HomeInv
<1>10. fr \in Frame /\ fr.fn = x.fn /\ fr.pc = FirstStep(x)
  BY <1>7, <1>8, <1>9 DEF Frame, FunctionTask, PCs
<1>11. SetTop(w, fr)
  BY <1>1
<1> HIDE DEF fr
<1>12. FrameHome(w, fr) /\ FrameApplied(applied', fr)
  BY <1>5, <1>7, <1>10 DEF FrameHome, FrameApplied
<1>13. StackHome'
  BY <1>3, <1>10, <1>11, <1>12, SetTopHome
<1> QED BY <1>3, <1>6, <1>13 DEF Rest

(* The function returns all its gradients. *)
LEMMA ApplyReturnHome ==
  ASSUME HomeInv, AllowUndefined = FALSE, NEW w \in Workers, ApplyReturn(w)
  PROVE  Rest'
<1> DEFINE top == Top(w)
           pc == IF NextOf[top.base][top.fn] = <<>> THEN "owner" ELSE "lock"
           fr == [top EXCEPT !.pc = pc]
<1>1. top \in Frame /\ FrameOK(top) /\ top.pc = "apply"
  BY TopOK DEF HomeInv, ApplyReturn, At
<1>2. top.base \in Tasks /\ top.fn \in Nodes
  BY <1>1 DEF FrameOK, HasTask, HasFunction, PCs
<1>3. applied' = [applied EXCEPT ![top.base][top.fn] = AllOutputs(top.base, top.fn)]
  BY DEF ApplyReturn, DefinedOutputs, AllOutputs
<1>4. applied \in [Tasks -> [Nodes -> Buffers]]
  BY DEF HomeInv, TypeInv, TypeOK
<1>5. applied'[top.base][top.fn] = AllOutputs(top.base, top.fn)
  BY <1>2, <1>3, <1>4
<1>6. AppliedKept
  <2> SUFFICES ASSUME NEW t \in Tasks, NEW f \in Nodes,
                      applied[t][f] = AllOutputs(t, f)
               PROVE  applied'[t][f] = AllOutputs(t, f)
    BY DEF AppliedKept
  <2>1. CASE t = top.base /\ f = top.fn
    BY <1>5, <2>1
  <2>2. CASE ~ (t = top.base /\ f = top.fn)
    BY <1>2, <1>3, <1>4, <2>2
  <2> QED BY <2>1, <2>2
<1>7. UNCHANGED <<ready, not_ready>>
  BY DEF ApplyReturn, graphTaskVars
<1>8. QueueHome' /\ BufferHome'
  BY <1>7 DEF HomeInv, QueueHome, BufferHome
<1>9. pc \in {"owner", "lock"} /\ SetTop(w, fr)
  BY DEF ApplyReturn, Goto
<1> HIDE DEF pc
<1>10. fr \in Frame /\ fr.pc = pc /\ fr.fn = top.fn /\ fr.base = top.base
  BY <1>1, <1>9 DEF Frame, PCs
<1> HIDE DEF fr
<1>11. FrameHome(w, top)
  BY TopOK DEF HomeInv, StackHome, Top
<1>12. FrameHome(w, fr) /\ FrameApplied(applied', fr)
  BY <1>1, <1>5, <1>9, <1>10, <1>11 DEF FrameHome, FrameApplied, HasFunction
<1>13. StackHome'
  BY <1>6, <1>9, <1>10, <1>12, SetTopHome
<1> QED BY <1>8, <1>13 DEF Rest

(* A step from "lock" or "propagate" that goes on with the same function. *)
LEMMA ContinueHome ==
  ASSUME HomeInv, UNCHANGED applied, NEW w \in Workers, NEW fr \in Frame,
         Top(w).pc \in {"lock", "propagate"},
         fr.fn = Top(w).fn, fr.base = Top(w).base, SetTop(w, fr)
  PROVE  StackHome'
<1>1. AppliedKept
  BY Unapplied
<1>2. FrameHome(w, Top(w)) /\ FrameApplied(applied, Top(w))
  BY TopOK DEF HomeInv, StackHome, Top
<1>3. FrameHome(w, fr) /\ FrameApplied(applied', fr)
  BY <1>2 DEF FrameHome, FrameApplied, HasFunction
<1> QED BY <1>1, <1>3, SetTopHome

LEMMA LockGraphTaskHome ==
  ASSUME HomeInv, NEW w \in Workers, LockGraphTask(w)
  PROVE  Rest'
<1> DEFINE fr == [Top(w) EXCEPT !.pc = "propagate", !.i = 1]
<1>1. UNCHANGED <<ready, not_ready, applied>> /\ SetTop(w, fr) /\ Top(w).pc = "lock"
  BY DEF LockGraphTask, history, At
<1>2. Top(w) \in Frame
  BY TopOK DEF HomeInv
<1>3. fr \in Frame /\ fr.fn = Top(w).fn /\ fr.base = Top(w).base
  BY <1>2 DEF Frame, PCs
<1> HIDE DEF fr
<1>4. StackHome'
  BY <1>1, <1>3, ContinueHome
<1> QED BY <1>1, <1>4 DEF Rest, HomeInv, QueueHome, BufferHome

LEMMA AdvanceOutputHome ==
  ASSUME HomeInv, UNCHANGED applied, NEW w \in Workers, At(w, "propagate"),
         NEW ok, AdvanceOutput(w, ok)
  PROVE  StackHome'
<1> DEFINE top == Top(w)
           last == top.i = Len(NextOf[top.base][top.fn])
           pc == IF ok THEN "owner" ELSE "except"
<1>1. top \in Frame /\ top.pc = "propagate"
  BY TopOK DEF HomeInv, At
<1>2. CASE ok /\ ~ last
  <2> DEFINE fr == [top EXCEPT !.i = @ + 1]
  <2>1. fr \in Frame /\ fr.fn = top.fn /\ fr.base = top.base
    BY <1>1 DEF Frame
  <2>2. SetTop(w, fr)
    BY <1>2 DEF AdvanceOutput
  <2> HIDE DEF fr
  <2> QED BY <1>1, <2>1, <2>2, ContinueHome
<1>3. CASE ~ (ok /\ ~ last)
  <2> DEFINE fr == [top EXCEPT !.i = 1, !.pc = pc]
  <2>1. fr \in Frame /\ fr.fn = top.fn /\ fr.base = top.base
    BY <1>1 DEF Frame, PCs
  <2>2. SetTop(w, fr)
    BY <1>3 DEF AdvanceOutput
  <2> HIDE DEF fr
  <2> QED BY <1>1, <2>1, <2>2, ContinueHome
<1> QED BY <1>2, <1>3

LEMMA PropagateInvalidHome ==
  ASSUME HomeInv, NEW w \in Workers, PropagateInvalid(w)
  PROVE  Rest'
<1>1. UNCHANGED <<ready, not_ready, applied>>
  BY DEF PropagateInvalid, history
<1>2. StackHome'
  BY <1>1, AdvanceOutputHome DEF PropagateInvalid
<1> QED BY <1>1, <1>2 DEF Rest, HomeInv, QueueHome, BufferHome

LEMMA PropagateHome ==
  ASSUME HomeInv, SingleDevice, NEW w \in Workers, Propagate(w)
  PROVE  Rest'
<1> DEFINE fr == Top(w)
           t == fr.base
           f == NextOf[t][fr.fn][fr.i]
           e == <<fr.fn, fr.i>>
           buffer == BufferWith(t, f, e)
           item == [base |-> t, fn |-> f, inputs |-> buffer]
<1>a. At(w, "propagate") /\ f # NullFn
  BY Zenon DEF Propagate
<1>b. UNCHANGED applied /\ \E ok : AdvanceOutput(w, ok)
  BY Zenon DEF Propagate, history
<1>c. \/ UNCHANGED <<ready, not_ready>>
      \/ /\ Push(BufferDevice(t, f, buffer), item)
         /\ not_ready' = [not_ready EXCEPT ![t][f] = NoBuffer]
      \/ /\ not_ready' = [not_ready EXCEPT ![t][f] = buffer]
         /\ UNCHANGED ready
  BY Zenon DEF Propagate
<1> HIDE DEF buffer, item
<1>0. fr \in Frame /\ FrameOK(fr) /\ FrameApplied(applied, fr)
  BY TopOK DEF HomeInv, StackHome, Top
<1>1. fr.pc = "propagate"
  BY <1>a DEF At
<1> HIDE DEF fr
<1>2. t \in Tasks /\ fr.fn \in Nodes /\ fr.i \in DOMAIN NextOf[t][fr.fn]
  BY <1>0, <1>1 DEF FrameOK, HasTask, HasFunction, PCs
<1>3. NextOf[t][fr.fn] \in Seq(Fns \cup {NullFn})
  BY <1>2, NextOfType
<1>4. f \in Fns /\ fr.i \in Nat \ {0}
  BY <1>a, <1>2, <1>3
<1>5. LeadsTo(t, e, f)
  BY <1>2 DEF LeadsTo
<1>6. e \in applied[t][e[1]]
  BY <1>0, <1>1, <1>2 DEF FrameApplied, AllOutputs
<1>61. e \in Edges
  BY <1>2, <1>4 DEF Edges
<1> HIDE DEF e, f, t
<1>7. /\ e \in buffer
      /\ \A x \in buffer : LeadsTo(t, x, f)
  BY <1>2, <1>4, <1>5, <1>6 DEF BufferWith, HomeInv, BufferHome, buffer
<1>8. buffer \in SUBSET Edges
  BY <1>2, <1>4, <1>61, BufferWithType DEF HomeInv, buffer
<1>9. item \in FunctionTask /\ item.fn = f
  BY <1>2, <1>4, <1>8 DEF FunctionTask, Nodes, item
<1>10. BufferDevice(t, f, buffer) = Home(f)
  BY <1>2, <1>4, <1>7, BufferDeviceHome
<1>11. Home(f) \in Workers
  <2>1. InputNrOf(t, e) \in DOMAIN InputDevice[f]
    BY <1>2, <1>4, <1>5, InputNrType
  <2>2. InputDevice[f] \in Seq(Workers)
    BY <1>4, GraphAssumption
  <2>3. InputDevice[f][InputNrOf(t, e)] \in Workers /\ 1 \in DOMAIN InputDevice[f]
    BY <2>1, <2>2
  <2> QED BY <1>4, <2>1, <2>3 DEF SingleDevice, Home
<1>13. StackHome'
  BY <1>a, <1>b, AdvanceOutputHome
<1>14. not_ready \in [Tasks -> [Fns -> Buffers]]
  BY DEF HomeInv, TypeInv, TypeOK
<1>15. CASE UNCHANGED <<ready, not_ready>>
  BY <1>13, <1>15 DEF Rest, HomeInv, QueueHome, BufferHome
<1>16. CASE /\ Push(BufferDevice(t, f, buffer), item)
            /\ not_ready' = [not_ready EXCEPT ![t][f] = NoBuffer]
  <2>1. Push(Home(f), item)
    BY <1>10, <1>16
  <2>2. QueueHome'
    BY <1>9, <1>11, <2>1, PushHome
  <2>3. \A u \in Tasks, g \in Fns :
          not_ready'[u][g] = NoBuffer \/ not_ready'[u][g] = not_ready[u][g]
    BY <1>2, <1>4, <1>14, <1>16
  <2>4. BufferHome'
    BY <2>3 DEF HomeInv, BufferHome
  <2> QED BY <1>13, <2>2, <2>4 DEF Rest
<1>17. CASE /\ not_ready' = [not_ready EXCEPT ![t][f] = buffer]
            /\ UNCHANGED ready
  <2>1. \A u \in Tasks, g \in Fns :
          \/ not_ready'[u][g] = not_ready[u][g]
          \/ u = t /\ g = f /\ not_ready'[u][g] = buffer
    BY <1>2, <1>4, <1>14, <1>17
  <2>2. BufferHome'
    BY <1>7, <2>1 DEF HomeInv, BufferHome
  <2> QED BY <1>13, <1>17, <2>2 DEF Rest, HomeInv, QueueHome
<1> QED BY <1>c, <1>15, <1>16, <1>17

LEMMA PushDummyHome ==
  ASSUME HomeInv, NEW w \in Workers, PushDummy(w)
  PROVE  Rest'
<1> DEFINE item == [base |-> Top(w).base, fn |-> NullFn, inputs |-> {}]
<1>1. UNCHANGED <<not_ready, applied>>
  BY DEF PushDummy
<1>2. StackHome'
  BY <1>1, Unapplied, EmptyFrameHome DEF PushDummy
<1>3. Top(w) \in Frame /\ FrameOK(Top(w)) /\ Top(w).pc = "dummy"
  BY TopOK DEF HomeInv, PushDummy, At
<1>4. Top(w).base \in Tasks /\ Top(w).base_owner \in Workers
  BY <1>3 DEF FrameOK, HasTask, PCs
<1>5. item \in FunctionTask /\ item.fn \notin Fns
  BY <1>4, NamesAssumption DEF FunctionTask, Nodes
<1>6. Push(Top(w).base_owner, item)
  BY DEF PushDummy
<1> HIDE DEF item
<1>7. QueueHome'
  BY <1>4, <1>5, <1>6, PushHome
<1> QED BY <1>1, <1>2, <1>7 DEF Rest, HomeInv, BufferHome

LEMMA HomeStep ==
  ASSUME SingleDevice, AllowUndefined = FALSE, HomeInv, [Next]_vars
  PROVE  HomeInv'
<1>1. TypeInv'
  BY TypeStep DEF HomeInv
<1>2. Rest'
  <2>1. CASE UNCHANGED vars
    BY <2>1 DEF vars, graphTaskVars, history, Rest, HomeInv, QueueHome,
                StackHome, BufferHome
  <2>2. ASSUME NEW t \in Tasks, CallerStep(t) PROVE Rest'
    BY <2>2, CallerStepHome
  <2>3. ASSUME NEW w \in Workers, WorkerStep(w) PROVE Rest'
    BY <2>3, QuietStepHome, LoopExitHome, PopHome, ReenterHome,
       ApplyReturnHome, LockGraphTaskHome, PropagateInvalidHome, PropagateHome,
       PushDummyHome
    DEF WorkerStep
  <2> QED BY <2>1, <2>2, <2>3 DEF Next
<1> QED BY <1>1, <1>2 DEF Rest, HomeInv

(***************************************************************************)
(* If every function has its inputs on one device and gradients are        *)
(* defined, a function is only ever called by the worker of that device,   *)
(* so no two workers are inside the same apply(), however many calls of    *)
(* execute() share the graph and wherever reentrant calls are made.        *)
(***************************************************************************)
THEOREM ApplyExclusion ==
  ASSUME SingleDevice, AllowUndefined = FALSE
  PROVE  Spec => []NoConcurrentApply
<1>1. Init => HomeInv
  BY HomeInit
<1>2. HomeInv /\ [Next]_vars => HomeInv'
  BY HomeStep
<1>3. HomeInv => NoConcurrentApply
  <2> SUFFICES ASSUME HomeInv, NEW f \in Fns, NEW w \in Workers, InApply(w, f)
               PROVE  w = Home(f)
    BY DEF NoConcurrentApply
  <2>1. PICK k \in 1 .. Len(stack[w]) :
          stack[w][k].fn = f /\ stack[w][k].pc \in {"apply", "nested"}
    BY DEF InApply
  <2> QED BY <2>1 DEF HomeInv, StackHome, FrameHome, HasFunction
<1> QED BY <1>1, <1>2, <1>3, PTL DEF Spec
=============================================================================
