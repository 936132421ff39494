---------------------------- MODULE EngineGraph ----------------------------
(***************************************************************************)
(* What Engine::compute_dependencies and GraphTask::init_to_execute        *)
(* (torch/csrc/autograd/engine.cpp) compute from an autograd graph.        *)
(*                                                                         *)
(* A graph is a function `next` from functions to the sequence of their    *)
(* next_edges; next[f][i] is the function edge i of f points to, or a      *)
(* value outside DOMAIN next when the edge is invalid (an undefined        *)
(* gradient slot).  `root` is the GraphRoot of one call of execute().      *)
(*                                                                         *)
(* The loops that compute these values in the code are in GraphTaskInit.   *)
(***************************************************************************)
EXTENDS Naturals, Sequences, FiniteSets

(* All edges leaving the functions in P, as pairs <<function, edge index>>. *)
EdgesOf(next, P) ==
  UNION {{p} \X DOMAIN next[p] : p \in P \cap DOMAIN next}

(* The functions the edges leaving P point to. *)
Successors(next, P) ==
  {next[e[1]][e[2]] : e \in EdgesOf(next, P)} \cap DOMAIN next

(* The edges leaving P that point to f. *)
EdgesInto(next, P, f) == {e \in EdgesOf(next, P) : next[e[1]][e[2]] = f}

(* Everything that can be reached from the functions in P, P included: the *)
(* smallest set with P that no edge leads out of.                          *)
Closed(next, P) ==
  {S \in SUBSET (DOMAIN next \cup P) :
     P \subseteq S /\ Successors(next, S) \subseteq S}
Closure(next, P) ==
  {f \in DOMAIN next \cup P : \A S \in Closed(next, P) : f \in S}

(* dependencies[f]: how many edges of the part of the graph that root      *)
(* reaches point to f; 0 stands for "no entry".                            *)
Dependencies(next, root) ==
  LET reached == Closure(next, {root})
  IN  [f \in DOMAIN next |-> Cardinality(EdgesInto(next, reached, f))]

(* exec_info[f].needed: some path of at least one edge leads from f to one *)
(* of the functions whose gradient is asked for.  init_to_execute visits   *)
(* only what root reaches, and marks root itself unconditionally.          *)
NeededFor(next, root, outputs) ==
  {root} \cup
  {f \in Closure(next, {root}) :
       Closure(next, Successors(next, {f})) \cap outputs # {}}

(* No function reaches itself: what autograd builds is always a DAG. *)
Acyclic(next) ==
  \A f \in DOMAIN next : f \notin Closure(next, Successors(next, {f}))

-----------------------------------------------------------------------------
(* A closure holds what it starts from, no edge leads out of it, and it is *)
(* the smallest such set.                                                  *)
LEMMA ClosureFacts ==
  ASSUME NEW next, NEW P
  PROVE  /\ P \subseteq Closure(next, P)
         /\ Closure(next, P) \subseteq DOMAIN next \cup P
         /\ Successors(next, Closure(next, P)) \subseteq Closure(next, P)
         /\ \A S \in Closed(next, P) : Closure(next, P) \subseteq S
<1>1. /\ P \subseteq Closure(next, P)
      /\ Closure(next, P) \subseteq DOMAIN next \cup P
      /\ \A S \in Closed(next, P) : Closure(next, P) \subseteq S
  BY DEF Closure, Closed
<1>2. Successors(next, Closure(next, P)) \subseteq Closure(next, P)
  <2> SUFFICES ASSUME NEW g \in Successors(next, Closure(next, P)),
                      NEW S \in Closed(next, P)
               PROVE  g \in S
    BY DEF Closure, Successors
  <2>1. PICK e \in EdgesOf(next, Closure(next, P)) : g = next[e[1]][e[2]]
    BY DEF Successors
  <2>2. e \in EdgesOf(next, S)
    <3>1. Closure(next, P) \subseteq S BY <1>1
    <3> QED BY <3>1 DEF EdgesOf
  <2>3. g \in DOMAIN next BY DEF Successors
  <2>4. g \in Successors(next, S) BY <2>1, <2>2, <2>3 DEF Successors
  <2> QED BY <2>4 DEF Closed
<1> QED BY <1>1, <1>2

(* A successor is a function that an edge of P leads to. *)
LEMMA SuccessorsMember ==
  ASSUME NEW next, NEW P, NEW g
  PROVE  g \in Successors(next, P) <=>
           /\ g \in DOMAIN next
           /\ \E p \in P \cap DOMAIN next : \E m \in DOMAIN next[p] : g = next[p][m]
<1>1. ASSUME g \in Successors(next, P)
      PROVE  /\ g \in DOMAIN next
             /\ \E p \in P \cap DOMAIN next : \E m \in DOMAIN next[p] : g = next[p][m]
  <2>1. PICK e \in EdgesOf(next, P) : g = next[e[1]][e[2]]
    BY <1>1 DEF Successors
  <2>2. PICK p \in P \cap DOMAIN next : e \in {p} \X DOMAIN next[p]
    BY <2>1 DEF EdgesOf
  <2>3. e[1] = p /\ e[2] \in DOMAIN next[p] BY <2>2
  <2> QED BY <1>1, <2>1, <2>3 DEF Successors
<1>2. ASSUME g \in DOMAIN next, NEW p \in P \cap DOMAIN next,
             NEW m \in DOMAIN next[p], g = next[p][m]
      PROVE  g \in Successors(next, P)
  <2>1. <<p, m>> \in {p} \X DOMAIN next[p] OBVIOUS
  <2>2. <<p, m>> \in EdgesOf(next, P) BY <2>1 DEF EdgesOf
  <2>3. <<p, m>>[1] = p /\ <<p, m>>[2] = m OBVIOUS
  <2> QED BY <1>2, <2>2, <2>3 DEF Successors
<1> QED BY <1>1, <1>2

(* What lies below f is its successors and what lies below them. *)
LEMMA ClosureStep ==
  ASSUME NEW next, NEW f, NEW h
  PROVE  h \in Closure(next, Successors(next, {f})) <=>
           \E s \in Successors(next, {f}) :
              h = s \/ h \in Closure(next, Successors(next, {s}))
<1> DEFINE below(s) == Closure(next, Successors(next, {s}))
           T == {g \in DOMAIN next : \E s \in Successors(next, {f}) :
                   g = s \/ g \in below(s)}
<1>1. ASSUME NEW s PROVE below(s) \subseteq DOMAIN next
  <2>1. Successors(next, {s}) \subseteq DOMAIN next BY DEF Successors
  <2> QED BY <2>1, ClosureFacts
<1>2. ASSUME NEW s PROVE Successors(next, {s}) \subseteq below(s)
                         /\ Successors(next, below(s)) \subseteq below(s)
  BY ClosureFacts
<1>3. ASSUME NEW s, NEW S, s \in S
      PROVE  Successors(next, {s}) \subseteq Successors(next, S)
  BY <1>3, SuccessorsMember
<1> HIDE DEF below
<1>4. T \in Closed(next, Successors(next, {f}))
  <2>1. Successors(next, {f}) \subseteq T BY SuccessorsMember
  <2>2. ASSUME NEW g \in Successors(next, T) PROVE g \in T
    <3>1. PICK p \in T \cap DOMAIN next : \E m \in DOMAIN next[p] : g = next[p][m]
      BY SuccessorsMember
    <3>2. g \in DOMAIN next BY SuccessorsMember
    <3>3. g \in Successors(next, {p}) BY <3>1, <3>2, SuccessorsMember
    <3>4. PICK s \in Successors(next, {f}) : p = s \/ p \in below(s) BY <3>1
    <3>5. g \in below(s)
      <4>1. CASE p = s BY <1>2, <3>3, <4>1
      <4>2. CASE p \in below(s)
        <5>1. g \in Successors(next, below(s)) BY <1>3, <3>3, <4>2
        <5> QED BY <1>2, <5>1
      <4> QED BY <3>4, <4>1, <4>2
    <3> QED BY <3>2, <3>4, <3>5
  <2> HIDE DEF T
  <2>3. T \subseteq DOMAIN next BY DEF T
  <2> QED BY <2>1, <2>2, <2>3 DEF Closed
<1>5. below(f) \subseteq T BY <1>4, ClosureFacts DEF below
<1>6. ASSUME NEW s \in Successors(next, {f}) PROVE s \in below(f) /\ below(s) \subseteq below(f)
  <2>1. s \in below(f) BY <1>2
  <2>2. Successors(next, {s}) \subseteq below(f)
    <3>1. Successors(next, {s}) \subseteq Successors(next, below(f)) BY <1>3, <2>1
    <3> QED BY <1>2, <3>1
  <2>3. below(f) \in Closed(next, Successors(next, {s}))
    BY <1>1, <1>2, <2>2 DEF Closed
  <2>4. below(s) \subseteq below(f) BY <2>3, ClosureFacts DEF below
  <2> QED BY <2>1, <2>4
<1> QED BY <1>5, <1>6 DEF below
=============================================================================
