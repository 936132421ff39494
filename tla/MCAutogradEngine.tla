------------------------- MODULE MCAutogradEngine -------------------------
(***************************************************************************)
(* Small graphs and call patterns for AutogradEngine.                      *)
(*                                                                         *)
(* The graph: a diamond over two devices, a -> {b, c} -> d, with b on GPU  *)
(* 0 and the rest on the CPU, an invalid edge at c, and a separate         *)
(* function e on GPU 0 whose edge leads to the leaf d.                     *)
(***************************************************************************)
EXTENDS AutogradEngine

MCFns == {"a", "b", "c", "d", "e"}

MCNextEdges ==
  [f \in MCFns |-> CASE f = "a" -> <<"b", "c">>
                     [] f = "b" -> <<"d">>
                     [] f = "c" -> <<NullFn, "d">>
                     [] f = "d" -> <<>>
                     [] f = "e" -> <<"d">>]

MCInputNr == [f \in MCFns |-> [i \in DOMAIN MCNextEdges[f] |-> 1]]

MCInputDevice == [f \in MCFns |-> IF f \in {"b", "e"} THEN <<0>> ELSE <<CPU>>]

MCSequenceNr ==
  [f \in MCFns \cup {GraphRoot} |->
     CASE f = "a" -> 3 [] f = "b" -> 2 [] f = "c" -> 1 [] f = "e" -> 2
       [] f = "d" -> 9 [] f = GraphRoot -> 4]

(***************************************************************************)
(* Calls.  "main" and "twin" are backward() calls through the diamond from *)
(* two threads; "grad" is a .grad() call for the inputs of a and b, which  *)
(* neither evaluates b nor queues c.  Reentrant: "inner" is a backward()   *)
(* that the apply() of b makes on the GPU worker, over e and d, so that    *)
(* the CPU worker finishes it; "gradinner" the same as a .grad(); "cross"  *)
(* the same as "inner", made by c on the CPU worker; "empty" has no roots. *)
(***************************************************************************)
MCRoots ==
  [t \in Tasks |-> CASE t \in {"main", "twin", "grad"} -> <<"a">>
                      [] t \in {"inner", "gradinner", "cross"} -> <<"e">>
                      [] t = "empty" -> <<>>]
MCRootInputNr == [t \in Tasks |-> [i \in DOMAIN MCRoots[t] |-> 1]]
MCOutputs ==
  [t \in Tasks |-> CASE t = "grad" -> {"a", "b"}
                      [] t = "gradinner" -> {"d"}
                      [] OTHER -> {}]
MCHost ==
  [t \in Tasks |-> CASE t \in {"main", "twin", "grad"} -> Caller
                      [] t \in {"inner", "gradinner", "empty"} -> "b"
                      [] t = "cross" -> "c"]
MCCreateGraph == [t \in Tasks |-> t = "main"]
===========================================================================
