-------------------------- MODULE MCFinalCallbacks --------------------------
(* Two runs, one after the other. *)
EXTENDS FinalCallbacks

Separate == [r \in Runs |-> NoRun]
=============================================================================
