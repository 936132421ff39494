---------------------------- MODULE StreamMemory ----------------------------
(***************************************************************************)
(* What the CUDA caching allocator promises its users ("This will ensure   *)
(* that the block is not reused before each recorded stream completes      *)
(* work"): memory is handed out only when it is part of no allocation, and *)
(* when the work still queued on it belongs to the stream it is handed out *)
(* for, which will run what follows after that work.                       *)
(***************************************************************************)
EXTENDS Integers, Sequences

CONSTANT Streams

VARIABLES
  live,   (* of every pointer handed out: [size, stream, users]            *)
  queued  (* of every stream: the ranges [ptr, size] its kernels will use  *)

vars == <<live, queued>>

(* A pointer is <<segment, offset>>. *)
Overlap(p, m, q, n) == p[1] = q[1] /\ p[2] < q[2] + n /\ q[2] < p[2] + m

Init ==
  /\ live = <<>>
  /\ queued = [s \in Streams |-> <<>>]

(* The streams may run on while the allocator waits for them. *)
Advance ==
  \A s \in Streams : \E k \in 0 .. Len(queued[s]) :
    queued'[s] = SubSeq(queued[s], k + 1, Len(queued[s]))

(* live' is what is left after the pointers in gone have been freed. *)
Without(gone) ==
  \A q \in DOMAIN live \ gone : q \in DOMAIN live' /\ live'[q] = live[q]

Malloc(p, gone) ==
  /\ Without(gone)
  /\ DOMAIN live' = (DOMAIN live \ gone) \cup {p}
  /\ p \notin DOMAIN live \ gone
  /\ live'[p].users = {}
  /\ \A q \in DOMAIN live' \ {p} :
       ~Overlap(p, live'[p].size, q, live'[q].size)
  /\ Advance
  /\ \A s \in Streams \ {live'[p].stream} : \A i \in 1 .. Len(queued'[s]) :
       ~Overlap(p, live'[p].size, queued'[s][i].ptr, queued'[s][i].size)

(* free(), emptyCache() and a malloc() that fails. *)
Free(gone) ==
  /\ Without(gone)
  /\ DOMAIN live' = DOMAIN live \ gone
  /\ Advance

(* A kernel that uses the memory is queued, and its stream recorded. *)
Use(p, s) ==
  /\ queued' = [queued EXCEPT ![s] =
                  Append(@, [ptr |-> p, size |-> live[p].size])]
  /\ live' = [live EXCEPT ![p].users = (@ \cup {s}) \ {live[p].stream}]

Run == Advance /\ UNCHANGED live

Next ==
  \/ \E gone \in SUBSET DOMAIN live :
       Free(gone) \/ \E p \in DOMAIN live' : Malloc(p, gone)
  \/ \E p \in DOMAIN live, s \in Streams : Use(p, s)
  \/ Run

Spec == Init /\ [][Next]_vars
=============================================================================
