------------------------------ MODULE Reducer -------------------------------
(***************************************************************************)
(* The gradient reducer of DistributedDataParallel                         *)
(* (torch/csrc/distributed/c10d/reducer.cpp), one per process, together    *)
(* with what drives it: forward() of torch/nn/parallel/distributed.py, the *)
(* backward pass whose gradient accumulators call its hooks, and the       *)
(* process group that reduces the buckets.                                 *)
(*                                                                         *)
(* mutex_ is held throughout a hook, prepare_for_backward() and the        *)
(* finalizer.  A hook is one step; prepare_for_backward() is one for the   *)
(* reset and one for every unused parameter, in the order of a hash table; *)
(* a finalizer is one step, taken when it is done waiting.  The value of a *)
(* gradient is the set of the contributions that went into it; <<p, r, n>> *)
(* is what replica r of process p computed for its n-th reduction.         *)
(***************************************************************************)
EXTENDS BucketAssignment

CONSTANTS
  Ranks,         (* processes of the group                                  *)
  Models,        (* modules to train: [tensors, replicas, graphs], the list *)
                 (* of parameters, the replicas of the module in a process, *)
                 (* and the sets of parameters its outputs may depend on    *)
  Limits,        (* bucket size limits                                      *)
  MaxForwards,   (* bound on the calls of forward() by a process            *)
  Passes,        (* backward passes a user may run after one forward()      *)
  OutsideUse,    (* processes whose loss may use parameters outside forward *)
  Failures,      (* processes in which functions of a backward pass throw   *)
  Retry          (* does the user go on after a reduction has timed out?    *)

ASSUME ReducerAssumption ==
  /\ IsFiniteSet(Ranks) /\ Ranks # {}
  /\ \A m \in Models : /\ m.tensors \in Seq(ToSet(m.tensors))
                       /\ m.tensors # <<>>
                       /\ IsFiniteSet(m.replicas) /\ m.replicas # {}
  /\ MaxForwards \in Nat /\ Passes \in Nat \ {0}
  /\ OutsideUse \subseteq Ranks /\ Failures \subseteq Ranks
  /\ Retry \in BOOLEAN

VARIABLES
  module,   (* the member of Models, the same in all processes             *)
  buckets_, (* the buckets, lists of indices into tensors                 *)
  find_unused_parameters,
            (* set, and forward() returns tensors to search from           *)
  reducer,  (* of every process: the fields of its Reducer                 *)
  grad,     (* of every process: the .grad of its parameters               *)
  user,     (* of every process: where its training loop is                *)
  outcome,  (* the tags of the collectives that are done, or have failed   *)
  used      (* history, by process and reduction: the gradients meant for it *)

fixed == <<module, buckets_, find_unused_parameters>>
vars == <<fixed, reducer, grad, user, outcome, used>>

tensors  == module.tensors
Replicas == module.replicas
BucketCount == Len(buckets_)
Buckets == 1 .. BucketCount

(* Parameters, <<replica, variable index>>; variable_locators_. *)
Params == Replicas \X DOMAIN tensors
BucketOf(x) == CHOOSE b \in Buckets : x[2] \in ToSet(buckets_[b])

Zero == {}
NoWork == 0

(* The constructor: DistributedDataParallel reverses the list of buckets,  *)
(* initialize_buckets() allocates their contents, and the counters are set *)
(* by prepare_for_backward().                                              *)
NewReducer ==
  [expect_autograd_hooks |-> FALSE,
   require_finalize |-> FALSE,
   has_marked_unused |-> FALSE,
   next_bucket |-> 1,
   pending |-> [b \in Buckets |-> [r \in Replicas |-> 0]],
   replicas_pending |-> [b \in Buckets |-> 0],
   contents |-> [x \in Params |-> Zero],
   work |-> [b \in Buckets |-> NoWork],
   posted |-> <<>>,     (* the buckets given to allreduce(), by tag *)
   callbacks |-> 0,     (* finalizers queued in the engine *)
   error |-> "none"]

Init ==
  /\ module \in Models
  /\ buckets_ = Reverse(compute_bucket_assignment_by_size(tensors, Limits))
  /\ find_unused_parameters \in BOOLEAN
  /\ reducer = [p \in Ranks |-> NewReducer]
  /\ grad = [p \in Ranks |-> [x \in Params |-> Zero]]
  /\ user = [p \in Ranks |->
       [pc |-> "idle", forwards |-> 0, passes |-> 0, seen |-> {},
        due |-> {}, throws |-> FALSE, outside |-> FALSE, strayed |-> FALSE,
        round |-> 0]]
  /\ outcome = [done |-> {}, failed |-> {}]
  /\ used = [p \in Ranks |-> [n \in 0 .. MaxForwards |-> {}]]

-----------------------------------------------------------------------------
(* Reducer, as functions of one process's fields.                          *)

(* Mutant: only the bucket itself is launched, not those that waited. *)
mark_bucket_ready_single(s, b) ==
  IF b # s.next_bucket THEN s
  ELSE [s EXCEPT !.next_bucket = b + 1,
                 !.work[b] = Len(s.posted) + 1,
                 !.posted = Append(@, b)]

(* Mutant: buckets are reduced as they become ready. *)
mark_bucket_ready_unordered(s, b) ==
  [s EXCEPT !.next_bucket = @ + 1,
            !.work[b] = Len(s.posted) + 1,
            !.posted = Append(@, b)]

(* "Keep going, until we either have kicked off reduction for all buckets, *)
(* or found a bucket that's not yet ready": the last bucket launched.      *)
LastReady(s) ==
  LET n == s.next_bucket
  IN  Max({m \in n .. BucketCount :
             \A c \in n .. m : s.replicas_pending[c] = 0} \cup {n - 1})

mark_bucket_ready(s, b) ==
  LET n == s.next_bucket
      last == LastReady(s)
  IN  CASE b < n -> [s EXCEPT !.error = "bucket launched twice"]
        [] b > n -> s
        [] b = n -> [s EXCEPT
             !.next_bucket = last + 1,
             !.work = [c \in Buckets |-> IF c \in n .. last
                                         THEN Len(s.posted) + 1 + (c - n)
                                         ELSE @[c]],
             !.posted = @ \o [i \in 1 .. (last + 1 - n) |-> n + i - 1]]

(* Mutant: a complete bucket replica ignores further variables. *)
MarkedTwice_ignored(s) == s

(* No variable of the bucket replica is pending any more: AT_ASSERT, and   *)
(* AT_ERROR "Expected to mark a variable ready only once".                 *)
MarkedTwice(s) ==
  [s EXCEPT !.require_finalize = TRUE,
            !.error = IF s.has_marked_unused THEN "marked twice"
                      ELSE "assertion has_marked_unused_parameters_"]

(* Mutant: without a gradient the bucket keeps what it holds. *)
BucketView_kept(s, x, value) == IF value = Zero THEN s.contents[x] ELSE value

(* The part of the bucket that belongs to x: bucket_view.copy_() of the    *)
(* gradient, or zero_() when it is undefined.                              *)
BucketView(s, x, value) == value

(* The part of mark_variable_ready() up to the test for the last bucket;   *)
(* value is the gradient of x, Zero when it is undefined.                  *)
CopyAndCount(s, x, value) ==
  LET b == BucketOf(x)
      s1 == [s EXCEPT !.require_finalize = TRUE,
                      !.contents[x] = BucketView(s, x, value),
                      !.pending[b][x[1]] = @ - 1]
      s2 == [s1 EXCEPT !.replicas_pending[b] = @ - 1]
  IN  IF s.pending[b][x[1]] = 0
      THEN MarkedTwice(s)
      ELSE IF s1.pending[b][x[1]] > 0 THEN s1
      ELSE IF s2.replicas_pending[b] > 0 THEN s2
      ELSE mark_bucket_ready(s2, b)

(* Mutant: the finalizer is queued by every variable of the last bucket. *)
MarkFromAutograd_any(s, x, value) ==
  IF ~s.expect_autograd_hooks THEN s
  ELSE LET t == CopyAndCount(s, x, value)
       IN  IF t.error = "none" /\ BucketOf(x) = BucketCount
           THEN [t EXCEPT !.callbacks = @ + 1] ELSE t

(* mark_variable_ready() called by a hook. *)
MarkFromAutograd(s, x, value) ==
  IF ~s.expect_autograd_hooks THEN s
  ELSE LET t == CopyAndCount(s, x, value)
       IN  IF t.error = "none" /\ t.next_bucket > BucketCount
           THEN [t EXCEPT !.callbacks = @ + 1] ELSE t

(* "Reset accounting" of prepare_for_backward(). *)
ResetAccounting(s) ==
  [s EXCEPT !.has_marked_unused = find_unused_parameters,
            !.expect_autograd_hooks = TRUE,
            !.next_bucket = 1,
            !.pending = [b \in Buckets |->
                          [r \in Replicas |-> Len(buckets_[b])]],
            !.replicas_pending = [b \in Buckets |-> Cardinality(Replicas)]]

(* finalize_backward(): its assertions, and then work->wait() of every     *)
(* bucket b in turn, which rethrows, or the gradients are copied back.  A  *)
(* second finalizer in the queue would meet the first assertion.           *)
FinalizeAsserts(s) ==
  /\ s.expect_autograd_hooks /\ s.require_finalize
  /\ s.next_bucket > BucketCount

Open(k) == k \notin outcome.done \cup outcome.failed
Failed(s, b) == ~FinalizeAsserts(s) \/ s.work[b] \in outcome.failed
Ended(s, b) == Failed(s, b) \/ ~Open(s.work[b])
FirstFailed(s) == Min({b \in Buckets : Failed(s, b)} \cup {BucketCount + 1})
FinalizeEnabled(s) ==
  \A b \in Buckets : b <= FirstFailed(s) => Ended(s, b)

Finalized(s) ==
  [s EXCEPT !.expect_autograd_hooks = FALSE,
            !.require_finalize = FALSE,
            !.callbacks = 0,
            !.error = IF FinalizeAsserts(s) /\ s.callbacks <= 1
                      THEN @ ELSE "assertion in finalize_backward"]

CopiedBack(s, g) ==
  [x \in Params |-> IF BucketOf(x) < FirstFailed(s) THEN s.contents[x]
                                                    ELSE g[x]]

-----------------------------------------------------------------------------
(* A process: its training loop and its engine.                            *)
Goto(p, where) == user' = [user EXCEPT ![p].pc = where]

(* Mutant: prepare_for_backward() does not look at require_finalize_. *)
PriorFinished_unchecked(s) == TRUE

PriorFinished(s) == ~s.require_finalize

(* The user zeroes the gradients and calls forward(), which computes       *)
(* outputs whose graph has the accumulators of seen, and resets the        *)
(* reducer.  When unused parameters are looked for, those not in seen are  *)
(* due to be marked.  A forward() may also follow one without backward().  *)
Forward(p, seen) ==
  /\ user[p].pc \in {"idle", "ready", "reduced"}
  /\ user[p].forwards < MaxForwards
  /\ PriorFinished(reducer[p])
  /\ LET unused == IF find_unused_parameters THEN Params \ seen ELSE {}
         n == Len(reducer[p].posted) \div BucketCount
     IN  /\ used' = [used EXCEPT ![p][n] = {}]
         /\ user' = [user EXCEPT ![p] =
              [user[p] EXCEPT !.pc = IF unused = {} THEN "ready" ELSE "marking",
                              !.forwards = @ + 1, !.passes = 0, !.seen = seen,
                              !.due = unused, !.outside = FALSE,
                              !.round = n]]
  /\ reducer' = [reducer EXCEPT ![p] = ResetAccounting(@)]
  /\ grad' = [grad EXCEPT ![p] = [x \in Params |-> Zero]]
  /\ UNCHANGED <<fixed, outcome>>

(* prepare_for_backward() marks an unused parameter; if that launched the  *)
(* last bucket it goes on to finalize.                                     *)
MarkUnused(p, x) ==
  /\ user[p].pc = "marking"
  /\ x \in user[p].due
  /\ LET s == CopyAndCount(reducer[p], x, grad[p][x])
     IN  /\ reducer' = [reducer EXCEPT ![p] = s]
         /\ user' = [user EXCEPT ![p] =
              [user[p] EXCEPT !.due = @ \ {x},
                              !.pc = IF s.error # "none" THEN "raised"
                                     ELSE IF s.next_bucket > BucketCount
                                          THEN "preparing"
                                     ELSE IF user[p].due = {x} THEN "ready"
                                     ELSE "marking"]]
  /\ UNCHANGED <<fixed, grad, outcome, used>>

(* "Expected to have finished reduction in the prior iteration": nothing   *)
(* is changed, and trying again would have the same result.                *)
ForwardRaises(p) ==
  /\ user[p].pc \in {"idle", "ready", "reduced"}
  /\ user[p].forwards < MaxForwards
  /\ ~PriorFinished(reducer[p])
  /\ Goto(p, "raised")
  /\ UNCHANGED <<fixed, reducer, grad, outcome, used>>

(* finalize_backward() ends, for p in the state where: called by           *)
(* prepare_for_backward() or as a callback of the engine.                  *)
Finalize(p, then) ==
  /\ FinalizeEnabled(reducer[p])
  /\ reducer' = [reducer EXCEPT ![p] = Finalized(@)]
  /\ grad' = [grad EXCEPT ![p] = CopiedBack(reducer[p], @)]
  /\ Goto(p, IF FirstFailed(reducer[p]) > BucketCount THEN then
             ELSE IF Retry THEN "idle" ELSE "raised")
  /\ UNCHANGED <<fixed, outcome, used>>

FinalizeInPrepare(p) ==
  /\ user[p].pc = "preparing"
  /\ Finalize(p, "reduced")

(* The user calls backward(): the hooks of these parameters will run.      *)
Backward(p, hooks) ==
  /\ user[p].pc \in {"ready", "reduced"}
  /\ user[p].passes < Passes
  /\ IF Passes = 1 THEN user[p].seen \subseteq hooks ELSE hooks # {}
  /\ p \in OutsideUse \/ hooks \subseteq user[p].seen
  /\ user' = [user EXCEPT ![p] =
       [user[p] EXCEPT !.pc = "backward", !.passes = @ + 1, !.due = hooks,
                       !.throws = FALSE]]
  /\ UNCHANGED <<fixed, reducer, grad, outcome, used>>

(* An accumulator adds to the gradient and its hook runs; when the hook    *)
(* throws, hooks of other threads may still follow.  A parameter deemed    *)
(* unused is used outside of forward(); it strays into the reduction when  *)
(* that is still open, and is ignored by the hook when it is not.          *)
Hook(p, x) ==
  /\ user[p].pc = "backward"
  /\ x \in user[p].due
  /\ LET g == grad[p][x] \cup {<<p, x[1], user[p].round>>}
         s == MarkFromAutograd(reducer[p], x, g)
         outside == find_unused_parameters /\ x \notin user[p].seen
     IN  /\ grad' = [grad EXCEPT ![p][x] = g]
         /\ reducer' = [reducer EXCEPT ![p] = s]
         /\ user' = [user EXCEPT ![p] =
              [user[p] EXCEPT !.due = @ \ {x},
                              !.throws = @ \/ s.error # "none",
                              !.outside = @ \/ outside,
                              !.strayed = @ \/ (outside /\
                                reducer[p].expect_autograd_hooks)]]
         /\ used' = IF reducer[p].expect_autograd_hooks
                    THEN [used EXCEPT ![p][user[p].round] = @ \cup {x}]
                    ELSE used
  /\ UNCHANGED <<fixed, outcome>>

FunctionThrows(p) ==
  /\ p \in Failures
  /\ user[p].pc = "backward" /\ user[p].due # {}
  /\ ~user[p].throws
  /\ user' = [user EXCEPT ![p].throws = TRUE]
  /\ UNCHANGED <<fixed, reducer, grad, outcome, used>>

(* execute() rethrows: the engine drops its callbacks. *)
BackwardThrows(p) ==
  /\ user[p].pc = "backward" /\ user[p].throws
  /\ user' = [user EXCEPT ![p] = [user[p] EXCEPT !.pc = "ready", !.due = {}]]
  /\ reducer' = [reducer EXCEPT ![p] =
                   [@ EXCEPT !.callbacks = 0, !.error = "none"]]
  /\ UNCHANGED <<fixed, grad, outcome, used>>

(* All functions have run; execute() calls the callbacks and returns. *)
PassDone(p) ==
  user[p].pc = "backward" /\ user[p].due = {} /\ ~user[p].throws

BackwardReturns(p) ==
  /\ PassDone(p) /\ reducer[p].callbacks = 0
  /\ Goto(p, "ready")
  /\ UNCHANGED <<fixed, reducer, grad, outcome, used>>

FinalizeInBackward(p) ==
  /\ PassDone(p) /\ reducer[p].callbacks > 0
  /\ Finalize(p, "reduced")

-----------------------------------------------------------------------------
(* The process group (external: Gloo).  The n-th collectives of all        *)
(* processes belong together.                                              *)
Posted(p, k) == Len(reducer[p].posted) >= k

(* The bucket p gave to its k-th allreduce(), where the variable i is in a *)
(* bucket b, and the sum of what is at the place j of all these buckets.   *)
BucketAt(p, k) == reducer[p].posted[k]
PlaceIn(b, i) == CHOOSE j \in DOMAIN buckets_[b] : buckets_[b][j] = i
SumAt(k, j) ==
  UNION {reducer[t[1]].contents[<<t[2], buckets_[BucketAt(t[1], k)][j]>>] :
           t \in Ranks \X Replicas}

(* All have called the k-th allreduce(): the contents are summed. *)
Reduce(k) ==
  /\ Open(k)
  /\ \A p \in Ranks : Posted(p, k)
  /\ \A p, q \in Ranks :
       Len(buckets_[BucketAt(p, k)]) = Len(buckets_[BucketAt(q, k)])
  /\ reducer' = [p \in Ranks |-> [reducer[p] EXCEPT !.contents =
       [x \in Params |-> IF BucketOf(x) = BucketAt(p, k)
                         THEN SumAt(k, PlaceIn(BucketOf(x), x[2]))
                         ELSE @[x]]]]
  /\ outcome' = [outcome EXCEPT !.done = @ \cup {k}]
  /\ UNCHANGED <<fixed, grad, user, used>>

(* The time limit of the group passes before all have called it. *)
TimeOut(k) ==
  /\ Open(k)
  /\ \E p \in Ranks : Posted(p, k)
  /\ \E p \in Ranks : ~Posted(p, k)
  /\ outcome' = [outcome EXCEPT !.failed = @ \cup {k}]
  /\ UNCHANGED <<fixed, reducer, grad, user, used>>

-----------------------------------------------------------------------------
Step(p) ==
  \/ (\E x \in Params : MarkUnused(p, x) \/ Hook(p, x))
  \/ FinalizeInPrepare(p)
  \/ BackwardThrows(p) \/ BackwardReturns(p) \/ FinalizeInBackward(p)

Group ==
  \E p \in Ranks : \E k \in DOMAIN reducer[p].posted : Reduce(k) \/ TimeOut(k)

Next ==
  \/ \E p \in Ranks :
       \/ \E g \in module.graphs : Forward(p, {x \in Params : x[2] \in g})
       \/ \E hooks \in SUBSET Params : Backward(p, hooks)
       \/ ForwardRaises(p) \/ FunctionThrows(p) \/ Step(p)
  \/ Group

Spec == Init /\ [][Next]_vars

-----------------------------------------------------------------------------
Assertions == {"assertion has_marked_unused_parameters_",
               "bucket launched twice", "assertion in finalize_backward"}

(* AssignmentSound: the buckets the reducer is given are lists of          *)
(* parameters, and a sound assignment.                                     *)
AssignmentSound ==
  /\ buckets_ \in Seq(Seq(DOMAIN tensors))
  /\ SoundAssignment(tensors, Limits, Reverse(buckets_))

(* SameBucket: "Buckets are reduced in a predetermined order that is       *)
(* identical across processes": whatever order the hooks run in, whichever *)
(* parameters a process leaves unused, and after exceptions, the n-th      *)
(* allreduce() of every process is for the same bucket.                    *)
SameBucket ==
  \A p, q \in Ranks : \A k \in DOMAIN reducer[p].posted :
    Posted(q, k) => reducer[p].posted[k] = reducer[q].posted[k]

(* AssertionsHold: no assertion of mark_variable_ready(),                  *)
(* mark_bucket_ready() and finalize_backward() fails; in particular a      *)
(* reduction is finalized once, and a variable is marked twice only if it  *)
(* was deemed unused.                                                      *)
AssertionsHold == \A p \in Ranks : reducer[p].error \notin Assertions

(* What the replicas of all processes computed for the n-th reduction of   *)
(* the variable i.                                                         *)
Contributions(i, n) ==
  {<<t[1], t[2], n>> : t \in {u \in Ranks \X Replicas :
                               <<u[2], i>> \in used[u[1]][n]}}

(* GradAveraged: when a reduction has been finalized without an error,     *)
(* each gradient is made of exactly what the replicas of all processes     *)
(* computed for this reduction, nothing stale and nothing missing, unless  *)
(* a process used parameters outside of forward() in an open reduction.    *)
GradAveraged ==
  \A p \in Ranks :
    user[p].pc = "reduced" /\ (\A q \in Ranks : ~user[q].strayed) =>
      \A x \in Params :
        grad[p][x] = Contributions(x[2], user[p].round)

(* OutsideUseDetected: "If any of those parameters are then used outside   *)
(* `forward`, this error condition is triggered": a backward pass that ran *)
(* the hook of a parameter deemed unused ends with an exception, in        *)
(* whatever order its hooks ran.  The code does so only if the outputs     *)
(* depend on some parameter: when they depend on none,                     *)
(* prepare_for_backward() has finalized the reduction and the hooks return *)
(* without a word.                                                         *)
OutsideUseDetected ==
  \A p \in Ranks :
    /\ user[p].outside /\ user[p].seen # {}
    /\ user[p].pc \in {"ready", "reduced"}
    => user[p].throws

(* ReductionComplete: a backward pass in which every parameter was         *)
(* accounted for, by a hook or as unused, returns with the reduction       *)
(* finalized, so that the next forward() is accepted.                      *)
ReductionComplete ==
  \A p \in Ranks :
    /\ user[p].pc = "ready" /\ user[p].passes > 0 /\ ~user[p].throws
    /\ find_unused_parameters \/ user[p].seen = Params
    => ~reducer[p].require_finalize

(* PriorReductionFinished: "Check that any prior reduction has finished":  *)
(* forward() succeeds only when no collective of this process is under     *)
(* way, which would still write to the buckets.                            *)
PriorReductionFinished ==
  [][\A p \in Ranks : user'[p].forwards # user[p].forwards =>
       \A k \in DOMAIN reducer[p].posted : ~Open(k)]_vars
=============================================================================
