---------------------------- MODULE ReducerProofs ----------------------------
(***************************************************************************)
(* Theorems about Reducer, for every model, every number of processes and  *)
(* every order of the hooks.  What compute_bucket_assignment_by_size()     *)
(* computes is a fold, which the provers cannot follow: the theorems       *)
(* assume of it what AssignmentSound says.                                 *)
(***************************************************************************)
EXTENDS Reducer, FiniteSetTheorems, SequenceTheorems, WellFoundedInduction, TLAPS

-----------------------------------------------------------------------------
(***************************************************************************)
(* Buckets and parameters.                                                 *)
(***************************************************************************)

(* The assignment as the proofs use it: every parameter is in one place of *)
(* one bucket.                                                             *)
Assigned ==
  /\ module \in Models
  /\ find_unused_parameters \in BOOLEAN
  /\ BucketCount \in Nat \ {0} /\ DOMAIN buckets_ = Buckets
  /\ \A b \in Buckets : /\ buckets_[b] \in Seq(DOMAIN tensors)
                        /\ buckets_[b] # <<>>
  /\ \A b \in Buckets : \A m, n \in DOMAIN buckets_[b] :
       buckets_[b][m] = buckets_[b][n] => m = n
  /\ \A i \in DOMAIN tensors : \E b \in Buckets : i \in ToSet(buckets_[b])
  /\ \A b, c \in Buckets : \A i \in ToSet(buckets_[b]) :
       i \in ToSet(buckets_[c]) => b = c

(* The parameters of a bucket replica. *)
Slot(b, r) == {x \in Params : x[1] = r /\ BucketOf(x) = b}

(* AssignmentSound is about the list before its reversal. *)
LEMMA SoundIsAssigned ==
  ASSUME Init, AssignmentSound
  PROVE  Assigned
<1> DEFINE rev == Reverse(buckets_)
           in(i) == {b \in DOMAIN rev : i \in ToSet(rev[b])}
<1>1. /\ buckets_ \in Seq(Seq(DOMAIN tensors))
      /\ BucketCount \in Nat /\ DOMAIN buckets_ = Buckets
      /\ \A b \in Buckets : buckets_[b] \in Seq(DOMAIN tensors)
  BY DEF AssignmentSound, BucketCount, Buckets
<1>2. /\ DOMAIN rev = Buckets
      /\ \A b \in Buckets : rev[b] = buckets_[BucketCount + 1 - b]
  BY <1>1 DEF Reverse, Buckets, BucketCount
<1>3. /\ \A i \in DOMAIN tensors : Cardinality(in(i)) = 1
      /\ \A b \in DOMAIN rev :
           /\ rev[b] # <<>>
           /\ \A m, n \in DOMAIN rev[b] : m < n => rev[b][m] < rev[b][n]
  BY Zenon DEF AssignmentSound, SoundAssignment
<1>4. module \in Models /\ find_unused_parameters \in BOOLEAN
  BY DEF Init
<1>5. DOMAIN tensors \subseteq Nat
  BY <1>4, ReducerAssumption DEF tensors
<1>6. \A b \in Buckets : BucketCount + 1 - b \in Buckets
  BY <1>1 DEF Buckets
<1>7. \A b \in Buckets : buckets_[b] = rev[BucketCount + 1 - b]
  BY <1>1, <1>2, <1>6 DEF Buckets
<1>8. \A b \in Buckets : buckets_[b] # <<>>
  BY <1>2, <1>3, <1>6, <1>7
<1>9. ASSUME NEW b \in Buckets, NEW m \in DOMAIN buckets_[b],
             NEW n \in DOMAIN buckets_[b], buckets_[b][m] = buckets_[b][n]
      PROVE  m = n
  <2>1. PICK c \in DOMAIN rev : buckets_[b] = rev[c]
    BY <1>2, <1>6, <1>7
  <2>2. /\ m < n => rev[c][m] < rev[c][n]
        /\ n < m => rev[c][n] < rev[c][m]
    BY <2>1, <1>3
  <2>3. buckets_[b][m] \in Nat /\ m \in Nat /\ n \in Nat
    BY <1>1, <1>5
  <2> QED
    BY <1>9, <2>1, <2>2, <2>3
<1>10. ASSUME NEW i \in DOMAIN tensors
       PROVE  \E b \in DOMAIN rev : in(i) = {b}
  <2>1. IsFiniteSet(in(i))
    <3>1. IsFiniteSet(1 .. BucketCount)
      BY <1>1, FS_Interval
    <3> QED
      BY <3>1, <1>2, FS_Subset DEF Buckets
  <2>2. Cardinality(in(i)) = 1
    BY <1>3
  <2>3. \E b : in(i) = {b}
    BY <2>1, <2>2, FS_Singleton
  <2> QED
    BY <2>3
<1>11. ASSUME NEW i \in DOMAIN tensors
       PROVE  \E b \in Buckets : i \in ToSet(buckets_[b])
  BY <1>10, <1>2, <1>6
<1>12. ASSUME NEW b \in Buckets, NEW c \in Buckets,
              NEW i \in ToSet(buckets_[b]), i \in ToSet(buckets_[c])
       PROVE  b = c
  <2>1. i \in DOMAIN tensors
    BY <1>1 DEF ToSet
  <2>2. PICK d \in DOMAIN rev : in(i) = {d}
    BY <2>1, <1>10
  <2>3. BucketCount + 1 - b \in in(i) /\ BucketCount + 1 - c \in in(i)
    BY <1>12, <1>2, <1>6, <1>7
  <2>4. BucketCount + 1 - b = BucketCount + 1 - c
    BY <2>2, <2>3
  <2>5. b \in Nat /\ c \in Nat
    BY <1>1 DEF Buckets
  <2> QED
    BY <1>1, <2>4, <2>5
<1>13. BucketCount # 0
  <2>1. tensors \in Seq(ToSet(tensors)) /\ tensors # <<>>
    BY <1>4, ReducerAssumption DEF tensors
  <2>2. 1 \in DOMAIN tensors
    BY <2>1
  <2> QED
    BY <1>1, <1>11, <2>2 DEF Buckets
<1> QED
  BY <1>1, <1>4, <1>8, <1>9, <1>11, <1>12, <1>13 DEF Assigned

(* variable_locators_: a parameter is in the bucket it is said to be in. *)
LEMMA BucketOfType ==
  ASSUME Assigned, NEW x \in Params
  PROVE  /\ BucketOf(x) \in Buckets
         /\ x[2] \in ToSet(buckets_[BucketOf(x)])
         /\ x[1] \in Replicas
         /\ x[2] \in DOMAIN tensors
         /\ x = <<x[1], x[2]>>
         /\ x \in Slot(BucketOf(x), x[1])
<1>1. x[1] \in Replicas /\ x[2] \in DOMAIN tensors /\ x = <<x[1], x[2]>>
  BY DEF Params
<1>2. \E b \in Buckets : x[2] \in ToSet(buckets_[b])
  BY <1>1 DEF Assigned
<1>3. BucketOf(x) \in Buckets /\ x[2] \in ToSet(buckets_[BucketOf(x)])
  BY <1>2, Zenon DEF BucketOf
<1> QED
  BY <1>1, <1>3 DEF Slot

LEMMA ReplicasFinite ==
  ASSUME Assigned
  PROVE  IsFiniteSet(Replicas) /\ Replicas # {}
BY ReducerAssumption DEF Assigned, Replicas

(* A bucket replica has as many parameters as the bucket is long. *)
LEMMA SlotSize ==
  ASSUME Assigned, NEW b \in Buckets, NEW r \in Replicas
  PROVE  /\ IsFiniteSet(Slot(b, r))
         /\ Cardinality(Slot(b, r)) = Len(buckets_[b])
         /\ Len(buckets_[b]) \in Nat \ {0}
<1> DEFINE n == Len(buckets_[b])
           f == [k \in 1 .. n |-> <<r, buckets_[b][k]>>]
<1>1. /\ n \in Nat \ {0} /\ DOMAIN buckets_[b] = 1 .. n
      /\ \A k \in 1 .. n : buckets_[b][k] \in DOMAIN tensors
  BY DEF Assigned
<1>2. ASSUME NEW k \in 1 .. n
      PROVE  f[k] \in Slot(b, r)
  <2>1. f[k] \in Params /\ f[k][1] = r /\ f[k][2] \in ToSet(buckets_[b])
    BY <1>1 DEF Params, ToSet
  <2>2. f[k][2] \in ToSet(buckets_[BucketOf(f[k])]) /\ BucketOf(f[k]) \in Buckets
    BY <2>1, BucketOfType
  <2>3. BucketOf(f[k]) = b
    BY <2>1, <2>2 DEF Assigned
  <2> QED
    BY <2>1, <2>3 DEF Slot
<1>3. f \in [1 .. n -> Slot(b, r)]
  BY <1>2
<1>4. \A k, l \in 1 .. n : f[k] = f[l] => k = l
  BY <1>1 DEF Assigned
<1>5. ASSUME NEW x \in Slot(b, r)
      PROVE  \E k \in 1 .. n : f[k] = x
  <2>1. x \in Params /\ x[1] = r /\ BucketOf(x) = b
    BY DEF Slot
  <2>2. x[2] \in ToSet(buckets_[b]) /\ x = <<r, x[2]>>
    BY <2>1, BucketOfType
  <2>3. PICK k \in 1 .. n : x[2] = buckets_[b][k]
    BY <2>2, <1>1 DEF ToSet
  <2>4. f[k] = x
    BY <2>2, <2>3
  <2> QED
    BY <2>4
<1>6. f \in Bijection(1 .. n, Slot(b, r))
  BY <1>3, <1>4, <1>5 DEF Bijection, Injection, IsInjective, Surjection
<1>7. IsFiniteSet(1 .. n) /\ Cardinality(1 .. n) = n
  BY <1>1, FS_Interval
<1>8. ExistsBijection(1 .. n, Slot(b, r))
  BY <1>6 DEF ExistsBijection
<1>9. IsFiniteSet(Slot(b, r)) /\ Cardinality(Slot(b, r)) = Cardinality(1 .. n)
  BY <1>7, <1>8, FS_Bijection
<1> QED
  BY <1>1, <1>7, <1>9

-----------------------------------------------------------------------------
(***************************************************************************)
(* The reducer of one process.                                             *)
(***************************************************************************)
Pcs == {"idle", "marking", "preparing", "ready", "backward", "reduced",
        "raised"}
Errors == Assertions \cup {"none", "marked twice"}
Contribution == Ranks \X Replicas \X Nat

ReducerType ==
  [expect_autograd_hooks : BOOLEAN, require_finalize : BOOLEAN,
   has_marked_unused : BOOLEAN, next_bucket : 1 .. (BucketCount + 1),
   pending : [Buckets -> [Replicas -> Nat]],
   replicas_pending : [Buckets -> Nat],
   contents : [Params -> SUBSET Contribution],
   work : [Buckets -> Nat], posted : Seq(Buckets), callbacks : Nat,
   error : Errors]

UserType ==
  [pc : Pcs, forwards : Nat, passes : Nat, seen : SUBSET Params,
   due : SUBSET Params, throws : BOOLEAN, outside : BOOLEAN,
   strayed : BOOLEAN, round : Nat]

(* The counters agree: a bucket waits for the replicas that wait for       *)
(* parameters, the buckets before next_bucket wait for nothing, and it for *)
(* something.                                                              *)
Waiting(s, b) == {r \in Replicas : s.pending[b][r] > 0}

Counts(s) ==
  /\ \A b \in Buckets : s.replicas_pending[b] = Cardinality(Waiting(s, b))
  /\ \A b \in Buckets : b < s.next_bucket => s.replicas_pending[b] = 0
  /\ s.next_bucket \in Buckets => s.replicas_pending[s.next_bucket] > 0

(* A set of naturals has a least element. *)
LEMMA MinExists ==
  ASSUME NEW S \in SUBSET Nat, S # {}
  PROVE  \E m \in S : \A k \in S : m <= k
<1> DEFINE R == {ss \in Nat \X Nat : ss[1] < ss[2]}
<1>1. R = OpToRel(<, Nat)
  BY Zenon DEF OpToRel
<1>2. IsWellFoundedOn(R, Nat)
  BY <1>1, NatLessThanWellFounded, Zenon
<1> HIDE DEF R
<1>3. PICK m \in S : \A y \in S : ~ (<<y, m>> \in R)
  BY <1>2, WFMin
<1>4. ASSUME NEW k \in S PROVE m <= k
  <2>1. <<k, m>> \notin R
    BY <1>3
  <2>2. ~ (<<k, m>>[1] < <<k, m>>[2])
    BY <2>1 DEF R
  <2>3. ~ (k < m) /\ k \in Nat /\ m \in Nat
    BY <2>2
  <2> QED
    BY <2>3
<1> QED
  BY <1>4

(* A bounded set of naturals has a greatest element, and Max is it. *)
LEMMA MaxOf ==
  ASSUME NEW S \in SUBSET Nat, S # {}, NEW n \in Nat, \A k \in S : k <= n
  PROVE  Max(S) \in S /\ \A k \in S : k <= Max(S)
<1> DEFINE T == {j \in Nat : n - j \in S}
<1>1. PICK e \in S : e \in Nat /\ e <= n
  OBVIOUS
<1>2. n - e \in T
  BY <1>1
<1>3. PICK m \in T : \A k \in T : m <= k
  BY <1>2, MinExists
<1>4. PICK x \in S : x = n - m
  BY <1>3
<1>5. ASSUME NEW y \in S
      PROVE  x >= y
  <2>1. y \in Nat /\ y <= n /\ n - y \in Nat /\ n - (n - y) = y
    OBVIOUS
  <2>2. n - y \in T
    BY <2>1
  <2>3. m <= n - y /\ m \in Nat
    BY <1>3, <2>2
  <2> QED
    BY <1>4, <2>1, <2>3
<1>6. \E z \in S : \A y \in S : z >= y
  BY <1>5
<1>7. Max(S) \in S /\ \A y \in S : Max(S) >= y
  BY <1>6, Zenon DEF Max
<1> QED
  BY <1>7

(* Where the loop of mark_bucket_ready() stops. *)
LEMMA LastReadyStops ==
  ASSUME Assigned, NEW s \in ReducerType, s.next_bucket \in Buckets,
         s.replicas_pending[s.next_bucket] = 0
  PROVE  /\ LastReady(s) \in s.next_bucket .. BucketCount
         /\ \A c \in s.next_bucket .. LastReady(s) : s.replicas_pending[c] = 0
         /\ LastReady(s) < BucketCount =>
              s.replicas_pending[LastReady(s) + 1] > 0
<1>1. PICK n \in Buckets : n = s.next_bucket
  OBVIOUS
<1>2. PICK B \in Nat : B = BucketCount
  BY DEF Assigned
<1> DEFINE S == {m \in n .. B : \A c \in n .. m : s.replicas_pending[c] = 0}
                  \cup {n - 1}
<1>3. n \in 1 .. B
  BY <1>2 DEF Buckets
<1>4. S \in SUBSET Nat /\ S # {} /\ \A k \in S : k <= B
  BY <1>2, <1>3
<1>5. Max(S) \in S /\ \A k \in S : k <= Max(S)
  BY <1>2, <1>4, MaxOf
<1>6. LastReady(s) = Max(S)
  BY <1>1, <1>2 DEF LastReady
<1> HIDE DEF S
<1>7. PICK l \in S : l = Max(S)
  BY <1>5
<1>8. n \in S
  BY <1>1, <1>3 DEF S
<1>9. l \in n .. B /\ \A c \in n .. l : s.replicas_pending[c] = 0
  BY <1>3, <1>5, <1>7, <1>8 DEF S
<1>10. ASSUME l < B
       PROVE  s.replicas_pending[l + 1] > 0
  <2>1. s.replicas_pending[l + 1] \in Nat
    BY <1>2, <1>3, <1>9, <1>10 DEF ReducerType, Buckets
  <2>2. SUFFICES ASSUME s.replicas_pending[l + 1] = 0
                 PROVE  FALSE
    BY <2>1
  <2>3. \A c \in n .. (l + 1) : s.replicas_pending[c] = 0
    BY <1>3, <1>9, <2>2
  <2>4. l + 1 \in S
    BY <1>3, <1>9, <1>10, <2>3 DEF S
  <2>5. l + 1 <= l
    BY <1>5, <1>7, <2>4
  <2> QED
    BY <2>5, <1>9, <1>3
<1> QED
  BY <1>1, <1>2, <1>6, <1>7, <1>9, <1>10

(* t is s after buckets have been launched: those from s.next_bucket on    *)
(* that wait for nothing.                                                  *)
Ascending(m, n) == [i \in 1 .. (n + 1 - m) |-> m + i - 1]

Kept(s, t) ==
  /\ t.expect_autograd_hooks = s.expect_autograd_hooks
  /\ t.has_marked_unused = s.has_marked_unused
  /\ t.callbacks = s.callbacks

LaunchedFrom(s, t) ==
  /\ s.next_bucket <= t.next_bucket
  /\ t.posted = s.posted \o Ascending(s.next_bucket, t.next_bucket - 1)
  /\ \A c \in Buckets :
       t.work[c] = IF c \in s.next_bucket .. (t.next_bucket - 1)
                   THEN Len(s.posted) + 1 + (c - s.next_bucket)
                   ELSE s.work[c]

Launched(s, t) ==
  /\ t \in ReducerType
  /\ Kept(s, t) /\ LaunchedFrom(s, t)
  /\ t.require_finalize = s.require_finalize
  /\ t.error = s.error
  /\ t.pending = s.pending
  /\ t.replicas_pending = s.replicas_pending
  /\ t.contents = s.contents
  /\ \A c \in Buckets : c < t.next_bucket => s.replicas_pending[c] = 0
  /\ t.next_bucket \in Buckets => s.replicas_pending[t.next_bucket] > 0

LEMMA NothingLaunched ==
  ASSUME NEW s \in ReducerType, BucketCount \in Nat
  PROVE  LaunchedFrom(s, s)
<1>1. s.next_bucket \in Nat /\ s.posted \in Seq(Buckets)
  BY DEF ReducerType
<1>2. ASSUME NEW n \in Nat
      PROVE  Ascending(n, n - 1) = <<>> /\ n <= n /\ n .. (n - 1) = {}
  BY DEF Ascending
<1>3. s.posted \o <<>> = s.posted
  BY <1>1
<1>4. /\ Ascending(s.next_bucket, s.next_bucket - 1) = <<>>
      /\ s.next_bucket <= s.next_bucket
      /\ s.next_bucket .. (s.next_bucket - 1) = {}
  BY <1>1, <1>2
<1> QED
  BY <1>3, <1>4, Zenon DEF LaunchedFrom

(* mark_bucket_ready(), called when b waits for nothing any more. *)
LEMMA MarkBucketReady ==
  ASSUME Assigned, NEW s \in ReducerType, NEW b \in Buckets,
         s.replicas_pending[b] = 0,
         \A c \in Buckets : c < s.next_bucket => s.replicas_pending[c] = 0,
         s.next_bucket <= b,
         s.next_bucket # b => s.replicas_pending[s.next_bucket] > 0
  PROVE  Launched(s, mark_bucket_ready(s, b))
<1>0. BucketCount \in Nat
  BY DEF Assigned
<1>1. PICK n \in Nat : n = s.next_bucket
  BY <1>0 DEF ReducerType
<1>2. b \in Nat /\ n <= b /\ b <= BucketCount /\ n >= 1 /\ BucketCount \in Nat
  <2>1. BucketCount \in Nat /\ b \in 1 .. BucketCount
    BY DEF Assigned, Buckets
  <2>2. n \in 1 .. (BucketCount + 1)
    BY <1>1 DEF ReducerType
  <2> QED
    BY <1>1, <2>1, <2>2
<1>3. CASE b # n
  <2>1. mark_bucket_ready(s, b) = s
    <3>1. ~ (b < s.next_bucket) /\ b > s.next_bucket /\ b # s.next_bucket
      BY <1>1, <1>2, <1>3
    <3> QED
      BY <3>1 DEF mark_bucket_ready
  <2>2. LaunchedFrom(s, s)
    BY <1>0, NothingLaunched
  <2> QED
    BY <1>1, <1>2, <1>3, <2>1, <2>2 DEF Launched, Kept
<1>4. CASE b = n
  <2>1. PICK l \in n .. BucketCount : l = LastReady(s)
    BY <1>1, <1>4, LastReadyStops
  <2>2. /\ \A c \in n .. l : s.replicas_pending[c] = 0
        /\ l < BucketCount => s.replicas_pending[l + 1] > 0
    BY <1>1, <1>4, <2>1, LastReadyStops
  <2>3. PICK w \in [Buckets -> Nat] :
          \A c \in Buckets : w[c] = IF c \in n .. l
                                    THEN Len(s.posted) + 1 + (c - n)
                                    ELSE s.work[c]
    <3>1. ASSUME NEW c \in Buckets, c \in n .. l
          PROVE  Len(s.posted) + 1 + (c - n) \in Nat
      BY <1>1, <1>2, <2>1, <3>1 DEF ReducerType
    <3>2. \A c \in Buckets : s.work[c] \in Nat
      BY DEF ReducerType
    <3>3. [c \in Buckets |-> IF c \in n .. l THEN Len(s.posted) + 1 + (c - n)
                             ELSE s.work[c]] \in [Buckets -> Nat]
      BY <3>1, <3>2
    <3> QED
      BY <3>3
  <2>4. PICK q \in Seq(Buckets) : q = s.posted \o Ascending(n, l)
    <3>1. \A i \in 1 .. (l + 1 - n) : n + i - 1 \in Buckets
      BY <1>2, <2>1 DEF Buckets
    <3>2. Ascending(n, l) \in Seq(Buckets)
      BY <1>2, <2>1, <3>1 DEF Ascending
    <3>3. s.posted \in Seq(Buckets)
      BY DEF ReducerType
    <3>4. s.posted \o Ascending(n, l) \in Seq(Buckets)
      BY <3>2, <3>3, ConcatProperties
    <3> QED
      BY <3>4
  <2>5. mark_bucket_ready(s, b) =
          [s EXCEPT !.next_bucket = l + 1, !.work = w, !.posted = q]
    <3>1. [c \in Buckets |-> IF c \in n .. l THEN Len(s.posted) + 1 + (c - n)
                             ELSE s.work[c]] = w
      BY <2>3
    <3>2. s.posted \o [i \in 1 .. (l + 1 - n) |-> n + i - 1] = q
      BY <2>4 DEF Ascending
    <3>3. ~ (b < s.next_bucket) /\ ~ (b > s.next_bucket) /\ b = s.next_bucket
      BY <1>1, <1>2, <1>4
    <3> QED
      BY <1>1, <2>1, <3>1, <3>2, <3>3 DEF mark_bucket_ready
  <2>6. PICK t : t = [s EXCEPT !.next_bucket = l + 1, !.work = w, !.posted = q]
    OBVIOUS
  <2>7. l + 1 \in 1 .. (BucketCount + 1)
    BY <1>2, <2>1
  <2>8. /\ t \in ReducerType /\ t.next_bucket = l + 1 /\ t.work = w
        /\ t.posted = q
        /\ t.require_finalize = s.require_finalize
        /\ t.error = s.error
        /\ t.pending = s.pending
        /\ t.replicas_pending = s.replicas_pending
        /\ t.contents = s.contents
        /\ Kept(s, t)
    BY <2>6, <2>7 DEF ReducerType, Kept
  <2>9. l + 1 - 1 = l
    BY <2>1
  <2>10. LaunchedFrom(s, t)
    <3>1. s.next_bucket <= t.next_bucket
      BY <1>1, <1>2, <2>1, <2>8
    <3> QED
      BY <1>1, <2>3, <2>4, <2>8, <2>9, <3>1 DEF LaunchedFrom
  <2>11. \A c \in Buckets : c < t.next_bucket => s.replicas_pending[c] = 0
    <3>1. SUFFICES ASSUME NEW c \in Buckets, c < l + 1
                   PROVE  s.replicas_pending[c] = 0
      BY <2>8
    <3>2. c < n \/ c \in n .. l
      BY <1>1, <1>2, <2>1, <3>1 DEF Buckets
    <3> QED
      BY <1>1, <2>2, <3>2
  <2>12. t.next_bucket \in Buckets => s.replicas_pending[t.next_bucket] > 0
    BY <2>1, <2>2, <2>8, <1>2 DEF Buckets
  <2> QED
    BY <2>5, <2>6, <2>8, <2>10, <2>11, <2>12 DEF Launched
<1> QED
  BY <1>3, <1>4

(* mark_variable_ready() has counted x, or has found nothing to count. *)
CountedDown(s, t, x, value) ==
  /\ t \in ReducerType
  /\ Kept(s, t) /\ LaunchedFrom(s, t) /\ Counts(t)
  /\ t.require_finalize = TRUE
  /\ t.error = s.error
  /\ s.pending[BucketOf(x)][x[1]] > 0
  /\ t.pending = [s.pending EXCEPT ![BucketOf(x)][x[1]] = @ - 1]
  /\ t.contents = [s.contents EXCEPT ![x] = value]

Repeated(s, t, x) ==
  /\ t \in ReducerType
  /\ Kept(s, t) /\ Counts(t)
  /\ t.require_finalize = TRUE
  /\ t.error = IF s.has_marked_unused THEN "marked twice"
               ELSE "assertion has_marked_unused_parameters_"
  /\ s.pending[BucketOf(x)][x[1]] = 0
  /\ t.pending = s.pending /\ t.contents = s.contents
  /\ t.next_bucket = s.next_bucket
  /\ t.posted = s.posted /\ t.work = s.work

LEMMA WaitingFinite ==
  ASSUME Assigned, NEW s, NEW b
  PROVE  IsFiniteSet(Waiting(s, b)) /\ Cardinality(Waiting(s, b)) \in Nat
<1>1. IsFiniteSet(Replicas)
  BY ReplicasFinite
<1>2. Waiting(s, b) \in SUBSET Replicas
  BY DEF Waiting
<1> QED
  BY <1>1, <1>2, FS_Subset, FS_CardinalityType

LEMMA CopyAndCountCounts ==
  ASSUME Assigned, NEW s \in ReducerType, Counts(s), NEW x \in Params,
         NEW value \in SUBSET Contribution
  PROVE  LET t == CopyAndCount(s, x, value)
         IN  CountedDown(s, t, x, value) \/ Repeated(s, t, x)
<1>0. BucketCount \in Nat
  BY DEF Assigned
<1>1. PICK b \in Buckets : b = BucketOf(x)
  BY BucketOfType
<1>2. PICK r \in Replicas : r = x[1]
  BY BucketOfType
<1>3. PICK t : t = CopyAndCount(s, x, value)
  OBVIOUS
<1>4. /\ s.pending \in [Buckets -> [Replicas -> Nat]]
      /\ s.pending[b] \in [Replicas -> Nat]
      /\ s.pending[b][r] \in Nat
      /\ s.replicas_pending \in [Buckets -> Nat] /\ s.replicas_pending[b] \in Nat
      /\ s.contents \in [Params -> SUBSET Contribution]
  BY DEF ReducerType
<1>5. PICK pend : pend = [s.pending EXCEPT ![b][r] = @ - 1]
  OBVIOUS
<1>6. PICK cont \in [Params -> SUBSET Contribution] :
        cont = [s.contents EXCEPT ![x] = value]
  BY <1>4
<1>7. PICK s1 : s1 = [s EXCEPT !.require_finalize = TRUE,
                               !.contents[x] = BucketView(s, x, value),
                               !.pending[BucketOf(x)][x[1]] = @ - 1]
  OBVIOUS
<1>8. PICK rp : rp = [s.replicas_pending EXCEPT ![b] = @ - 1]
  OBVIOUS
<1>9. PICK s2 : s2 = [s1 EXCEPT !.replicas_pending[BucketOf(x)] = @ - 1]
  OBVIOUS
<1>10. s1 = [s EXCEPT !.require_finalize = TRUE, !.contents = cont,
                      !.pending = pend]
  BY <1>1, <1>2, <1>5, <1>6, <1>7 DEF BucketView, ReducerType
<1>11. s2 = [s EXCEPT !.require_finalize = TRUE, !.contents = cont,
                      !.pending = pend, !.replicas_pending = rp]
  BY <1>1, <1>8, <1>9, <1>10 DEF ReducerType
<1>12. /\ s1.pending = pend /\ s2.replicas_pending = rp
       /\ s1.replicas_pending = s.replicas_pending
  BY <1>10, <1>11 DEF ReducerType
<1>13. pend[b][r] = s.pending[b][r] - 1 /\ rp[b] = s.replicas_pending[b] - 1
  BY <1>4, <1>5, <1>8
<1>14. t = IF s.pending[b][r] = 0 THEN MarkedTwice(s)
           ELSE IF pend[b][r] > 0 THEN s1
           ELSE IF rp[b] > 0 THEN s2
           ELSE mark_bucket_ready(s2, b)
  <2>1. t = IF s.pending[BucketOf(x)][x[1]] = 0 THEN MarkedTwice(s)
            ELSE IF s1.pending[BucketOf(x)][x[1]] > 0 THEN s1
            ELSE IF s2.replicas_pending[BucketOf(x)] > 0 THEN s2
            ELSE mark_bucket_ready(s2, BucketOf(x))
    BY <1>3, <1>7, <1>9 DEF CopyAndCount
  <2> QED
    BY <1>1, <1>2, <1>12, <2>1
<1>15. CASE s.pending[b][r] = 0
  <2>1. t = [s EXCEPT !.require_finalize = TRUE,
                      !.error = IF s.has_marked_unused THEN "marked twice"
                                ELSE "assertion has_marked_unused_parameters_"]
    BY <1>14, <1>15 DEF MarkedTwice
  <2>2. PICK e \in Errors :
          e = IF s.has_marked_unused THEN "marked twice"
              ELSE "assertion has_marked_unused_parameters_"
    BY DEF Errors, Assertions
  <2>3. /\ t \in ReducerType /\ Kept(s, t) /\ t.require_finalize = TRUE
        /\ t.error = e /\ t.pending = s.pending /\ t.contents = s.contents
        /\ t.next_bucket = s.next_bucket
        /\ t.posted = s.posted /\ t.work = s.work
        /\ t.replicas_pending = s.replicas_pending
    BY <2>1, <2>2 DEF ReducerType, Kept
  <2>4. Counts(t)
    BY <2>3 DEF Counts, Waiting
  <2> QED
    BY <1>1, <1>2, <1>3, <1>15, <2>2, <2>3, <2>4 DEF Repeated
<1>16. CASE s.pending[b][r] # 0
  <2>1. s.pending[b][r] - 1 \in Nat
    BY <1>4, <1>16
  <2>2. pend \in [Buckets -> [Replicas -> Nat]]
    <3>1. [s.pending[b] EXCEPT ![r] = @ - 1] \in [Replicas -> Nat]
      BY <1>4, <2>1
    <3>2. pend = [s.pending EXCEPT ![b] = [s.pending[b] EXCEPT ![r] = @ - 1]]
      BY <1>4, <1>5
    <3> QED
      BY <1>4, <3>1, <3>2
  <2>3. s1 \in ReducerType
    BY <1>10, <2>2 DEF ReducerType
  <2>4. /\ Kept(s, s1) /\ s1.require_finalize = TRUE /\ s1.error = s.error
        /\ s1.pending = pend /\ s1.contents = cont
        /\ s1.next_bucket = s.next_bucket /\ s1.posted = s.posted
        /\ s1.work = s.work /\ s1.replicas_pending = s.replicas_pending
    BY <1>10 DEF ReducerType, Kept
  <2>5. /\ \A c \in Buckets, q \in Replicas :
              c # b \/ q # r => pend[c][q] = s.pending[c][q]
        /\ pend[b][r] = s.pending[b][r] - 1
    BY <1>4, <1>5
  <2>6. \A c \in Buckets : c # b => Waiting(s1, c) = Waiting(s, c)
    BY <2>4, <2>5 DEF Waiting
  <2>7. LaunchedFrom(s, s)
    BY <1>0, NothingLaunched
  <2>8. \A u : /\ u.next_bucket = s.next_bucket /\ u.posted = s.posted
               /\ u.work = s.work
               => LaunchedFrom(s, u)
    BY <2>7 DEF LaunchedFrom
  <2>9. CASE pend[b][r] > 0
    <3>1. t = s1
      BY <1>14, <1>16, <2>9
    <3>2. s.pending[b][r] > 0
      BY <1>4, <1>16
    <3>3. Waiting(s1, b) = Waiting(s, b)
      BY <2>4, <2>5, <2>9, <3>2 DEF Waiting
    <3>4. Counts(t)
      BY <2>4, <2>6, <3>1, <3>3 DEF Counts
    <3>5. LaunchedFrom(s, s1)
      BY <2>4, <2>8
    <3> QED
      BY <1>1, <1>2, <1>3, <1>5, <1>6, <2>3, <2>4, <3>1, <3>2, <3>4, <3>5
      DEF CountedDown
  <2>10. CASE ~ (pend[b][r] > 0)
    <3>1. s.pending[b][r] = 1 /\ pend[b][r] = 0
      <4>1. PICK k \in Nat : k = s.pending[b][r]
        BY <1>4
      <4>2. k # 0 /\ pend[b][r] = k - 1 /\ ~ (k - 1 > 0)
        BY <4>1, <1>13, <1>16, <2>10
      <4> QED
        BY <4>1, <4>2
    <3>2. r \in Waiting(s, b)
      BY <3>1 DEF Waiting
    <3>3. Waiting(s1, b) = Waiting(s, b) \ {r}
      BY <2>4, <2>5, <3>1 DEF Waiting
    <3>4. IsFiniteSet(Waiting(s, b))
      BY WaitingFinite
    <3>5. /\ Cardinality(Waiting(s1, b)) = Cardinality(Waiting(s, b)) - 1
          /\ Cardinality(Waiting(s1, b)) \in Nat
      <4>1. PICK W : W = Waiting(s, b)
        OBVIOUS
      <4>2. Cardinality(W \ {r}) = Cardinality(W) - 1
        BY <4>1, <3>2, <3>4, FS_RemoveElement
      <4> QED
        BY <3>3, <4>1, <4>2, WaitingFinite
    <3>6. s.replicas_pending[b] = Cardinality(Waiting(s, b))
      BY DEF Counts
    <3>7. rp[b] = Cardinality(Waiting(s1, b)) /\ rp[b] \in Nat
      BY <1>13, <3>5, <3>6
    <3>8. rp \in [Buckets -> Nat] /\ \A c \in Buckets : c # b => rp[c] = s.replicas_pending[c]
      BY <1>4, <1>8, <1>13, <3>7
    <3>9. /\ s2 \in ReducerType
          /\ Kept(s, s2) /\ s2.require_finalize = TRUE /\ s2.error = s.error
          /\ s2.pending = pend /\ s2.contents = cont
          /\ s2.next_bucket = s.next_bucket /\ s2.posted = s.posted
          /\ s2.work = s.work /\ s2.replicas_pending = rp
      BY <1>11, <2>2, <3>8 DEF ReducerType, Kept
    <3>10. \A c \in Buckets : rp[c] = Cardinality(Waiting(s2, c))
      <4>1. \A c : Waiting(s2, c) = Waiting(s1, c)
        BY <2>4, <3>9 DEF Waiting
      <4> QED
        BY <2>6, <3>7, <3>8, <4>1 DEF Counts
    <3>11. s.replicas_pending[b] > 0 /\ s.next_bucket <= b
      <4>1. s.replicas_pending[b] > 0
        BY <1>4, <1>13, <3>7
      <4>2. s.next_bucket \in Nat /\ b \in Nat
        BY <1>0 DEF ReducerType, Buckets
      <4>3. ~ (b < s.next_bucket)
        BY <4>1, <1>4 DEF Counts
      <4> QED
        BY <4>1, <4>2, <4>3
    <3>12. s.next_bucket \in Buckets
      BY <1>0, <3>11 DEF ReducerType, Buckets
    <3>13. \A c \in Buckets : c < s.next_bucket => rp[c] = 0
      <4>1. \A c \in Buckets : c < s.next_bucket => c # b
        BY <3>11, <1>0 DEF ReducerType, Buckets
      <4> QED
        BY <3>8, <4>1 DEF Counts
    <3>14. s.next_bucket # b => rp[s.next_bucket] > 0
      BY <3>8, <3>12 DEF Counts
    <3>15. CASE rp[b] > 0
      <4>1. t = s2
        BY <1>14, <1>16, <2>10, <3>15
      <4>2. Counts(s2)
        BY <3>9, <3>10, <3>13, <3>14, <3>15 DEF Counts
      <4>3. LaunchedFrom(s, s2)
        BY <2>8, <3>9
      <4> QED
        BY <1>1, <1>2, <1>3, <1>5, <1>6, <3>1, <3>9, <4>1, <4>2, <4>3
        DEF CountedDown
    <3>16. CASE ~ (rp[b] > 0)
      <4>1. rp[b] = 0
        BY <3>7, <3>16
      <4>2. t = mark_bucket_ready(s2, b)
        BY <1>14, <1>16, <2>10, <3>16
      <4>3. Launched(s2, t)
        BY <3>9, <3>11, <3>13, <3>14, <4>1, <4>2, MarkBucketReady
      <4>4. Counts(t)
        <5>1. \A c : Waiting(t, c) = Waiting(s2, c)
          BY <4>3 DEF Launched, Waiting
        <5> QED
          BY <3>9, <3>10, <4>3, <5>1 DEF Launched, Counts
      <4>5. LaunchedFrom(s, t)
        BY <3>9, <4>3 DEF Launched, LaunchedFrom
      <4>6. Kept(s, t)
        BY <3>9, <4>3 DEF Launched, Kept
      <4>7. /\ t \in ReducerType /\ t.require_finalize = TRUE
            /\ t.error = s.error /\ t.pending = pend /\ t.contents = cont
        BY <3>9, <4>3 DEF Launched
      <4> QED
        BY <1>1, <1>2, <1>3, <1>5, <1>6, <3>1, <4>4, <4>5, <4>6, <4>7
        DEF CountedDown
    <3> QED
      BY <3>15, <3>16
  <2> QED
    BY <2>9, <2>10
<1> QED
  BY <1>15, <1>16

-----------------------------------------------------------------------------
(***************************************************************************)
(* Where a process is, and what that says about its reducer.               *)
(***************************************************************************)
Flags(s, u) ==
  /\ s.expect_autograd_hooks =>
       Counts(s) /\ s.has_marked_unused = find_unused_parameters
  /\ s.require_finalize => s.expect_autograd_hooks
  /\ ~s.require_finalize => s.next_bucket \in {1, BucketCount + 1}
  /\ s.callbacks > 0 => /\ s.callbacks = 1
                        /\ s.next_bucket = BucketCount + 1
                        /\ s.require_finalize /\ u.pc = "backward"
  /\ s.error # "none" =>
       \/ u.pc = "raised"
       \/ u.pc = "backward" /\ u.throws /\ s.require_finalize

Stages(s, u) ==
  /\ u.pc = "preparing" => s.next_bucket = BucketCount + 1 /\ s.require_finalize
  /\ u.pc = "marking" => s.expect_autograd_hooks /\ find_unused_parameters
  /\ u.pc \in {"idle", "reduced"} => ~s.expect_autograd_hooks
  /\ u.pc \in {"marking", "preparing"} => u.passes = 0
  /\ u.pc = "backward" => u.passes > 0

(* The finalizer is queued when the last bucket has been launched, and is  *)
(* dropped only with an exception.                                         *)
Queued(s, u) ==
  s.require_finalize /\ s.next_bucket > BucketCount =>
    \/ u.pc \in {"preparing", "raised"}
    \/ u.pc = "backward" /\ (u.throws \/ s.callbacks = 1)
    \/ u.pc = "ready" /\ u.passes > 0 /\ u.throws

LocalInv(s, u) ==
  /\ s \in ReducerType /\ u \in UserType
  /\ Flags(s, u) /\ Stages(s, u)
  /\ Passes = 1 => Queued(s, u)

(* What the actions do to the process that takes them. *)
DoForward(s, u, t, v, seen, n) ==
  /\ u.pc \in {"idle", "ready", "reduced"}
  /\ u.forwards < MaxForwards
  /\ n = Len(s.posted) \div BucketCount
  /\ ~s.require_finalize
  /\ t = ResetAccounting(s)
  /\ LET unused == IF find_unused_parameters THEN Params \ seen ELSE {}
     IN  v = [u EXCEPT !.pc = IF unused = {} THEN "ready" ELSE "marking",
                       !.forwards = @ + 1, !.passes = 0, !.seen = seen,
                       !.due = unused, !.outside = FALSE, !.round = n]

DoMark(s, u, t, v, x, value) ==
  /\ u.pc = "marking" /\ x \in u.due
  /\ t = CopyAndCount(s, x, value)
  /\ v = [u EXCEPT !.due = @ \ {x},
                   !.pc = IF t.error # "none" THEN "raised"
                          ELSE IF t.next_bucket > BucketCount
                               THEN "preparing"
                          ELSE IF u.due = {x} THEN "ready"
                          ELSE "marking"]

DoRaise(s, u, t, v) ==
  /\ u.pc \in {"idle", "ready", "reduced"}
  /\ s.require_finalize
  /\ t = s /\ v = [u EXCEPT !.pc = "raised"]

Done(u) == u.pc = "backward" /\ u.due = {} /\ ~u.throws

DoFinalize(s, u, t, v) ==
  /\ u.pc = "preparing" \/ (Done(u) /\ s.callbacks > 0)
  /\ FinalizeEnabled(s)
  /\ t = Finalized(s)
  /\ v = [u EXCEPT !.pc = IF FirstFailed(s) > BucketCount THEN "reduced"
                          ELSE IF Retry THEN "idle" ELSE "raised"]

DoBackward(s, u, t, v, hooks) ==
  /\ u.pc \in {"ready", "reduced"}
  /\ u.passes < Passes
  /\ Passes = 1 => u.seen \subseteq hooks
  /\ t = s
  /\ v = [u EXCEPT !.pc = "backward", !.passes = @ + 1, !.due = hooks,
                   !.throws = FALSE]

DoHook(s, u, t, v, x, value) ==
  /\ u.pc = "backward" /\ x \in u.due
  /\ t = MarkFromAutograd(s, x, value)
  /\ LET outside == find_unused_parameters /\ x \notin u.seen
     IN  v = [u EXCEPT !.due = @ \ {x},
                       !.throws = @ \/ t.error # "none",
                       !.outside = @ \/ outside,
                       !.strayed = @ \/ (outside /\ s.expect_autograd_hooks)]

DoThrow(s, u, t, v) ==
  /\ u.pc = "backward"
  /\ t = s /\ v = [u EXCEPT !.throws = TRUE]

DoThrown(s, u, t, v) ==
  /\ u.pc = "backward" /\ u.throws
  /\ t = [s EXCEPT !.callbacks = 0, !.error = "none"]
  /\ v = [u EXCEPT !.pc = "ready", !.due = {}]

DoReturn(s, u, t, v) ==
  /\ Done(u) /\ s.callbacks = 0
  /\ t = s /\ v = [u EXCEPT !.pc = "ready"]

LocalStep(s, u, t, v) ==
  \/ \E seen \in SUBSET Params, n \in Nat : DoForward(s, u, t, v, seen, n)
  \/ \E x \in Params, value \in SUBSET Contribution :
       DoMark(s, u, t, v, x, value) \/ DoHook(s, u, t, v, x, value)
  \/ \E hooks \in SUBSET Params : DoBackward(s, u, t, v, hooks)
  \/ DoRaise(s, u, t, v) \/ DoFinalize(s, u, t, v) \/ DoThrow(s, u, t, v)
  \/ DoThrown(s, u, t, v) \/ DoReturn(s, u, t, v)

(* When the buckets before next_bucket wait for nothing, neither do their  *)
(* replicas.                                                               *)
LEMMA NoneWaiting ==
  ASSUME Assigned, NEW s \in ReducerType, Counts(s),
         NEW b \in Buckets, s.replicas_pending[b] = 0, NEW r \in Replicas
  PROVE  s.pending[b][r] = 0
<1>1. Cardinality(Waiting(s, b)) = 0 /\ IsFiniteSet(Waiting(s, b))
  BY WaitingFinite DEF Counts
<1>2. Waiting(s, b) = {}
  BY <1>1, FS_EmptySet
<1>3. ~ (s.pending[b][r] > 0)
  BY <1>2 DEF Waiting
<1>4. s.pending[b][r] \in Nat
  BY DEF ReducerType
<1> QED
  BY <1>3, <1>4

LEMMA LaunchedWaitForNothing ==
  ASSUME Assigned, NEW s \in ReducerType, Counts(s), NEW b \in Buckets,
         b < s.next_bucket, NEW r \in Replicas
  PROVE  s.pending[b][r] = 0
BY NoneWaiting DEF Counts

LEMMA ResetCounts ==
  ASSUME Assigned, NEW s \in ReducerType
  PROVE  LET t == ResetAccounting(s)
         IN  /\ t \in ReducerType /\ Counts(t)
             /\ t.expect_autograd_hooks = TRUE /\ t.next_bucket = 1
             /\ t.has_marked_unused = find_unused_parameters
             /\ t.require_finalize = s.require_finalize
             /\ t.callbacks = s.callbacks /\ t.error = s.error
             /\ t.posted = s.posted /\ t.work = s.work
             /\ t.contents = s.contents
             /\ \A b \in Buckets, r \in Replicas :
                  t.pending[b][r] = Cardinality(Slot(b, r))
<1>1. PICK N \in Nat \ {0} : N = Cardinality(Replicas)
  BY ReplicasFinite, FS_CardinalityType, FS_EmptySet
<1>2. \A b \in Buckets : Len(buckets_[b]) \in Nat \ {0}
  BY DEF Assigned
<1>3. PICK pend \in [Buckets -> [Replicas -> Nat]] :
        pend = [b \in Buckets |-> [r \in Replicas |-> Len(buckets_[b])]]
  BY <1>2
<1>4. PICK rp \in [Buckets -> Nat] : rp = [b \in Buckets |-> N]
  OBVIOUS
<1>5. PICK t : t = ResetAccounting(s)
  OBVIOUS
<1>6. t = [s EXCEPT !.has_marked_unused = find_unused_parameters,
                    !.expect_autograd_hooks = TRUE, !.next_bucket = 1,
                    !.pending = pend, !.replicas_pending = rp]
  BY <1>1, <1>3, <1>4, <1>5 DEF ResetAccounting
<1>7. find_unused_parameters \in BOOLEAN /\ BucketCount \in Nat \ {0}
  BY DEF Assigned
<1>8. /\ t \in ReducerType
      /\ t.expect_autograd_hooks = TRUE /\ t.next_bucket = 1
      /\ t.has_marked_unused = find_unused_parameters
      /\ t.require_finalize = s.require_finalize
      /\ t.callbacks = s.callbacks /\ t.error = s.error
      /\ t.posted = s.posted /\ t.work = s.work
      /\ t.contents = s.contents
      /\ t.pending = pend /\ t.replicas_pending = rp
  <2>1. PICK f \in BOOLEAN : f = find_unused_parameters
    BY <1>7
  <2>2. 1 \in 1 .. (BucketCount + 1)
    BY <1>7
  <2>3. t = [s EXCEPT !.has_marked_unused = f,
                      !.expect_autograd_hooks = TRUE, !.next_bucket = 1,
                      !.pending = pend, !.replicas_pending = rp]
    BY <1>6, <2>1, Zenon
  <2> QED
    BY <2>1, <2>2, <2>3 DEF ReducerType
<1>9. \A b \in Buckets : Waiting(t, b) = Replicas
  BY <1>2, <1>3, <1>8 DEF Waiting
<1>10. Counts(t)
  BY <1>1, <1>4, <1>7, <1>8, <1>9 DEF Counts, Buckets
<1>11. \A b \in Buckets, r \in Replicas :
         t.pending[b][r] = Cardinality(Slot(b, r))
  BY <1>3, <1>8, SlotSize
<1> QED
  BY <1>5, <1>8, <1>10, <1>11

LEMMA ForwardLocal ==
  ASSUME Assigned, NEW s, NEW u, NEW t, NEW v, LocalInv(s, u),
         NEW seen \in SUBSET Params, NEW n \in Nat,
         DoForward(s, u, t, v, seen, n)
  PROVE  LocalInv(t, v)
<1>1. s \in ReducerType /\ u \in UserType /\ Flags(s, u) /\ Stages(s, u)
  BY DEF LocalInv
<1>2. BucketCount \in Nat \ {0} /\ find_unused_parameters \in BOOLEAN
  BY DEF Assigned
<1>3. PICK unused \in SUBSET Params :
        unused = IF find_unused_parameters THEN Params \ seen ELSE {}
  OBVIOUS
<1>4. PICK pc \in {"ready", "marking"} :
        pc = IF unused = {} THEN "ready" ELSE "marking"
  OBVIOUS
<1>5. v = [u EXCEPT !.pc = pc, !.forwards = @ + 1, !.passes = 0, !.seen = seen,
                    !.due = unused, !.outside = FALSE, !.round = n]
  BY <1>3, <1>4, Zenon DEF DoForward
<1>6. v \in UserType /\ v.pc = pc /\ v.passes = 0
  <2>1. PICK k \in Nat : k = u.forwards + 1
    BY <1>1 DEF UserType
  <2>2. v = [u EXCEPT !.pc = pc, !.forwards = k, !.passes = 0, !.seen = seen,
                      !.due = unused, !.outside = FALSE, !.round = n]
    BY <1>1, <1>5, <2>1 DEF UserType
  <2>3. pc \in Pcs
    BY DEF Pcs
  <2> QED
    BY <1>1, <2>2, <2>3 DEF UserType
<1>7. /\ t \in ReducerType /\ Counts(t)
      /\ t.expect_autograd_hooks = TRUE /\ t.next_bucket = 1
      /\ t.has_marked_unused = find_unused_parameters
      /\ t.require_finalize = s.require_finalize
      /\ t.callbacks = s.callbacks /\ t.error = s.error
  BY <1>1, ResetCounts DEF DoForward
<1>8. /\ ~s.require_finalize
      /\ u.pc \in {"idle", "ready", "reduced"}
  BY DEF DoForward
<1>9. s.callbacks \in Nat /\ ~ (s.callbacks > 0) /\ s.error = "none"
  BY <1>1, <1>8 DEF Flags, ReducerType
<1>10. Flags(t, v)
  BY <1>7, <1>8, <1>9 DEF Flags
<1>11. Stages(t, v)
  BY <1>3, <1>4, <1>6, <1>7 DEF Stages
<1>12. Queued(t, v)
  BY <1>7, <1>8 DEF Queued
<1> QED
  BY <1>6, <1>7, <1>10, <1>11, <1>12 DEF LocalInv

LEMMA MarkLocal ==
  ASSUME Assigned, NEW s, NEW u, NEW t, NEW v, LocalInv(s, u),
         NEW x \in Params, NEW value \in SUBSET Contribution,
         DoMark(s, u, t, v, x, value)
  PROVE  LocalInv(t, v)
<1>1. s \in ReducerType /\ u \in UserType /\ Flags(s, u) /\ Stages(s, u)
  BY DEF LocalInv
<1>2. BucketCount \in Nat \ {0}
  BY DEF Assigned
<1>3. u.pc = "marking" /\ s.expect_autograd_hooks
  BY <1>1 DEF Stages, DoMark
<1>4. s.callbacks \in Nat /\ ~ (s.callbacks > 0) /\ s.error = "none" /\ u.passes = 0
  BY <1>1, <1>3 DEF Flags, ReducerType, Stages
<1>5. Counts(s) /\ s.has_marked_unused = find_unused_parameters
      /\ find_unused_parameters
  BY <1>1, <1>3 DEF Flags, Stages
<1>6. CountedDown(s, t, x, value) \/ Repeated(s, t, x)
  BY <1>1, <1>5, CopyAndCountCounts DEF DoMark
<1>7. /\ t \in ReducerType /\ Kept(s, t) /\ Counts(t) /\ t.require_finalize
  BY <1>6 DEF CountedDown, Repeated
<1>8. PICK pc \in Pcs :
        pc = IF t.error # "none" THEN "raised"
             ELSE IF t.next_bucket > BucketCount THEN "preparing"
             ELSE IF u.due = {x} THEN "ready"
             ELSE "marking"
  BY DEF Pcs
<1>9. v = [u EXCEPT !.due = @ \ {x}, !.pc = pc]
  BY <1>8, Zenon DEF DoMark
<1>10. v \in UserType /\ v.pc = pc /\ v.passes = 0
  BY <1>1, <1>4, <1>9 DEF UserType
<1>11. t.next_bucket \in 1 .. (BucketCount + 1)
  BY <1>7 DEF ReducerType
<1>12. Flags(t, v)
  BY <1>1, <1>3, <1>4, <1>5, <1>7, <1>8, <1>10 DEF Flags, Kept
<1>13. Stages(t, v)
  <2>1. pc = "preparing" => t.next_bucket = BucketCount + 1
    BY <1>2, <1>8, <1>11
  <2>2. t.expect_autograd_hooks
    BY <1>3, <1>7 DEF Kept
  <2>3. pc \notin {"idle", "reduced", "backward"}
    BY <1>8
  <2> QED
    BY <1>5, <1>7, <1>10, <2>1, <2>2, <2>3 DEF Stages
<1>14. Queued(t, v)
  BY <1>8, <1>10 DEF Queued
<1> QED
  BY <1>7, <1>10, <1>12, <1>13, <1>14 DEF LocalInv

LEMMA RaiseLocal ==
  ASSUME Assigned, NEW s, NEW u, NEW t, NEW v, LocalInv(s, u),
         DoRaise(s, u, t, v)
  PROVE  LocalInv(t, v)
<1>1. s \in ReducerType /\ u \in UserType /\ Flags(s, u) /\ t = s
  BY DEF LocalInv, DoRaise
<1>2. v \in UserType /\ v.pc = "raised"
  BY <1>1 DEF DoRaise, UserType, Pcs
<1>3. Flags(t, v)
  <2>1. ~ (s.callbacks > 0)
    BY <1>1 DEF Flags, DoRaise
  <2> QED
    BY <1>1, <1>2, <2>1 DEF Flags
<1>4. Stages(t, v) /\ Queued(t, v)
  BY <1>2 DEF Stages, Queued
<1> QED
  BY <1>1, <1>2, <1>3, <1>4 DEF LocalInv

(* The assertions of finalize_backward() hold, and what it leaves. *)
LEMMA FinalizeAssertsHold ==
  ASSUME Assigned, NEW s, NEW u, NEW t, NEW v, LocalInv(s, u),
         DoFinalize(s, u, t, v)
  PROVE  /\ FinalizeAsserts(s) /\ s.callbacks <= 1
         /\ s.next_bucket = BucketCount + 1
         /\ t = [s EXCEPT !.expect_autograd_hooks = FALSE,
                          !.require_finalize = FALSE, !.callbacks = 0]
         /\ s.error = "none"
<1>1. s \in ReducerType /\ u \in UserType /\ Flags(s, u) /\ Stages(s, u)
  BY DEF LocalInv
<1>2. BucketCount \in Nat /\ s.callbacks \in Nat
  BY <1>1 DEF Assigned, ReducerType
<1>3. u.pc = "preparing" \/ (u.pc = "backward" /\ ~u.throws /\ s.callbacks > 0)
  BY DEF DoFinalize, Done
<1>4. s.require_finalize /\ s.next_bucket = BucketCount + 1
  BY <1>1, <1>3 DEF Flags, Stages
<1>5. s.callbacks <= 1
  BY <1>1, <1>2 DEF Flags
<1>6. s.expect_autograd_hooks
  BY <1>1, <1>4 DEF Flags
<1>7. FinalizeAsserts(s)
  BY <1>2, <1>4, <1>6 DEF FinalizeAsserts
<1>8. s.error = "none"
  BY <1>1, <1>3 DEF Flags
<1>9. t = [s EXCEPT !.expect_autograd_hooks = FALSE,
                    !.require_finalize = FALSE, !.callbacks = 0]
  <2>1. t = [s EXCEPT !.expect_autograd_hooks = FALSE,
                      !.require_finalize = FALSE, !.callbacks = 0,
                      !.error = s.error]
    BY <1>1, <1>5, <1>7 DEF DoFinalize, Finalized, ReducerType
  <2> QED
    BY <1>1, <2>1 DEF ReducerType
<1> QED
  BY <1>4, <1>5, <1>7, <1>8, <1>9

LEMMA FinalizeLocal ==
  ASSUME Assigned, NEW s, NEW u, NEW t, NEW v, LocalInv(s, u),
         DoFinalize(s, u, t, v)
  PROVE  LocalInv(t, v)
<1>1. s \in ReducerType /\ u \in UserType /\ Flags(s, u) /\ Stages(s, u)
  BY DEF LocalInv
<1>2. /\ s.next_bucket = BucketCount + 1 /\ s.error = "none"
      /\ t = [s EXCEPT !.expect_autograd_hooks = FALSE,
                       !.require_finalize = FALSE, !.callbacks = 0]
  BY FinalizeAssertsHold
<1>3. /\ t \in ReducerType /\ t.expect_autograd_hooks = FALSE
      /\ t.require_finalize = FALSE /\ t.callbacks = 0
      /\ t.error = "none" /\ t.next_bucket = BucketCount + 1
  BY <1>1, <1>2 DEF ReducerType
<1>4. PICK pc \in {"reduced", "idle", "raised"} :
        pc = IF FirstFailed(s) > BucketCount THEN "reduced"
             ELSE IF Retry THEN "idle" ELSE "raised"
  OBVIOUS
<1>5. v = [u EXCEPT !.pc = pc]
  BY <1>4, Zenon DEF DoFinalize
<1>6. v \in UserType /\ v.pc = pc
  BY <1>1, <1>5 DEF UserType, Pcs
<1>7. Flags(t, v) /\ Stages(t, v) /\ Queued(t, v)
  BY <1>3, <1>4, <1>6 DEF Flags, Stages, Queued
<1> QED
  BY <1>3, <1>6, <1>7 DEF LocalInv

LEMMA BackwardLocal ==
  ASSUME Assigned, NEW s, NEW u, NEW t, NEW v, LocalInv(s, u),
         NEW hooks \in SUBSET Params, DoBackward(s, u, t, v, hooks)
  PROVE  LocalInv(t, v)
<1>1. s \in ReducerType /\ u \in UserType /\ Flags(s, u) /\ Stages(s, u)
      /\ u.pc \in {"ready", "reduced"} /\ t = s
  BY DEF LocalInv, DoBackward
<1>2. u.passes \in Nat
  BY <1>1 DEF UserType
<1>3. /\ v \in UserType /\ v.pc = "backward" /\ v.passes = u.passes + 1
      /\ v.throws = FALSE
  <2>1. PICK k \in Nat : k = u.passes + 1
    BY <1>2
  <2>2. v = [u EXCEPT !.pc = "backward", !.passes = k, !.due = hooks,
                      !.throws = FALSE]
    BY <1>1, <2>1 DEF UserType, DoBackward
  <2>3. "backward" \in Pcs
    BY DEF Pcs
  <2> QED
    BY <1>1, <2>1, <2>2, <2>3 DEF UserType
<1>4. s.error = "none" /\ ~ (s.callbacks > 0)
  BY <1>1 DEF Flags
<1>5. Flags(t, v)
  BY <1>1, <1>3, <1>4 DEF Flags
<1>6. Stages(t, v)
  BY <1>1, <1>2, <1>3 DEF Stages
<1>7. ASSUME Passes = 1
      PROVE  Queued(t, v)
  <2>1. Queued(s, u) /\ u.passes = 0
    BY <1>2, <1>7 DEF LocalInv, DoBackward
  <2>2. ~ (s.require_finalize /\ s.next_bucket > BucketCount)
    BY <1>1, <2>1 DEF Queued, Stages, Flags
  <2> QED
    BY <1>1, <2>2 DEF Queued
<1> QED
  BY <1>1, <1>3, <1>5, <1>6, <1>7 DEF LocalInv

(* What counting x does, whether or not the finalizer is then queued. *)
Counted(s, t, x, value) ==
  /\ t \in ReducerType
  /\ t.expect_autograd_hooks = s.expect_autograd_hooks
  /\ t.has_marked_unused = s.has_marked_unused
  /\ LaunchedFrom(s, t) /\ Counts(t)
  /\ t.require_finalize = TRUE
  /\ t.error = s.error
  /\ s.pending[BucketOf(x)][x[1]] > 0
  /\ t.pending = [s.pending EXCEPT ![BucketOf(x)][x[1]] = @ - 1]
  /\ t.contents = [s.contents EXCEPT ![x] = value]

LEMMA HookCounts ==
  ASSUME Assigned, NEW s \in ReducerType, Counts(s), NEW x \in Params,
         NEW value \in SUBSET Contribution, s.expect_autograd_hooks,
         NEW t, t = MarkFromAutograd(s, x, value)
  PROVE  \/ Repeated(s, t, x)
         \/ /\ Counted(s, t, x, value)
            /\ t.callbacks = IF t.error = "none" /\ t.next_bucket > BucketCount
                             THEN s.callbacks + 1 ELSE s.callbacks
<1>1. PICK c : c = CopyAndCount(s, x, value)
  OBVIOUS
<1>2. CountedDown(s, c, x, value) \/ Repeated(s, c, x)
  BY <1>1, CopyAndCountCounts
<1>3. t = IF c.error = "none" /\ c.next_bucket > BucketCount
          THEN [c EXCEPT !.callbacks = @ + 1] ELSE c
  BY <1>1 DEF MarkFromAutograd
<1>4. CASE Repeated(s, c, x)
  <2>1. c.error # "none"
    BY <1>4 DEF Repeated
  <2> QED
    BY <1>3, <1>4, <2>1
<1>5. CASE CountedDown(s, c, x, value)
  <2>1. CASE c.error = "none" /\ c.next_bucket > BucketCount
    <3>1. PICK k \in Nat : k = c.callbacks + 1
      BY <1>5 DEF CountedDown, ReducerType
    <3>2. t = [c EXCEPT !.callbacks = k] /\ c \in ReducerType
      BY <1>3, <1>5, <2>1, <3>1 DEF CountedDown, ReducerType
    <3>3. /\ t \in ReducerType /\ t.callbacks = k
          /\ t.expect_autograd_hooks = c.expect_autograd_hooks
          /\ t.has_marked_unused = c.has_marked_unused
          /\ t.require_finalize = c.require_finalize /\ t.error = c.error
          /\ t.pending = c.pending /\ t.contents = c.contents
          /\ t.replicas_pending = c.replicas_pending
          /\ t.next_bucket = c.next_bucket /\ t.posted = c.posted
          /\ t.work = c.work
      BY <3>2 DEF ReducerType
    <3>4. Counts(t)
      BY <1>5, <3>3 DEF CountedDown, Counts, Waiting
    <3>5. LaunchedFrom(s, t)
      BY <1>5, <3>3 DEF CountedDown, LaunchedFrom
    <3>6. /\ c.expect_autograd_hooks = s.expect_autograd_hooks
          /\ c.has_marked_unused = s.has_marked_unused
          /\ c.callbacks = s.callbacks
      BY <1>5 DEF CountedDown, Kept
    <3>7. Counted(s, t, x, value)
      BY <1>5, <3>3, <3>4, <3>5, <3>6 DEF Counted, CountedDown
    <3> QED
      BY <2>1, <3>1, <3>3, <3>6, <3>7
  <2>2. CASE ~ (c.error = "none" /\ c.next_bucket > BucketCount)
    <3>1. t = c
      BY <1>3, <2>2
    <3> QED
      BY <1>5, <2>2, <3>1 DEF Counted, CountedDown, Kept
  <2> QED
    BY <2>1, <2>2
<1> QED
  BY <1>2, <1>4, <1>5

HookedUser(s, u, t, v, x) ==
  /\ v \in UserType /\ v.pc = u.pc /\ v.passes = u.passes
  /\ v.forwards = u.forwards /\ v.seen = u.seen
  /\ v.due = u.due \ {x} /\ v.round = u.round
  /\ v.throws <=> (u.throws \/ t.error # "none")
  /\ v.outside <=> u.outside \/ (find_unused_parameters /\ x \notin u.seen)
  /\ v.strayed <=>
       \/ u.strayed
       \/ /\ find_unused_parameters /\ x \notin u.seen
          /\ s.expect_autograd_hooks

LEMMA HookUser ==
  ASSUME NEW s, NEW u \in UserType, NEW t, NEW v, NEW x \in Params, NEW value,
         DoHook(s, u, t, v, x, value)
  PROVE  HookedUser(s, u, t, v, x)
<1>1. PICK f \in BOOLEAN : f = (u.throws \/ t.error # "none")
  OBVIOUS
<1>2. PICK g \in BOOLEAN :
        g = (u.strayed \/ ((find_unused_parameters /\ x \notin u.seen)
                           /\ s.expect_autograd_hooks))
  OBVIOUS
<1>3. PICK o \in BOOLEAN :
        o = (u.outside \/ (find_unused_parameters /\ x \notin u.seen))
  OBVIOUS
<1>4. PICK d \in SUBSET Params : d = u.due \ {x}
  BY DEF UserType
<1>5. v = [u EXCEPT !.due = d, !.throws = f, !.outside = o, !.strayed = g]
  BY <1>1, <1>2, <1>3, <1>4, Zenon DEF DoHook, UserType
<1> QED
  BY <1>1, <1>2, <1>3, <1>4, <1>5 DEF UserType, HookedUser

LEMMA HookLocal ==
  ASSUME Assigned, NEW s, NEW u, NEW t, NEW v, LocalInv(s, u),
         NEW x \in Params, NEW value \in SUBSET Contribution,
         DoHook(s, u, t, v, x, value)
  PROVE  LocalInv(t, v)
<1>1. s \in ReducerType /\ u \in UserType /\ Flags(s, u) /\ Stages(s, u)
      /\ u.pc = "backward"
  BY DEF LocalInv, DoHook
<1>2. BucketCount \in Nat \ {0}
  BY DEF Assigned
<1>3. /\ v \in UserType /\ v.pc = "backward" /\ v.passes = u.passes
      /\ v.throws <=> (u.throws \/ t.error # "none")
  <2>1. HookedUser(s, u, t, v, x)
    BY <1>1, HookUser
  <2> QED
    BY <1>1, <2>1 DEF HookedUser
<1>4. t = MarkFromAutograd(s, x, value)
  BY DEF DoHook
<1>5. CASE ~s.expect_autograd_hooks
  <2>1. t = s
    BY <1>4, <1>5 DEF MarkFromAutograd
  <2>2. s.error = "none"
    BY <1>1, <1>5 DEF Flags
  <2>3. Flags(t, v) /\ Stages(t, v)
    BY <1>1, <1>3, <2>1, <2>2 DEF Flags, Stages
  <2>4. Queued(t, v)
    BY <1>1, <1>5, <2>1 DEF Queued, Flags
  <2> QED
    BY <1>1, <1>3, <2>1, <2>3, <2>4 DEF LocalInv
<1>6. CASE s.expect_autograd_hooks
  <2>1. Counts(s) /\ s.has_marked_unused = find_unused_parameters
    BY <1>1, <1>6 DEF Flags
  <2>2. CASE Repeated(s, t, x)
    <3>1. /\ t \in ReducerType /\ Counts(t) /\ t.require_finalize
          /\ t.error # "none" /\ t.next_bucket = s.next_bucket
          /\ t.expect_autograd_hooks = s.expect_autograd_hooks
          /\ t.has_marked_unused = s.has_marked_unused
          /\ t.callbacks = s.callbacks
      BY <2>2 DEF Repeated, Kept
    <3>2. Flags(t, v)
      BY <1>1, <1>3, <1>6, <2>1, <3>1 DEF Flags
    <3>3. Stages(t, v) /\ Queued(t, v)
      BY <1>1, <1>3, <3>1 DEF Stages, Queued
    <3> QED
      BY <1>3, <3>1, <3>2, <3>3 DEF LocalInv
  <2>3. CASE /\ Counted(s, t, x, value)
             /\ t.callbacks = IF t.error = "none" /\ t.next_bucket > BucketCount
                              THEN s.callbacks + 1 ELSE s.callbacks
    <3>1. /\ t \in ReducerType /\ Counts(t) /\ t.require_finalize
          /\ t.error = s.error
          /\ t.expect_autograd_hooks = s.expect_autograd_hooks
          /\ t.has_marked_unused = s.has_marked_unused
          /\ s.pending[BucketOf(x)][x[1]] > 0
      BY <2>3 DEF Counted
    <3>2. s.callbacks = 0
      <4>1. s.callbacks \in Nat
        BY <1>1 DEF ReducerType
      <4>2. SUFFICES ASSUME s.callbacks > 0 PROVE FALSE
        BY <4>1
      <4>3. BucketOf(x) \in Buckets /\ x[1] \in Replicas
        BY BucketOfType
      <4>4. BucketOf(x) < s.next_bucket
        BY <1>1, <1>2, <4>2, <4>3 DEF Flags, Buckets
      <4>5. s.pending[BucketOf(x)][x[1]] = 0
        BY <1>1, <2>1, <4>3, <4>4, LaunchedWaitForNothing
      <4> QED
        BY <3>1, <4>5
    <3>3. t.next_bucket \in 1 .. (BucketCount + 1)
      BY <3>1 DEF ReducerType
    <3>4. /\ t.callbacks > 0 => t.callbacks = 1 /\ t.next_bucket = BucketCount + 1
          /\ t.error = "none" /\ t.next_bucket > BucketCount => t.callbacks = 1
      BY <1>2, <2>3, <3>2, <3>3
    <3>5. Flags(t, v)
      BY <1>1, <1>3, <1>6, <2>1, <3>1, <3>4 DEF Flags
    <3>6. Stages(t, v)
      BY <1>1, <1>3 DEF Stages
    <3>7. Queued(t, v)
      BY <1>3, <3>4 DEF Queued
    <3> QED
      BY <1>3, <3>1, <3>5, <3>6, <3>7 DEF LocalInv
  <2> QED
    BY <1>1, <1>4, <1>6, <2>1, <2>2, <2>3, HookCounts
<1> QED
  BY <1>5, <1>6

LEMMA OtherStepsLocal ==
  ASSUME Assigned, NEW s, NEW u, NEW t, NEW v, LocalInv(s, u),
         DoThrow(s, u, t, v) \/ DoThrown(s, u, t, v) \/ DoReturn(s, u, t, v)
  PROVE  LocalInv(t, v)
<1>1. s \in ReducerType /\ u \in UserType /\ Flags(s, u) /\ Stages(s, u)
  BY DEF LocalInv
<1>2. CASE DoThrow(s, u, t, v)
  <2>1. t = s /\ u.pc = "backward"
    BY <1>2 DEF DoThrow
  <2>2. v \in UserType /\ v.pc = u.pc /\ v.passes = u.passes /\ v.throws = TRUE
    BY <1>1, <1>2 DEF DoThrow, UserType
  <2>3. Flags(t, v) /\ Stages(t, v) /\ Queued(t, v)
    BY <1>1, <2>1, <2>2 DEF Flags, Stages, Queued
  <2> QED
    BY <1>1, <2>1, <2>2, <2>3 DEF LocalInv
<1>3. CASE DoThrown(s, u, t, v)
  <2>1. /\ u.pc = "backward" /\ u.throws
        /\ t = [s EXCEPT !.callbacks = 0, !.error = "none"]
        /\ v = [u EXCEPT !.pc = "ready", !.due = {}]
    BY <1>3 DEF DoThrown
  <2>2. "none" \in Errors /\ "ready" \in Pcs
    BY DEF Errors, Pcs
  <2>3. /\ v \in UserType /\ v.pc = "ready" /\ v.passes = u.passes
        /\ v.throws = u.throws
    BY <1>1, <2>1, <2>2 DEF UserType
  <2>4. /\ t \in ReducerType /\ t.callbacks = 0 /\ t.error = "none"
        /\ t.expect_autograd_hooks = s.expect_autograd_hooks
        /\ t.require_finalize = s.require_finalize
        /\ t.has_marked_unused = s.has_marked_unused
        /\ t.next_bucket = s.next_bucket /\ t.pending = s.pending
        /\ t.replicas_pending = s.replicas_pending
    BY <1>1, <2>1, <2>2 DEF ReducerType
  <2>5. Counts(s) => Counts(t)
    BY <2>4 DEF Counts, Waiting
  <2>6. Flags(t, v)
    BY <1>1, <2>4, <2>5 DEF Flags
  <2>7. Stages(t, v)
    BY <2>3 DEF Stages
  <2>8. Queued(t, v)
    BY <1>1, <2>1, <2>3 DEF Queued, Stages
  <2> QED
    BY <2>3, <2>4, <2>6, <2>7, <2>8 DEF LocalInv
<1>4. CASE DoReturn(s, u, t, v)
  <2>1. /\ t = s /\ u.pc = "backward" /\ s.callbacks = 0 /\ ~u.throws
        /\ v = [u EXCEPT !.pc = "ready"]
    BY <1>4 DEF DoReturn, Done
  <2>2. /\ v \in UserType /\ v.pc = "ready" /\ v.passes = u.passes
        /\ v.throws = u.throws
    BY <1>1, <2>1 DEF UserType, Pcs
  <2>3. Flags(t, v)
    BY <1>1, <2>1, <2>2 DEF Flags
  <2>4. Stages(t, v)
    BY <2>2 DEF Stages
  <2>5. Passes = 1 => Queued(t, v)
    BY <2>1, <2>2 DEF Queued, LocalInv
  <2> QED
    BY <1>1, <2>1, <2>2, <2>3, <2>4, <2>5 DEF LocalInv
<1> QED
  BY <1>2, <1>3, <1>4

(* No step of a process leaves the invariant. *)
LEMMA LocalStepInv ==
  ASSUME Assigned, NEW s, NEW u, NEW t, NEW v, LocalInv(s, u),
         LocalStep(s, u, t, v)
  PROVE  LocalInv(t, v)
BY ForwardLocal, MarkLocal, HookLocal, BackwardLocal, RaiseLocal,
   FinalizeLocal, OtherStepsLocal DEF LocalStep

-----------------------------------------------------------------------------
(***************************************************************************)
(* All processes.                                                          *)
(***************************************************************************)
Types ==
  /\ reducer \in [Ranks -> ReducerType]
  /\ user \in [Ranks -> UserType]
  /\ grad \in [Ranks -> [Params -> SUBSET Contribution]]

ReducerInv ==
  /\ Assigned /\ Types
  /\ \A p \in Ranks : LocalInv(reducer[p], user[p])

(* p takes a step and the others stay where they are. *)
Moves(p) ==
  /\ LocalStep(reducer[p], user[p], reducer'[p], user'[p])
  /\ reducer' = [reducer EXCEPT ![p] = reducer'[p]]
  /\ user' = [user EXCEPT ![p] = user'[p]]

LEMMA RoundIsNat ==
  ASSUME Assigned, NEW s \in ReducerType
  PROVE  Len(s.posted) \div BucketCount \in Nat
<1>1. PICK l \in Nat : l = Len(s.posted)
  BY DEF ReducerType
<1>2. PICK B \in Nat \ {0} : B = BucketCount
  BY DEF Assigned
<1>3. l \div B \in Nat
  OBVIOUS
<1> QED
  BY <1>1, <1>2, <1>3

(* Actions of a process. *)
LEMMA ForwardMoves ==
  ASSUME ReducerInv, NEW p \in Ranks, NEW seen \in SUBSET Params,
         Forward(p, seen)
  PROVE  /\ Moves(p)
         /\ DoForward(reducer[p], user[p], reducer'[p], user'[p], seen,
                      Len(reducer[p].posted) \div BucketCount)
<1>1. /\ reducer \in [Ranks -> ReducerType] /\ user \in [Ranks -> UserType]
      /\ reducer[p] \in ReducerType /\ Assigned
  BY DEF ReducerInv, Types
<1>2. PICK n \in Nat : n = Len(reducer[p].posted) \div BucketCount
  BY <1>1, RoundIsNat
<1>3. PICK v : v = LET unused == IF find_unused_parameters THEN Params \ seen ELSE {}
                   IN  [user[p] EXCEPT !.pc = IF unused = {} THEN "ready" ELSE "marking",
                           !.forwards = @ + 1, !.passes = 0, !.seen = seen,
                           !.due = unused, !.outside = FALSE, !.round = n]
  OBVIOUS
<1>4. /\ user' = [user EXCEPT ![p] = v]
      /\ reducer' = [reducer EXCEPT ![p] = ResetAccounting(reducer[p])]
  BY <1>2, <1>3 DEF Forward
<1>5. user'[p] = v /\ reducer'[p] = ResetAccounting(reducer[p])
  BY <1>1, <1>4
<1>6. DoForward(reducer[p], user[p], reducer'[p], user'[p], seen, n)
  BY <1>2, <1>3, <1>5, Zenon DEF Forward, DoForward, PriorFinished
<1>7. LocalStep(reducer[p], user[p], reducer'[p], user'[p])
  BY <1>6 DEF LocalStep
<1> QED
  BY <1>2, <1>4, <1>5, <1>6, <1>7 DEF Moves

LEMMA MarkMoves ==
  ASSUME ReducerInv, NEW p \in Ranks, NEW x \in Params, MarkUnused(p, x)
  PROVE  /\ Moves(p)
         /\ DoMark(reducer[p], user[p], reducer'[p], user'[p], x, grad[p][x])
<1>1. /\ reducer \in [Ranks -> ReducerType] /\ user \in [Ranks -> UserType]
      /\ grad[p][x] \in SUBSET Contribution
  BY DEF ReducerInv, Types
<1>2. PICK t : t = CopyAndCount(reducer[p], x, grad[p][x])
  OBVIOUS
<1>3. PICK v : v = [user[p] EXCEPT !.due = @ \ {x},
                   !.pc = IF t.error # "none" THEN "raised"
                          ELSE IF t.next_bucket > BucketCount
                               THEN "preparing"
                          ELSE IF user[p].due = {x} THEN "ready"
                          ELSE "marking"]
  OBVIOUS
<1>4. /\ user' = [user EXCEPT ![p] = v]
      /\ reducer' = [reducer EXCEPT ![p] = t]
  BY <1>2, <1>3 DEF MarkUnused
<1>5. user'[p] = v /\ reducer'[p] = t
  BY <1>1, <1>4
<1>6. DoMark(reducer[p], user[p], reducer'[p], user'[p], x, grad[p][x])
  BY <1>2, <1>3, <1>5, Zenon DEF MarkUnused, DoMark
<1>7. LocalStep(reducer[p], user[p], reducer'[p], user'[p])
  BY <1>1, <1>6 DEF LocalStep
<1> QED
  BY <1>4, <1>5, <1>6, <1>7 DEF Moves

(* What an accumulator makes of the gradient. *)
Accumulated(p, x) == grad[p][x] \cup {<<p, x[1], user[p].round>>}

LEMMA HookMoves ==
  ASSUME ReducerInv, NEW p \in Ranks, NEW x \in Params, Hook(p, x)
  PROVE  /\ Moves(p)
         /\ Accumulated(p, x) \in SUBSET Contribution
         /\ DoHook(reducer[p], user[p], reducer'[p], user'[p], x, Accumulated(p, x))
         /\ grad' = [grad EXCEPT ![p][x] = Accumulated(p, x)]
<1>1. /\ reducer \in [Ranks -> ReducerType] /\ user \in [Ranks -> UserType]
      /\ grad[p][x] \in SUBSET Contribution /\ user[p].round \in Nat
      /\ Assigned
  BY DEF ReducerInv, Types, UserType
<1>2. PICK g : g = Accumulated(p, x)
  OBVIOUS
<1>3. g \in SUBSET Contribution
  BY <1>1, <1>2, BucketOfType DEF Accumulated, Contribution
<1>4. PICK t : t = MarkFromAutograd(reducer[p], x, g)
  OBVIOUS
<1>5. PICK v : v = LET outside == find_unused_parameters /\ x \notin user[p].seen
                   IN  [user[p] EXCEPT !.due = @ \ {x},
                           !.throws = @ \/ t.error # "none",
                           !.outside = @ \/ outside,
                           !.strayed = @ \/
                             (outside /\ reducer[p].expect_autograd_hooks)]
  OBVIOUS
<1>6. /\ user' = [user EXCEPT ![p] = v]
      /\ reducer' = [reducer EXCEPT ![p] = t]
      /\ grad' = [grad EXCEPT ![p][x] = g]
  BY <1>2, <1>4, <1>5 DEF Hook, Accumulated
<1>7. user'[p] = v /\ reducer'[p] = t
  BY <1>1, <1>6
<1>8. DoHook(reducer[p], user[p], reducer'[p], user'[p], x, g)
  BY <1>4, <1>5, <1>7, Zenon DEF Hook, DoHook
<1>9. LocalStep(reducer[p], user[p], reducer'[p], user'[p])
  BY <1>3, <1>8 DEF LocalStep
<1> QED
  BY <1>2, <1>3, <1>6, <1>7, <1>8, <1>9 DEF Moves

LEMMA FinalizeMoves ==
  ASSUME ReducerInv, NEW p \in Ranks,
         FinalizeInPrepare(p) \/ FinalizeInBackward(p)
  PROVE  /\ Moves(p)
         /\ DoFinalize(reducer[p], user[p], reducer'[p], user'[p])
         /\ grad' = [grad EXCEPT ![p] = CopiedBack(reducer[p], @)]
<1>1. /\ reducer \in [Ranks -> ReducerType] /\ user \in [Ranks -> UserType]
  BY DEF ReducerInv, Types
<1>2. /\ user[p].pc = "preparing" \/ (Done(user[p]) /\ reducer[p].callbacks > 0)
      /\ Finalize(p, "reduced")
  BY Zenon DEF FinalizeInPrepare, FinalizeInBackward, PassDone, Done
<1>3. PICK pc : pc = IF FirstFailed(reducer[p]) > BucketCount THEN "reduced"
                     ELSE IF Retry THEN "idle" ELSE "raised"
  OBVIOUS
<1>4. /\ user' = [user EXCEPT ![p].pc = pc]
      /\ reducer' = [reducer EXCEPT ![p] = Finalized(reducer[p])]
      /\ FinalizeEnabled(reducer[p])
      /\ grad' = [grad EXCEPT ![p] = CopiedBack(reducer[p], @)]
  BY <1>2, <1>3, Zenon DEF Finalize, Goto
<1>5. /\ user' = [user EXCEPT ![p] = [user[p] EXCEPT !.pc = pc]]
      /\ user'[p] = [user[p] EXCEPT !.pc = pc]
      /\ reducer'[p] = Finalized(reducer[p])
  BY <1>1, <1>4
<1>6. DoFinalize(reducer[p], user[p], reducer'[p], user'[p])
  BY <1>2, <1>3, <1>4, <1>5, Zenon DEF DoFinalize
<1>7. LocalStep(reducer[p], user[p], reducer'[p], user'[p])
  BY <1>6 DEF LocalStep
<1> QED
  BY <1>4, <1>5, <1>6, <1>7 DEF Moves

LEMMA BackwardMoves ==
  ASSUME ReducerInv, NEW p \in Ranks, NEW hooks \in SUBSET Params,
         Backward(p, hooks)
  PROVE  /\ Moves(p)
         /\ DoBackward(reducer[p], user[p], reducer'[p], user'[p], hooks)
<1>1. /\ reducer \in [Ranks -> ReducerType] /\ user \in [Ranks -> UserType]
  BY DEF ReducerInv, Types
<1>2. PICK v : v = [user[p] EXCEPT !.pc = "backward", !.passes = @ + 1,
                                   !.due = hooks, !.throws = FALSE]
  OBVIOUS
<1>3. user' = [user EXCEPT ![p] = v] /\ reducer' = reducer
  <2>1. user' = [user EXCEPT ![p] =
          [user[p] EXCEPT !.pc = "backward", !.passes = @ + 1,
                          !.due = hooks, !.throws = FALSE]]
    BY DEF Backward
  <2>2. reducer' = reducer
    BY DEF Backward
  <2> QED
    BY <1>2, <2>1, <2>2
<1>4. /\ user'[p] = v /\ reducer'[p] = reducer[p]
      /\ reducer' = [reducer EXCEPT ![p] = reducer'[p]]
  BY <1>1, <1>3
<1>5. DoBackward(reducer[p], user[p], reducer'[p], user'[p], hooks)
  BY <1>2, <1>4 DEF Backward, DoBackward
<1>6. LocalStep(reducer[p], user[p], reducer'[p], user'[p])
  BY <1>5 DEF LocalStep
<1> QED
  BY <1>3, <1>4, <1>5, <1>6 DEF Moves

LEMMA OtherMoves ==
  ASSUME ReducerInv, NEW p \in Ranks,
         \/ ForwardRaises(p) \/ FunctionThrows(p) \/ BackwardThrows(p)
         \/ BackwardReturns(p)
  PROVE  /\ Moves(p)
         /\ LET s == reducer[p]  u == user[p]  t == reducer'[p]  v == user'[p]
            IN  \/ DoRaise(s, u, t, v) \/ DoThrow(s, u, t, v)
                \/ DoThrown(s, u, t, v) \/ DoReturn(s, u, t, v)
<1> DEFINE s == reducer[p]  u == user[p]  t == reducer'[p]  v == user'[p]
<1>1. /\ reducer \in [Ranks -> ReducerType] /\ user \in [Ranks -> UserType]
      /\ u \in UserType
  BY DEF ReducerInv, Types
<1>2. /\ \/ DoRaise(s, u, t, v) \/ DoThrow(s, u, t, v)
         \/ DoThrown(s, u, t, v) \/ DoReturn(s, u, t, v)
      /\ reducer' = [reducer EXCEPT ![p] = t]
      /\ user' = [user EXCEPT ![p] = v]
  <2>1. CASE ForwardRaises(p)
    <3>1. /\ u.pc \in {"idle", "ready", "reduced"} /\ s.require_finalize
          /\ user' = [user EXCEPT ![p].pc = "raised"] /\ reducer' = reducer
      BY <2>1 DEF ForwardRaises, Goto, PriorFinished
    <3> QED
      BY <1>1, <3>1 DEF DoRaise
  <2>2. CASE FunctionThrows(p)
    <3>1. /\ u.pc = "backward"
          /\ user' = [user EXCEPT ![p].throws = TRUE] /\ reducer' = reducer
      BY <2>2 DEF FunctionThrows
    <3> QED
      BY <1>1, <3>1 DEF DoThrow
  <2>3. CASE BackwardThrows(p)
    <3>1. /\ u.pc = "backward" /\ u.throws
          /\ user' = [user EXCEPT ![p] = [u EXCEPT !.pc = "ready", !.due = {}]]
          /\ reducer' = [reducer EXCEPT ![p] =
                           [s EXCEPT !.callbacks = 0, !.error = "none"]]
      BY <2>3 DEF BackwardThrows
    <3> QED
      BY <1>1, <3>1 DEF DoThrown
  <2>4. CASE BackwardReturns(p)
    <3>1. /\ Done(u) /\ s.callbacks = 0
          /\ user' = [user EXCEPT ![p].pc = "ready"] /\ reducer' = reducer
      BY <2>4 DEF BackwardReturns, PassDone, Done, Goto
    <3> QED
      BY <1>1, <3>1 DEF DoReturn
  <2> QED
    BY <2>1, <2>2, <2>3, <2>4
<1>3. LocalStep(s, u, t, v)
  BY <1>2 DEF LocalStep
<1> QED
  BY <1>2, <1>3 DEF Moves

(* The process group changes the contents of buckets and nothing else. *)
Rewritten(s, t) ==
  /\ t \in ReducerType
  /\ Kept(s, t)
  /\ t.require_finalize = s.require_finalize
  /\ t.next_bucket = s.next_bucket
  /\ t.pending = s.pending /\ t.replicas_pending = s.replicas_pending
  /\ t.work = s.work /\ t.posted = s.posted /\ t.error = s.error

LEMMA RewrittenLocal ==
  ASSUME NEW s, NEW t, NEW u, LocalInv(s, u), Rewritten(s, t)
  PROVE  LocalInv(t, u)
<1>1. Counts(s) => Counts(t)
  BY DEF Rewritten, Counts, Waiting
<1>2. Flags(t, u) /\ Stages(t, u)
  BY <1>1 DEF LocalInv, Rewritten, Kept, Flags, Stages
<1>3. Queued(s, u) => Queued(t, u)
  BY DEF Rewritten, Kept, Queued
<1> QED
  BY <1>2, <1>3 DEF LocalInv, Rewritten

LEMMA PlaceInType ==
  ASSUME Assigned, NEW x \in Params
  PROVE  /\ PlaceIn(BucketOf(x), x[2]) \in DOMAIN buckets_[BucketOf(x)]
         /\ buckets_[BucketOf(x)][PlaceIn(BucketOf(x), x[2])] = x[2]
<1>1. \E j \in DOMAIN buckets_[BucketOf(x)] : buckets_[BucketOf(x)][j] = x[2]
  BY BucketOfType DEF ToSet
<1> QED
  BY <1>1, Zenon DEF PlaceIn

InSum(k, j, e) ==
  \E q \in Ranks, r \in Replicas :
    e \in reducer[q].contents[<<r, buckets_[BucketAt(q, k)][j]>>]

LEMMA SumAtElements ==
  ASSUME NEW k, NEW j, NEW e
  PROVE  e \in SumAt(k, j) <=> InSum(k, j, e)
<1> DEFINE at(q, r) == reducer[q].contents[<<r, buckets_[BucketAt(q, k)][j]>>]
<1>1. e \in SumAt(k, j) <=> \E t \in Ranks \X Replicas : e \in at(t[1], t[2])
  BY Zenon DEF SumAt
<1> HIDE DEF at
<1>2. (\E t \in Ranks \X Replicas : e \in at(t[1], t[2])) <=>
        \E q \in Ranks, r \in Replicas : e \in at(q, r)
  <2>1. ASSUME NEW q \in Ranks, NEW r \in Replicas, e \in at(q, r)
        PROVE  \E t \in Ranks \X Replicas : e \in at(t[1], t[2])
    <3>1. <<q, r>> \in Ranks \X Replicas /\ <<q, r>>[1] = q /\ <<q, r>>[2] = r
      OBVIOUS
    <3> QED
      BY <2>1, <3>1, Zenon
  <2>2. ASSUME NEW t \in Ranks \X Replicas, e \in at(t[1], t[2])
        PROVE  \E q \in Ranks, r \in Replicas : e \in at(q, r)
    <3>1. t[1] \in Ranks /\ t[2] \in Replicas
      OBVIOUS
    <3> QED
      BY <2>2, <3>1, Zenon
  <2> QED
    BY <2>1, <2>2
<1> QED
  BY <1>1, <1>2 DEF at, InSum

LEMMA ReduceRewrites ==
  ASSUME ReducerInv, NEW k \in Nat \ {0}, Reduce(k)
  PROVE  /\ reducer' \in [Ranks -> ReducerType]
         /\ \A p \in Ranks : Rewritten(reducer[p], reducer'[p])
         /\ \A p \in Ranks, x \in Params :
              reducer'[p].contents[x] =
                IF BucketOf(x) = BucketAt(p, k)
                THEN SumAt(k, PlaceIn(BucketOf(x), x[2]))
                ELSE reducer[p].contents[x]
<1>1. /\ Assigned /\ reducer \in [Ranks -> ReducerType]
  BY DEF ReducerInv, Types
<1>2. ASSUME NEW p \in Ranks
      PROVE  BucketAt(p, k) \in Buckets
  <2>1. PICK q \in Seq(Buckets) : q = reducer[p].posted
    BY <1>1 DEF ReducerType
  <2>2. Len(q) >= k
    BY <2>1 DEF Reduce, Posted
  <2>3. q[k] \in Buckets
    BY <2>2
  <2> QED
    BY <2>1, <2>3 DEF BucketAt
<1>3. ASSUME NEW p \in Ranks, NEW j \in DOMAIN buckets_[BucketAt(p, k)]
      PROVE  SumAt(k, j) \in SUBSET Contribution
  <2>1. ASSUME NEW q \in Ranks, NEW r \in Replicas
        PROVE  reducer[q].contents[<<r, buckets_[BucketAt(q, k)][j]>>]
                 \in SUBSET Contribution
    <3>1. PICK b \in Buckets : b = BucketAt(p, k)
      BY <1>2
    <3>2. PICK c \in Buckets : c = BucketAt(q, k)
      BY <1>2
    <3>3. Len(buckets_[b]) = Len(buckets_[c])
      BY <3>1, <3>2 DEF Reduce
    <3>4. buckets_[b] \in Seq(DOMAIN tensors) /\ buckets_[c] \in Seq(DOMAIN tensors)
      BY <1>1 DEF Assigned
    <3>5. buckets_[c][j] \in DOMAIN tensors
      BY <3>1, <3>3, <3>4
    <3>6. <<r, buckets_[c][j]>> \in Params
      BY <3>5 DEF Params
    <3>7. reducer[q].contents \in [Params -> SUBSET Contribution]
      BY <1>1 DEF ReducerType
    <3> QED
      BY <3>2, <3>6, <3>7
  <2>2. ASSUME NEW e \in SumAt(k, j)
        PROVE  e \in Contribution
    <3>1. PICK q \in Ranks, r \in Replicas :
            e \in reducer[q].contents[<<r, buckets_[BucketAt(q, k)][j]>>]
      BY SumAtElements DEF InSum
    <3> QED
      BY <2>1, <3>1
  <2> QED
    BY <2>2
<1>4. ASSUME NEW p \in Ranks
      PROVE  /\ Rewritten(reducer[p], reducer'[p])
             /\ \A x \in Params :
                  reducer'[p].contents[x] =
                    IF BucketOf(x) = BucketAt(p, k)
                    THEN SumAt(k, PlaceIn(BucketOf(x), x[2]))
                    ELSE reducer[p].contents[x]
  <2>1. PICK s \in ReducerType : s = reducer[p]
    BY <1>1
  <2>2. PICK c : c = [x \in Params |->
                        IF BucketOf(x) = BucketAt(p, k)
                        THEN SumAt(k, PlaceIn(BucketOf(x), x[2]))
                        ELSE s.contents[x]]
    OBVIOUS
  <2>3. reducer'[p] = [s EXCEPT !.contents = c]
    BY <2>1, <2>2 DEF Reduce
  <2>4. ASSUME NEW x \in Params
        PROVE  c[x] \in SUBSET Contribution
    <3>1. CASE BucketOf(x) = BucketAt(p, k)
      BY <1>1, <1>3, <2>2, <3>1, PlaceInType
    <3>2. CASE BucketOf(x) # BucketAt(p, k)
      BY <2>2, <3>2 DEF ReducerType
    <3> QED
      BY <3>1, <3>2
  <2>5. c \in [Params -> SUBSET Contribution]
    BY <2>2, <2>4
  <2>6. Rewritten(s, reducer'[p]) /\ reducer'[p].contents = c
    BY <2>3, <2>5 DEF Rewritten, ReducerType, Kept
  <2> QED
    BY <2>1, <2>2, <2>6
<1>5. reducer' \in [Ranks -> ReducerType]
  <2>1. DOMAIN reducer' = Ranks /\ reducer' = [p \in Ranks |-> reducer'[p]]
    BY DEF Reduce
  <2> QED
    BY <1>4, <2>1 DEF Rewritten
<1> QED
  BY <1>4, <1>5

(* The buckets and the model do not change. *)
LEMMA FixedSame ==
  ASSUME fixed' = fixed
  PROVE  /\ Params' = Params /\ Buckets' = Buckets /\ Replicas' = Replicas
         /\ BucketCount' = BucketCount /\ tensors' = tensors
         /\ buckets_' = buckets_ /\ module' = module
         /\ find_unused_parameters' = find_unused_parameters
         /\ Contribution' = Contribution
         /\ ReducerType' = ReducerType /\ UserType' = UserType
         /\ Assigned' <=> Assigned
<1>1. /\ module' = module /\ buckets_' = buckets_
      /\ find_unused_parameters' = find_unused_parameters
  BY DEF fixed
<1>2. /\ Replicas' = Replicas /\ tensors' = tensors
      /\ BucketCount' = BucketCount
  BY <1>1 DEF Replicas, tensors, BucketCount
<1>3. Buckets' = Buckets /\ Params' = Params
  BY <1>2 DEF Buckets, Params
<1>4. Contribution' = Contribution
  BY <1>2 DEF Contribution
<1>5. ReducerType' = ReducerType
  BY <1>2, <1>3, <1>4 DEF ReducerType
<1>6. UserType' = UserType
  BY <1>3 DEF UserType
<1>7. Assigned' <=> Assigned
  BY <1>1, <1>2, <1>3 DEF Assigned
<1> QED
  BY <1>1, <1>2, <1>3, <1>4, <1>5, <1>6, <1>7

LEMMA FixedBucketOf ==
  ASSUME fixed' = fixed, NEW x
  PROVE  BucketOf(x)' = BucketOf(x)
BY FixedSame DEF BucketOf

LEMMA FixedLocal ==
  ASSUME fixed' = fixed, NEW s, NEW u
  PROVE  LocalInv(s, u)' <=> LocalInv(s, u)
<1>1. \A b : Waiting(s, b)' = Waiting(s, b)
  BY FixedSame DEF Waiting
<1>2. Counts(s)' <=> Counts(s)
  BY <1>1, FixedSame DEF Counts
<1>3. Flags(s, u)' <=> Flags(s, u)
  BY <1>2, FixedSame DEF Flags
<1>4. Stages(s, u)' <=> Stages(s, u)
  BY FixedSame DEF Stages
<1>5. Queued(s, u)' <=> Queued(s, u)
  BY FixedSame DEF Queued
<1> QED
  BY <1>3, <1>4, <1>5, FixedSame DEF LocalInv

(* A step of the system is a step of a process, or of the group. *)
ProcessStep(p) ==
  \/ \E seen \in SUBSET Params : Forward(p, seen)
  \/ \E x \in Params : MarkUnused(p, x) \/ Hook(p, x)
  \/ \E hooks \in SUBSET Params : Backward(p, hooks)
  \/ FinalizeInPrepare(p) \/ FinalizeInBackward(p)
  \/ ForwardRaises(p) \/ FunctionThrows(p)
  \/ BackwardThrows(p) \/ BackwardReturns(p)

GroupStep == \E k \in Nat \ {0} : Reduce(k) \/ TimeOut(k)

LEMMA NextCases ==
  ASSUME ReducerInv, Next
  PROVE  (\E p \in Ranks : ProcessStep(p)) \/ GroupStep
<1>1. CASE Group
  <2>0. PICK p \in Ranks :
          \E k \in DOMAIN reducer[p].posted : Reduce(k) \/ TimeOut(k)
    BY <1>1 DEF Group
  <2>1. PICK k \in DOMAIN reducer[p].posted : Reduce(k) \/ TimeOut(k)
    BY <2>0
  <2>2. reducer[p].posted \in Seq(Buckets)
    BY DEF ReducerInv, Types, ReducerType
  <2>3. k \in Nat \ {0}
    BY <2>2
  <2> QED
    BY <2>1, <2>3 DEF GroupStep
<1>2. ASSUME NEW p \in Ranks,
             \/ \E g \in module.graphs : Forward(p, {x \in Params : x[2] \in g})
             \/ \E hooks \in SUBSET Params : Backward(p, hooks)
             \/ ForwardRaises(p) \/ FunctionThrows(p) \/ Step(p)
      PROVE  ProcessStep(p)
  <2>1. \A g : {x \in Params : x[2] \in g} \in SUBSET Params
    OBVIOUS
  <2> QED
    BY <1>2, <2>1 DEF ProcessStep, Step
<1> QED
  BY <1>1, <1>2 DEF Next

LEMMA FixedByNext ==
  ASSUME ReducerInv, Next
  PROVE  fixed' = fixed
<1>1. ASSUME NEW p \in Ranks, ProcessStep(p)
      PROVE  fixed' = fixed
  BY <1>1 DEF ProcessStep, Forward, MarkUnused, Hook, Backward,
     FinalizeInPrepare, FinalizeInBackward, Finalize, ForwardRaises,
     FunctionThrows, BackwardThrows, BackwardReturns
<1>2. ASSUME GroupStep
      PROVE  fixed' = fixed
  BY <1>2 DEF GroupStep, Reduce, TimeOut
<1> QED
  BY <1>1, <1>2, NextCases

LEMMA ProcessMoves ==
  ASSUME ReducerInv, NEW p \in Ranks, ProcessStep(p)
  PROVE  Moves(p)
BY ForwardMoves, MarkMoves, HookMoves, FinalizeMoves, BackwardMoves, OtherMoves
   DEF ProcessStep

LEMMA GradTyped ==
  ASSUME ReducerInv, NEW p \in Ranks, ProcessStep(p)
  PROVE  grad' \in [Ranks -> [Params -> SUBSET Contribution]]
<1>1. /\ grad \in [Ranks -> [Params -> SUBSET Contribution]] /\ Assigned
      /\ reducer[p].contents \in [Params -> SUBSET Contribution]
  BY DEF ReducerInv, Types, ReducerType
<1>2. ASSUME NEW seen \in SUBSET Params, Forward(p, seen)
      PROVE  grad' \in [Ranks -> [Params -> SUBSET Contribution]]
  BY <1>1, <1>2 DEF Forward, Zero
<1>3. ASSUME NEW x \in Params, Hook(p, x)
      PROVE  grad' \in [Ranks -> [Params -> SUBSET Contribution]]
  <2>1. PICK a \in SUBSET Contribution :
          a = Accumulated(p, x) /\ grad' = [grad EXCEPT ![p][x] = a]
    BY <1>3, HookMoves
  <2> QED
    BY <1>1, <2>1
<1>4. ASSUME FinalizeInPrepare(p) \/ FinalizeInBackward(p)
      PROVE  grad' \in [Ranks -> [Params -> SUBSET Contribution]]
  <2>1. grad' = [grad EXCEPT ![p] = CopiedBack(reducer[p], grad[p])]
    BY <1>4, FinalizeMoves
  <2>2. CopiedBack(reducer[p], grad[p]) \in [Params -> SUBSET Contribution]
    BY <1>1 DEF CopiedBack
  <2> QED
    BY <1>1, <2>1, <2>2
<1>5. ASSUME \/ \E x \in Params : MarkUnused(p, x)
             \/ \E hooks \in SUBSET Params : Backward(p, hooks)
             \/ ForwardRaises(p) \/ FunctionThrows(p)
             \/ BackwardThrows(p) \/ BackwardReturns(p)
      PROVE  grad' = grad
  BY <1>5 DEF MarkUnused, Backward, ForwardRaises, FunctionThrows,
     BackwardThrows, BackwardReturns
<1> QED
  BY <1>1, <1>2, <1>3, <1>4, <1>5 DEF ProcessStep

LEMMA ReducerInvStep ==
  ASSUME ReducerInv, [Next]_vars
  PROVE  ReducerInv'
<1>1. CASE UNCHANGED vars
  <2>1. fixed' = fixed /\ reducer' = reducer /\ user' = user /\ grad' = grad
    BY <1>1 DEF vars
  <2>2. Assigned' /\ Types'
    BY <2>1, FixedSame DEF ReducerInv, Types
  <2>3. ASSUME NEW p \in Ranks
        PROVE  LocalInv(reducer[p], user[p])'
    <3>1. PICK s : s = reducer[p]
      OBVIOUS
    <3>2. PICK u : u = user[p]
      OBVIOUS
    <3>3. LocalInv(s, u)
      BY <3>1, <3>2 DEF ReducerInv
    <3>4. LocalInv(s, u)'
      BY <2>1, <3>3, FixedLocal
    <3>5. s = reducer'[p] /\ u = user'[p]
      BY <2>1, <3>1, <3>2
    <3> QED
      BY <3>4, <3>5
  <2> QED
    BY <2>2, <2>3 DEF ReducerInv
<1>2. CASE Next
  <2>1. fixed' = fixed
    BY <1>2, FixedByNext
  <2>2. Assigned'
    BY <2>1, FixedSame DEF ReducerInv
  <2>3. /\ reducer \in [Ranks -> ReducerType] /\ user \in [Ranks -> UserType]
        /\ grad \in [Ranks -> [Params -> SUBSET Contribution]] /\ Assigned
    BY DEF ReducerInv, Types
  <2>4. \/ \E p \in Ranks : ProcessStep(p)
        \/ \E k \in Nat \ {0} : Reduce(k)
        \/ \E k \in Nat \ {0} : TimeOut(k)
    BY <1>2, NextCases DEF GroupStep
  <2> DEFINE After ==
        /\ reducer' \in [Ranks -> ReducerType] /\ user' \in [Ranks -> UserType]
        /\ grad' \in [Ranks -> [Params -> SUBSET Contribution]]
        /\ \A p \in Ranks : LocalInv(reducer'[p], user'[p])
  <2>5. After
    <3>1. ASSUME NEW p \in Ranks, ProcessStep(p)
          PROVE  After
      <4>1. Moves(p)
        BY <3>1, ProcessMoves
      <4>2. LocalInv(reducer'[p], user'[p])
        BY <2>3, <4>1, LocalStepInv DEF ReducerInv, Moves
      <4>3. reducer'[p] \in ReducerType /\ user'[p] \in UserType
        BY <4>2 DEF LocalInv
      <4>4. PICK t \in ReducerType : t = reducer'[p]
        BY <4>3
      <4>5. PICK v \in UserType : v = user'[p]
        BY <4>3
      <4>6. reducer' = [reducer EXCEPT ![p] = t] /\ user' = [user EXCEPT ![p] = v]
        BY <4>1, <4>4, <4>5 DEF Moves
      <4>7. reducer' \in [Ranks -> ReducerType] /\ user' \in [Ranks -> UserType]
        BY <2>3, <4>6
      <4>8. \A q \in Ranks : q # p => reducer'[q] = reducer[q] /\ user'[q] = user[q]
        BY <2>3, <4>6
      <4>9. \A q \in Ranks : LocalInv(reducer'[q], user'[q])
        BY <4>2, <4>8 DEF ReducerInv
      <4> QED
        BY <3>1, <4>7, <4>9, GradTyped
    <3>2. ASSUME NEW k \in Nat \ {0}, Reduce(k)
          PROVE  After
      <4>1. user' = user /\ grad' = grad
        BY <3>2 DEF Reduce
      <4>2. \A p \in Ranks : Rewritten(reducer[p], reducer'[p])
        BY <3>2, ReduceRewrites
      <4>3. \A p \in Ranks : LocalInv(reducer'[p], user[p])
        BY <4>2, RewrittenLocal DEF ReducerInv
      <4> QED
        BY <2>3, <3>2, <4>1, <4>3, ReduceRewrites
    <3>3. ASSUME NEW k \in Nat \ {0}, TimeOut(k)
          PROVE  After
      BY <2>3, <3>3 DEF TimeOut, ReducerInv
    <3> QED
      BY <2>4, <3>1, <3>2, <3>3
  <2>6. Types'
    BY <2>1, <2>5, FixedSame DEF Types
  <2>7. ASSUME NEW p \in Ranks
        PROVE  LocalInv(reducer[p], user[p])'
    <3>1. PICK s : s = reducer'[p]
      OBVIOUS
    <3>2. PICK u : u = user'[p]
      OBVIOUS
    <3>3. LocalInv(s, u)
      BY <2>5, <3>1, <3>2
    <3>4. LocalInv(s, u)'
      BY <2>1, <3>3, FixedLocal
    <3> QED
      BY <3>1, <3>2, <3>4
  <2> QED
    BY <2>2, <2>6, <2>7 DEF ReducerInv
<1> QED
  BY <1>1, <1>2

LEMMA InitInv ==
  ASSUME Init, AssignmentSound
  PROVE  /\ ReducerInv
         /\ \A p \in Ranks :
              /\ reducer[p].next_bucket = 1 /\ reducer[p].posted = <<>>
              /\ ~reducer[p].expect_autograd_hooks
              /\ ~reducer[p].require_finalize
              /\ reducer[p].error = "none"
              /\ user[p].pc = "idle" /\ user[p].round = 0
              /\ user[p].passes = 0 /\ user[p].forwards = 0
              /\ ~user[p].outside /\ ~user[p].strayed
<1>1. Assigned
  BY SoundIsAssigned
<1>2. BucketCount \in Nat \ {0}
  BY <1>1 DEF Assigned
<1>3. PICK pend \in [Buckets -> [Replicas -> Nat]] :
        pend = [b \in Buckets |-> [r \in Replicas |-> 0]]
  OBVIOUS
<1>4. PICK rp \in [Buckets -> Nat] : rp = [b \in Buckets |-> 0]
  OBVIOUS
<1>5. PICK cont \in [Params -> SUBSET Contribution] : cont = [x \in Params |-> Zero]
  BY DEF Zero
<1>6. PICK w \in [Buckets -> Nat] : w = [b \in Buckets |-> NoWork]
  BY DEF NoWork
<1>7. PICK s : s = NewReducer
  OBVIOUS
<1>8. s = [expect_autograd_hooks |-> FALSE, require_finalize |-> FALSE,
           has_marked_unused |-> FALSE, next_bucket |-> 1, pending |-> pend,
           replicas_pending |-> rp, contents |-> cont, work |-> w,
           posted |-> <<>>, callbacks |-> 0, error |-> "none"]
  BY <1>3, <1>4, <1>5, <1>6, <1>7 DEF NewReducer
<1>9. s \in ReducerType
  <2>1. <<>> \in Seq(Buckets) /\ "none" \in Errors /\ 1 \in 1 .. (BucketCount + 1)
    BY <1>2 DEF Errors
  <2> QED
    BY <1>8, <2>1 DEF ReducerType
<1>10. PICK u : u = [pc |-> "idle", forwards |-> 0, passes |-> 0, seen |-> {},
                     due |-> {}, throws |-> FALSE, outside |-> FALSE,
                     strayed |-> FALSE, round |-> 0]
  OBVIOUS
<1>11. u \in UserType
  BY <1>10 DEF UserType, Pcs
<1>12. /\ reducer = [p \in Ranks |-> s] /\ user = [p \in Ranks |-> u]
       /\ grad = [p \in Ranks |-> cont]
  BY <1>5, <1>7, <1>10 DEF Init
<1>13. Types
  BY <1>9, <1>11, <1>12 DEF Types
<1>14. Flags(s, u) /\ Stages(s, u) /\ Queued(s, u)
  BY <1>8, <1>10 DEF Flags, Stages, Queued
<1>15. LocalInv(s, u)
  BY <1>9, <1>11, <1>14 DEF LocalInv
<1> QED
  BY <1>1, <1>8, <1>10, <1>12, <1>13, <1>15 DEF ReducerInv

(* ReducerInvariant: the counters of a bucket and of its replicas agree,   *)
(* the buckets before next_bucket_ are complete and it is not, and the     *)
(* flags, the queued finalizer and the place in the training loop belong   *)
(* together: whichever parameters are unused, whatever order the hooks run *)
(* in, after exceptions and time-outs, for every number of backward passes.*)
THEOREM ReducerInvariant == Spec /\ AssignmentSound => []ReducerInv
<1>1. Init /\ AssignmentSound => ReducerInv
  BY InitInv
<1>2. ReducerInv /\ [Next]_vars => ReducerInv'
  BY ReducerInvStep
<1> QED
  BY <1>1, <1>2, PTL DEF Spec

-----------------------------------------------------------------------------
(***************************************************************************)
(* The order of the collectives: what a process posts goes round the       *)
(* buckets.                                                                *)
(***************************************************************************)
Following(b) == IF b = BucketCount THEN 1 ELSE b + 1

Walk(s) ==
  LET q == s.posted IN
  /\ q # <<>> => q[1] = 1
  /\ \A k \in 1 .. (Len(q) - 1) : q[k + 1] = Following(q[k])
  /\ s.next_bucket > 1 => q # <<>> /\ q[Len(q)] = s.next_bucket - 1
  /\ s.next_bucket = 1 /\ q # <<>> => q[Len(q)] = BucketCount

(* What a step of a process does to the list of its collectives. *)
Posting(s, t) ==
  \/ t.posted = s.posted /\ t.next_bucket = s.next_bucket /\ t.work = s.work
  \/ /\ t.posted = s.posted /\ t.next_bucket = 1
     /\ s.next_bucket \in {1, BucketCount + 1}
  \/ LaunchedFrom(s, t)

LEMMA StepPosts ==
  ASSUME Assigned, NEW s, NEW u, NEW t, NEW v, LocalInv(s, u),
         LocalStep(s, u, t, v)
  PROVE  Posting(s, t)
<1>1. s \in ReducerType /\ Flags(s, u) /\ Stages(s, u)
  BY DEF LocalInv
<1>2. ASSUME NEW seen \in SUBSET Params, NEW n \in Nat,
             DoForward(s, u, t, v, seen, n)
      PROVE  Posting(s, t)
  <2>1. ~s.require_finalize
    BY <1>2 DEF DoForward
  <2>2. s.next_bucket \in {1, BucketCount + 1}
    BY <1>1, <2>1 DEF Flags
  <2>3. t = ResetAccounting(s)
    BY <1>2 DEF DoForward
  <2>4. t.posted = s.posted /\ t.next_bucket = 1
    BY <1>1, <2>3, ResetCounts
  <2> QED
    BY <2>2, <2>4 DEF Posting
<1>3. ASSUME NEW x \in Params, NEW value \in SUBSET Contribution,
             DoMark(s, u, t, v, x, value)
      PROVE  Posting(s, t)
  <2>1. Counts(s) /\ t = CopyAndCount(s, x, value)
    BY <1>1, <1>3 DEF Flags, Stages, DoMark
  <2> QED
    BY <1>1, <2>1, CopyAndCountCounts DEF CountedDown, Repeated, Posting
<1>4. ASSUME NEW x \in Params, NEW value \in SUBSET Contribution,
             DoHook(s, u, t, v, x, value)
      PROVE  Posting(s, t)
  <2>1. t = MarkFromAutograd(s, x, value)
    BY <1>4 DEF DoHook
  <2>2. CASE ~s.expect_autograd_hooks
    BY <2>1, <2>2 DEF MarkFromAutograd, Posting
  <2>3. CASE s.expect_autograd_hooks
    <3>1. Counts(s)
      BY <1>1, <2>3 DEF Flags
    <3> QED
      BY <1>1, <2>1, <2>3, <3>1, HookCounts DEF Counted, Repeated, Posting
  <2> QED
    BY <2>2, <2>3
<1>5. ASSUME DoFinalize(s, u, t, v)
      PROVE  Posting(s, t)
  <2>1. t = [s EXCEPT !.expect_autograd_hooks = FALSE,
                      !.require_finalize = FALSE, !.callbacks = 0]
    BY <1>5, FinalizeAssertsHold
  <2>2. /\ t.posted = s.posted /\ t.next_bucket = s.next_bucket
        /\ t.work = s.work
    BY <1>1, <2>1 DEF ReducerType
  <2> QED
    BY <2>2 DEF Posting
<1>6. ASSUME \/ \E hooks \in SUBSET Params : DoBackward(s, u, t, v, hooks)
             \/ DoRaise(s, u, t, v) \/ DoThrow(s, u, t, v)
             \/ DoThrown(s, u, t, v) \/ DoReturn(s, u, t, v)
      PROVE  Posting(s, t)
  BY <1>1, <1>6
     DEF DoBackward, DoRaise, DoThrow, DoThrown, DoReturn, ReducerType, Posting
<1> QED
  BY <1>2, <1>3, <1>4, <1>5, <1>6 DEF LocalStep

LEMMA LaunchedElements ==
  ASSUME Assigned, NEW s \in ReducerType, NEW t \in ReducerType,
         LaunchedFrom(s, t)
  PROVE  /\ Len(t.posted) = Len(s.posted) + (t.next_bucket - s.next_bucket)
         /\ \A k \in 1 .. Len(s.posted) : t.posted[k] = s.posted[k]
         /\ \A k \in (Len(s.posted) + 1) .. Len(t.posted) :
              t.posted[k] = s.next_bucket + (k - Len(s.posted)) - 1
<1>1. PICK m \in Nat : m = s.next_bucket /\ m >= 1
  BY DEF ReducerType, Assigned
<1>2. PICK n \in Nat : n = t.next_bucket /\ m <= n /\ n <= BucketCount + 1
  BY <1>1 DEF ReducerType, Assigned, LaunchedFrom
<1>3. PICK q \in Seq(Buckets) : q = s.posted
  BY DEF ReducerType
<1>4. PICK a : a = Ascending(m, n - 1)
  OBVIOUS
<1>5. a \in Seq(Buckets) /\ Len(a) = n - m /\ \A i \in 1 .. (n - m) : a[i] = m + i - 1
  <2>1. (n - 1) + 1 - m = n - m /\ n - m \in Nat
    BY <1>2
  <2>2. a = [i \in 1 .. (n - m) |-> m + i - 1]
    BY <1>4, <2>1 DEF Ascending
  <2>3. BucketCount \in Nat
    BY DEF Assigned
  <2>4. \A i \in 1 .. (n - m) : m + i - 1 \in Buckets
    BY <1>1, <1>2, <2>3 DEF Buckets
  <2> QED
    BY <2>1, <2>2, <2>4
<1>6. t.posted = q \o a
  BY <1>1, <1>2, <1>3, <1>4 DEF LaunchedFrom
<1>7. /\ Len(q \o a) = Len(q) + Len(a)
      /\ \A i \in 1 .. (Len(q) + Len(a)) :
           (q \o a)[i] = IF i <= Len(q) THEN q[i] ELSE a[i - Len(q)]
  BY <1>3, <1>5, ConcatProperties
<1>8. \A k \in 1 .. Len(q) : (q \o a)[k] = q[k]
  BY <1>3, <1>5, <1>7
<1>9. ASSUME NEW k \in (Len(q) + 1) .. Len(q \o a)
      PROVE  (q \o a)[k] = m + (k - Len(q)) - 1
  <2>1. k \in 1 .. (Len(q) + Len(a)) /\ ~ (k <= Len(q)) /\ k - Len(q) \in 1 .. (n - m)
    BY <1>5, <1>7
  <2>2. (q \o a)[k] = a[k - Len(q)]
    BY <1>7, <2>1
  <2> QED
    BY <1>5, <2>1, <2>2
<1> QED
  BY <1>1, <1>2, <1>3, <1>5, <1>6, <1>7, <1>8, <1>9

(* The tags of the buckets that have been launched: with First(s) tags     *)
(* given out before, bucket b has the tag First(s) + b.                    *)
First(s) == Len(s.posted) + 1 - s.next_bucket

Tags(s) ==
  \A b \in Buckets : b < s.next_bucket => s.work[b] = First(s) + b

Lined(s) == Walk(s) /\ Tags(s) /\ First(s) \in Nat

LEMMA PostingFirst ==
  ASSUME Assigned, NEW s \in ReducerType, NEW t \in ReducerType,
         LaunchedFrom(s, t)
  PROVE  First(t) = First(s)
<1>1. PICK m \in Nat : m = s.next_bucket
  BY DEF ReducerType, Assigned
<1>2. PICK n \in Nat : n = t.next_bucket
  BY DEF ReducerType, Assigned
<1>3. PICK l \in Nat : l = Len(s.posted)
  BY DEF ReducerType
<1>4. Len(t.posted) = l + (n - m)
  BY <1>1, <1>2, <1>3, LaunchedElements
<1>5. First(s) = l + 1 - m /\ First(t) = (l + (n - m)) + 1 - n
  BY <1>1, <1>2, <1>3, <1>4 DEF First
<1> QED
  BY <1>5

LEMMA LaunchedWalk ==
  ASSUME Assigned, NEW s \in ReducerType, NEW t \in ReducerType,
         LaunchedFrom(s, t), Walk(s)
  PROVE  Walk(t)
<1>1. PICK m \in Nat : m = s.next_bucket /\ m >= 1
  BY DEF ReducerType, Assigned
<1>2. PICK B \in Nat \ {0} : B = BucketCount
  BY DEF Assigned
<1>3. PICK n \in Nat : n = t.next_bucket /\ m <= n /\ n <= B + 1
  BY <1>1, <1>2 DEF ReducerType, LaunchedFrom
<1>4. PICK q \in Seq(Buckets) : q = s.posted
  BY DEF ReducerType
<1>5. PICK w \in Seq(Buckets) : w = t.posted
  BY DEF ReducerType
<1>6. PICK l \in Nat : l = Len(q)
  BY <1>4
<1>7. /\ Len(w) = l + (n - m)
      /\ \A k \in 1 .. l : w[k] = q[k]
      /\ \A k \in (l + 1) .. Len(w) : w[k] = m + (k - l) - 1
  BY <1>1, <1>3, <1>4, <1>5, <1>6, LaunchedElements
<1>8. /\ l # 0 => q[1] = 1
      /\ \A k \in 1 .. (l - 1) : q[k + 1] = Following(q[k])
      /\ m > 1 => l # 0 /\ q[l] = m - 1
      /\ m = 1 /\ l # 0 => q[l] = B
  <2>1. q # <<>> <=> l # 0
    BY <1>4, <1>6
  <2> QED
    BY <1>1, <1>2, <1>4, <1>6, <2>1 DEF Walk
<1>9. PICK j \in Nat : j = Len(w) /\ (w # <<>> <=> j # 0)
  BY <1>5
<1>10. j = l + (n - m)
  BY <1>7, <1>9
<1>11. j # 0 => w[1] = 1
  <2>1. CASE l # 0
    BY <1>6, <1>7, <1>8, <2>1
  <2>2. CASE l = 0
    <3>1. ~ (m > 1) /\ m = 1
      BY <1>1, <1>8, <2>2
    <3> QED
      BY <1>7, <1>9, <2>2, <3>1
  <2> QED
    BY <2>1, <2>2
<1>12. ASSUME NEW k \in 1 .. (j - 1)
       PROVE  w[k + 1] = Following(w[k])
  <2>1. CASE k < l
    <3>1. k \in 1 .. l /\ k + 1 \in 1 .. l /\ k \in 1 .. (l - 1)
      BY <1>6, <2>1
    <3> QED
      BY <1>7, <1>8, <3>1
  <2>2. CASE k = l
    <3>1. w[k + 1] = m /\ w[k] = q[l] /\ l # 0
      BY <1>7, <1>9, <2>2
    <3>2. CASE m > 1
      <4>1. w[k] = m - 1 /\ m - 1 # B
        <5>1. l < j
          BY <1>9, <2>2
        <5>2. m <= B
          BY <1>1, <1>2, <1>3, <1>6, <1>10, <5>1
        <5> QED
          BY <1>8, <3>1, <3>2, <5>2
      <4> QED
        BY <1>2, <3>1, <4>1 DEF Following
    <3>3. CASE m = 1
      BY <1>2, <1>8, <3>1, <3>3 DEF Following
    <3> QED
      BY <1>1, <3>2, <3>3
  <2>3. CASE k > l
    <3>1. k \in (l + 1) .. Len(w) /\ k + 1 \in (l + 1) .. Len(w)
      BY <1>9, <2>3
    <3>2. w[k] = m + (k - l) - 1 /\ w[k + 1] = m + (k + 1 - l) - 1
      BY <1>7, <3>1
    <3>3. w[k] # B
      BY <1>3, <1>10, <3>2
    <3> QED
      BY <1>2, <3>2, <3>3 DEF Following
  <2> QED
    BY <2>1, <2>2, <2>3
<1>13. n > 1 => j # 0 /\ w[j] = n - 1
  <2>1. CASE n = m
    <3>1. j = l
      BY <1>10, <2>1
    <3> QED
      BY <1>7, <1>8, <2>1, <3>1
  <2>2. CASE n # m
    <3>1. j # 0 /\ j \in (l + 1) .. Len(w)
      BY <1>3, <1>9, <1>10, <2>2
    <3> QED
      BY <1>7, <1>10, <3>1
  <2> QED
    BY <2>1, <2>2
<1>14. n = 1 /\ j # 0 => w[j] = B
  BY <1>1, <1>3, <1>7, <1>8, <1>10
<1> QED
  BY <1>2, <1>3, <1>5, <1>9, <1>11, <1>12, <1>13, <1>14 DEF Walk

LEMMA LinedStep ==
  ASSUME Assigned, NEW s \in ReducerType, NEW t \in ReducerType,
         Posting(s, t), Lined(s)
  PROVE  Lined(t)
<1>1. CASE t.posted = s.posted /\ t.next_bucket = s.next_bucket /\ t.work = s.work
  BY <1>1 DEF Lined, Walk, Tags, First
<1>2. CASE /\ t.posted = s.posted /\ t.next_bucket = 1
           /\ s.next_bucket \in {1, BucketCount + 1}
  <2>1. PICK q \in Seq(Buckets) : q = s.posted /\ t.posted = q
    BY <1>2 DEF ReducerType
  <2>2. BucketCount \in Nat \ {0}
    BY DEF Assigned
  <2>3. /\ q # <<>> => q[1] = 1
        /\ \A k \in 1 .. (Len(q) - 1) : q[k + 1] = Following(q[k])
    BY <2>1 DEF Lined, Walk
  <2>4. q # <<>> => q[Len(q)] = BucketCount
    <3>1. CASE s.next_bucket = 1
      BY <2>1, <3>1 DEF Lined, Walk
    <3>2. CASE s.next_bucket = BucketCount + 1
      <4>1. s.next_bucket > 1 /\ s.next_bucket - 1 = BucketCount
        BY <2>2, <3>2
      <4> QED
        BY <2>1, <4>1 DEF Lined, Walk
    <3> QED
      BY <1>2, <3>1, <3>2
  <2>5. Walk(t)
    BY <1>2, <2>1, <2>3, <2>4 DEF Walk
  <2>6. Tags(t) /\ First(t) \in Nat
    BY <1>2, <2>1, <2>2 DEF Tags, First, Buckets
  <2> QED
    BY <2>5, <2>6 DEF Lined
<1>3. CASE LaunchedFrom(s, t)
  <2>1. Walk(t)
    BY <1>3, LaunchedWalk DEF Lined
  <2>2. First(t) = First(s)
    BY <1>3, PostingFirst
  <2>3. PICK f \in Nat : f = First(s)
    BY DEF Lined
  <2>4. ASSUME NEW b \in Buckets, b < t.next_bucket
        PROVE  t.work[b] = f + b
    <3>1. PICK m \in Nat : m = s.next_bucket
      BY DEF ReducerType, Assigned
    <3>2. PICK n \in Nat : n = t.next_bucket /\ b \in Nat
      BY DEF ReducerType, Assigned, Buckets
    <3>3. PICK l \in Nat : l = Len(s.posted)
      BY DEF ReducerType
    <3>4. f = l + 1 - m
      BY <2>3, <3>1, <3>3 DEF First
    <3>5. t.work[b] = IF b \in m .. (n - 1) THEN l + 1 + (b - m) ELSE s.work[b]
      BY <1>3, <3>1, <3>2, <3>3 DEF LaunchedFrom
    <3>6. CASE b < m
      <4>1. s.work[b] = f + b
        BY <2>3, <3>1, <3>6 DEF Lined, Tags
      <4> QED
        BY <3>1, <3>2, <3>5, <3>6, <4>1
    <3>7. CASE b >= m
      BY <2>4, <3>1, <3>2, <3>4, <3>5, <3>7
    <3> QED
      BY <3>1, <3>2, <3>6, <3>7
  <2> QED
    BY <2>1, <2>2, <2>3, <2>4 DEF Lined, Tags
<1> QED
  BY <1>1, <1>2, <1>3 DEF Posting

-----------------------------------------------------------------------------
(***************************************************************************)
(* Collectives under way.  While no exception has ended the training, the  *)
(* only ones are those of a reduction that is not finalized.               *)
(***************************************************************************)
Closed(s, u) ==
  u.pc # "raised" =>
    /\ s.require_finalize => \A k \in 1 .. First(s) : ~Open(k)
    /\ ~s.require_finalize => \A k \in 1 .. Len(s.posted) : ~Open(k)

(* finalize_backward() has copied back all buckets: none has failed. *)
LEMMA NoneFailed ==
  ASSUME Assigned, NEW s, FirstFailed(s) > BucketCount, NEW b \in Buckets
  PROVE  ~Failed(s, b)
<1> DEFINE S == {c \in Buckets : Failed(s, c)} \cup {BucketCount + 1}
<1>1. BucketCount \in Nat
  BY DEF Assigned
<1>2. S \in SUBSET Nat /\ S # {}
  BY <1>1 DEF Buckets
<1>3. \E m \in S : \A k \in S : m <= k
  BY <1>2, MinExists
<1>4. Min(S) \in S /\ \A k \in S : Min(S) <= k
  BY <1>3, Zenon DEF Min
<1>5. FirstFailed(s) = Min(S)
  BY DEF FirstFailed
<1>6. ASSUME Failed(s, b)
      PROVE  FALSE
  <2>1. b \in S
    BY <1>6
  <2>2. Min(S) <= b /\ b <= BucketCount /\ Min(S) \in Nat /\ b \in Nat
    BY <1>1, <1>2, <1>4, <2>1 DEF Buckets
  <2> QED
    BY <1>1, <1>5, <2>2
<1> QED
  BY <1>6

LEMMA FirstWithin ==
  ASSUME Assigned, NEW s \in ReducerType, First(s) \in Nat,
         NEW k \in 1 .. First(s)
  PROVE  k \in 1 .. Len(s.posted)
<1>1. PICK m \in Nat : m = s.next_bucket /\ m >= 1
  BY DEF ReducerType, Assigned
<1>2. PICK l \in Nat : l = Len(s.posted)
  BY DEF ReducerType
<1>3. First(s) = l + 1 - m
  BY <1>1, <1>2 DEF First
<1> QED
  BY <1>1, <1>2, <1>3

(* Counting a parameter begins a reduction, or goes on with one. *)
LEMMA CountedClosed ==
  ASSUME Assigned, NEW s \in ReducerType, NEW u, NEW t \in ReducerType, NEW v,
         Lined(s), Closed(s, u), u.pc # "raised",
         t.require_finalize, First(t) = First(s)
  PROVE  Closed(t, v)
<1>1. \A k \in 1 .. First(s) : ~Open(k)
  <2>1. CASE s.require_finalize
    BY <2>1 DEF Closed
  <2>2. CASE ~s.require_finalize
    BY <2>2, FirstWithin DEF Closed, Lined
  <2> QED
    BY <2>1, <2>2
<1> QED
  BY <1>1 DEF Closed

LEMMA FinalizeClosed ==
  ASSUME Assigned, NEW s, NEW u, NEW t, NEW v, LocalInv(s, u), Lined(s),
         Closed(s, u), DoFinalize(s, u, t, v), ~Retry
  PROVE  Closed(t, v)
<1>1. s \in ReducerType /\ u \in UserType
  BY DEF LocalInv
<1>2. /\ FinalizeAsserts(s) /\ s.next_bucket = BucketCount + 1
      /\ t = [s EXCEPT !.expect_autograd_hooks = FALSE,
                       !.require_finalize = FALSE, !.callbacks = 0]
  BY FinalizeAssertsHold
<1>3. t.posted = s.posted /\ ~t.require_finalize
  BY <1>1, <1>2 DEF ReducerType
<1>4. u.pc # "raised" /\ FinalizeEnabled(s)
  BY DEF DoFinalize, Done
<1>5. v.pc = IF FirstFailed(s) > BucketCount THEN "reduced"
             ELSE IF Retry THEN "idle" ELSE "raised"
  BY <1>1 DEF DoFinalize, UserType
<1>6. CASE ~ (FirstFailed(s) > BucketCount)
  BY <1>5, <1>6 DEF Closed
<1>7. CASE FirstFailed(s) > BucketCount
  <2>1. PICK B \in Nat : B = BucketCount
    BY DEF Assigned
  <2>2. PICK f \in Nat : f = First(s)
    BY DEF Lined
  <2>3. PICK l \in Nat : l = Len(s.posted) /\ l = f + B
    <3>1. Len(s.posted) \in Nat
      BY <1>1 DEF ReducerType
    <3> QED
      BY <1>2, <2>1, <2>2, <3>1 DEF First
  <2>4. ASSUME NEW b \in Buckets
        PROVE  ~Open(f + b)
    <3>1. ~Failed(s, b)
      BY <1>7, NoneFailed
    <3>2. FirstFailed(s) \in Nat
      <4> DEFINE S == {c \in Buckets : Failed(s, c)} \cup {BucketCount + 1}
      <4>1. S \in SUBSET Nat /\ S # {}
        BY <2>1 DEF Buckets
      <4>2. \E m \in S : \A k \in S : m <= k
        BY <4>1, MinExists
      <4>3. Min(S) \in S
        BY <4>2, Zenon DEF Min
      <4> QED
        BY <4>1, <4>3 DEF FirstFailed
    <3>3. b <= FirstFailed(s) /\ b < s.next_bucket
      BY <1>2, <1>7, <2>1, <3>2 DEF Buckets
    <3>4. ~Open(s.work[b])
      BY <1>4, <3>1, <3>3 DEF FinalizeEnabled, Ended
    <3>5. s.work[b] = f + b
      BY <2>2, <3>3 DEF Lined, Tags
    <3> QED
      BY <3>4, <3>5
  <2>5. \A k \in 1 .. f : ~Open(k)
    BY <1>2, <1>4, <2>2 DEF Closed, FinalizeAsserts
  <2>6. ASSUME NEW k \in 1 .. l
        PROVE  ~Open(k)
    <3>1. CASE k <= f
      BY <2>5, <3>1
    <3>2. CASE k > f
      <4>1. PICK b \in Buckets : k = f + b
        <5>1. k - f \in 1 .. B /\ k = f + (k - f)
          BY <2>3, <3>2
        <5> QED
          BY <2>1, <5>1 DEF Buckets
      <4> QED
        BY <2>4, <4>1
    <3> QED
      BY <3>1, <3>2
  <2> QED
    BY <1>3, <2>3, <2>6 DEF Closed
<1> QED
  BY <1>6, <1>7

LEMMA ClosedStep ==
  ASSUME Assigned, NEW s, NEW u, NEW t, NEW v, LocalInv(s, u), Lined(s),
         Closed(s, u), LocalStep(s, u, t, v), ~Retry
  PROVE  Closed(t, v)
<1>1. s \in ReducerType /\ u \in UserType /\ Flags(s, u) /\ Stages(s, u)
  BY DEF LocalInv
<1>2. ASSUME NEW seen \in SUBSET Params, NEW n \in Nat,
             DoForward(s, u, t, v, seen, n)
      PROVE  Closed(t, v)
  <2>1. ~s.require_finalize /\ u.pc # "raised" /\ t = ResetAccounting(s)
    BY <1>2 DEF DoForward
  <2>2. t.posted = s.posted /\ t.require_finalize = s.require_finalize
    BY <1>1, <2>1, ResetCounts
  <2> QED
    BY <2>1, <2>2 DEF Closed
<1>3. ASSUME NEW c \in ReducerType, c.require_finalize,
             \/ LaunchedFrom(s, c)
             \/ c.posted = s.posted /\ c.next_bucket = s.next_bucket
      PROVE  First(c) = First(s)
  BY <1>1, <1>3, PostingFirst DEF First
<1>4. ASSUME NEW x \in Params, NEW value \in SUBSET Contribution,
             DoMark(s, u, t, v, x, value)
      PROVE  Closed(t, v)
  <2>1. Counts(s) /\ t = CopyAndCount(s, x, value) /\ u.pc # "raised"
    BY <1>1, <1>4 DEF Flags, Stages, DoMark
  <2>2. CountedDown(s, t, x, value) \/ Repeated(s, t, x)
    BY <1>1, <2>1, CopyAndCountCounts
  <2>3. t \in ReducerType /\ t.require_finalize /\ First(t) = First(s)
    BY <1>3, <2>2 DEF CountedDown, Repeated
  <2> QED
    BY <1>1, <2>1, <2>3, CountedClosed
<1>5. ASSUME NEW x \in Params, NEW value \in SUBSET Contribution,
             DoHook(s, u, t, v, x, value)
      PROVE  Closed(t, v)
  <2>1. t = MarkFromAutograd(s, x, value) /\ u.pc # "raised"
    BY <1>5 DEF DoHook
  <2>2. CASE ~s.expect_autograd_hooks
    BY <2>1, <2>2 DEF MarkFromAutograd, Closed
  <2>3. CASE s.expect_autograd_hooks
    <3>1. Counts(s)
      BY <1>1, <2>3 DEF Flags
    <3>2. Repeated(s, t, x) \/ Counted(s, t, x, value)
      BY <1>1, <2>1, <2>3, <3>1, HookCounts
    <3>3. t \in ReducerType /\ t.require_finalize /\ First(t) = First(s)
      BY <1>3, <3>2 DEF Counted, Repeated
    <3> QED
      BY <1>1, <2>1, <3>3, CountedClosed
  <2> QED
    BY <2>2, <2>3
<1>6. ASSUME DoRaise(s, u, t, v)
      PROVE  Closed(t, v)
  <2>1. v.pc = "raised"
    BY <1>1, <1>6 DEF DoRaise, UserType
  <2> QED
    BY <2>1 DEF Closed
<1>7. ASSUME \/ \E hooks \in SUBSET Params : DoBackward(s, u, t, v, hooks)
             \/ DoThrow(s, u, t, v) \/ DoThrown(s, u, t, v)
             \/ DoReturn(s, u, t, v)
      PROVE  Closed(t, v)
  <2>1. /\ t.posted = s.posted /\ t.next_bucket = s.next_bucket
        /\ t.require_finalize = s.require_finalize /\ u.pc # "raised"
    BY <1>1, <1>7
       DEF DoBackward, DoThrow, DoThrown, DoReturn, Done, ReducerType
  <2> QED
    BY <2>1 DEF Closed, First
<1> QED
  BY <1>2, <1>4, <1>5, <1>6, <1>7, FinalizeClosed DEF LocalStep

-----------------------------------------------------------------------------
(***************************************************************************)
(* Parameters still to be counted, for one backward pass after a forward().*)
(***************************************************************************)
Held(D, b, r) == Cardinality(D \cap Slot(b, r))

LEMMA HeldType ==
  ASSUME Assigned, NEW D, NEW b \in Buckets, NEW r \in Replicas
  PROVE  /\ Held(D, b, r) \in Nat
         /\ Held(D, b, r) <= Cardinality(Slot(b, r))
         /\ Cardinality(Slot(b, r)) \in Nat
         /\ IsFiniteSet(D \cap Slot(b, r))
<1>1. IsFiniteSet(Slot(b, r))
  BY SlotSize
<1>2. D \cap Slot(b, r) \in SUBSET Slot(b, r)
  OBVIOUS
<1>3. /\ IsFiniteSet(D \cap Slot(b, r))
      /\ Cardinality(D \cap Slot(b, r)) <= Cardinality(Slot(b, r))
  BY <1>1, <1>2, FS_Subset
<1> QED
  BY <1>1, <1>3, FS_CardinalityType DEF Held

LEMMA HeldAll ==
  ASSUME Assigned, NEW b \in Buckets, NEW r \in Replicas
  PROVE  Held(Params, b, r) = Cardinality(Slot(b, r))
<1>1. Params \cap Slot(b, r) = Slot(b, r)
  BY DEF Slot
<1> QED
  BY <1>1 DEF Held

LEMMA HeldMonotone ==
  ASSUME Assigned, NEW D, NEW C \in SUBSET D, NEW b \in Buckets, NEW r \in Replicas
  PROVE  Held(C, b, r) <= Held(D, b, r)
<1>1. C \cap Slot(b, r) \in SUBSET (D \cap Slot(b, r))
  OBVIOUS
<1>2. IsFiniteSet(D \cap Slot(b, r))
  BY HeldType
<1> QED
  BY <1>1, <1>2, FS_Subset DEF Held

LEMMA HeldWithout ==
  ASSUME Assigned, NEW D, NEW x \in Params, x \in D,
         NEW b \in Buckets, NEW r \in Replicas
  PROVE  Held(D \ {x}, b, r) = IF b = BucketOf(x) /\ r = x[1]
                               THEN Held(D, b, r) - 1 ELSE Held(D, b, r)
<1>1. PICK S : S = D \cap Slot(b, r)
  OBVIOUS
<1>2. PICK T : T = (D \ {x}) \cap Slot(b, r)
  OBVIOUS
<1>3. IsFiniteSet(S)
  BY <1>1, HeldType
<1>4. CASE b = BucketOf(x) /\ r = x[1]
  <2>1. x \in S /\ T = S \ {x}
    BY <1>1, <1>2, <1>4 DEF Slot
  <2>2. Cardinality(T) = Cardinality(S) - 1
    BY <1>3, <2>1, FS_RemoveElement
  <2> QED
    BY <1>1, <1>2, <1>4, <2>2 DEF Held
<1>5. CASE ~ (b = BucketOf(x) /\ r = x[1])
  <2>1. T = S
    BY <1>1, <1>2, <1>5 DEF Slot
  <2> QED
    BY <1>1, <1>2, <1>5, <2>1 DEF Held
<1> QED
  BY <1>4, <1>5

LEMMA HeldStrict ==
  ASSUME Assigned, NEW D, NEW C \in SUBSET D, NEW x \in Params, x \in D, x \notin C
  PROVE  Held(C, BucketOf(x), x[1]) < Held(D, BucketOf(x), x[1])
<1>1. BucketOf(x) \in Buckets /\ x[1] \in Replicas
  BY BucketOfType
<1>2. PICK b \in Buckets : b = BucketOf(x)
  BY <1>1
<1>3. PICK r \in Replicas : r = x[1]
  BY <1>1
<1>4. C \in SUBSET (D \ {x})
  OBVIOUS
<1>5. Held(C, b, r) <= Held(D \ {x}, b, r)
  BY <1>4, HeldMonotone
<1>6. Held(D \ {x}, b, r) = Held(D, b, r) - 1
  BY <1>2, <1>3, HeldWithout
<1>7. Held(C, b, r) \in Nat /\ Held(D, b, r) \in Nat
  BY HeldType
<1> QED
  BY <1>2, <1>3, <1>5, <1>6, <1>7

(* The parameters whose hook, or mark, is still to come. *)
Due(u) ==
  IF u.pc = "marking" THEN u.seen \cup u.due
  ELSE IF u.passes = 0 THEN u.seen ELSE u.due

Active(u) ==
  u.pc \in {"marking", "backward"} \/ (u.pc = "ready" /\ u.passes = 0)

(* All parameters are accounted for: no bucket replica waits for more than *)
(* the parameters to come.                                                 *)
AtMost(s, u) ==
  Active(u) /\ (find_unused_parameters \/ u.seen = Params) =>
    \A b \in Buckets, r \in Replicas : s.pending[b][r] <= Held(Due(u), b, r)

(* Without unused parameters, and while they are marked, every parameter   *)
(* to come is waited for.                                                  *)
AtLeast(s, u) ==
  /\ ~find_unused_parameters \/ u.pc = "marking" =>
       \A b \in Buckets, r \in Replicas :
         s.pending[b][r] >= Held(Due(u), b, r)
  /\ ~find_unused_parameters /\ u.passes = 0 =>
       \A b \in Buckets, r \in Replicas :
         s.pending[b][r] = Cardinality(Slot(b, r))

(* The bucket replica of a parameter used outside of forward() waits for   *)
(* fewer parameters than are to come, and after its hook one does so.      *)
Short(s, u) ==
  find_unused_parameters /\ u.pc = "backward" =>
    /\ \A x \in u.due \ u.seen :
         s.pending[BucketOf(x)][x[1]] < Held(u.due, BucketOf(x), x[1])
    /\ u.strayed =>
         \/ u.throws
         \/ \E b \in Buckets, r \in Replicas :
              s.pending[b][r] < Held(u.due, b, r)

Counting(s, u) ==
  s.expect_autograd_hooks =>
    /\ u.pc = "marking" => u.seen \cap u.due = {}
    /\ AtMost(s, u) /\ AtLeast(s, u) /\ Short(s, u)

StrayPass(s, u) ==
  u.strayed => /\ u.passes > 0 /\ find_unused_parameters
               /\ s.require_finalize
               /\ u.pc \in {"backward", "ready", "raised"}
               /\ u.pc = "ready" => u.throws

(* prepare_for_backward() finalizes only when the outputs depend on no     *)
(* parameter; with any other outputs the backward pass finds the reduction *)
(* open, and a parameter used outside of forward() strays into it.         *)
OutsidePass(s, u) ==
  /\ u.outside => u.passes > 0 /\ (u.seen # {} => u.strayed)
  /\ u.pc = "ready" /\ u.passes = 0 => s.expect_autograd_hooks
  /\ u.pc = "preparing" => u.seen = {}
  /\ u.pc = "reduced" /\ u.passes = 0 => u.seen = {}
  /\ u.pc = "backward" /\ u.seen # {} => s.expect_autograd_hooks

Complete(s, u) ==
  /\ u.pc = "ready" /\ u.passes > 0 /\ ~u.throws
  /\ find_unused_parameters \/ u.seen = Params
  => ~s.require_finalize

PassInv(s, u) ==
  /\ Counting(s, u) /\ StrayPass(s, u) /\ OutsidePass(s, u) /\ Complete(s, u)
  /\ s.error \notin Assertions

LEMMA DueType ==
  ASSUME NEW u \in UserType
  PROVE  /\ Due(u) \in SUBSET Params
         /\ u.seen \in SUBSET Params /\ u.due \in SUBSET Params
BY DEF UserType, Due

LEMMA ForwardPass ==
  ASSUME Assigned, Passes = 1, NEW s, NEW u, NEW t, NEW v, LocalInv(s, u),
         PassInv(s, u), NEW seen \in SUBSET Params, NEW n \in Nat,
         DoForward(s, u, t, v, seen, n)
  PROVE  PassInv(t, v)
<1>1. s \in ReducerType /\ u \in UserType /\ t = ResetAccounting(s)
      /\ ~s.require_finalize
  BY DEF LocalInv, DoForward
<1>2. PICK unused \in SUBSET Params :
        unused = IF find_unused_parameters THEN Params \ seen ELSE {}
  OBVIOUS
<1>3. PICK pc \in {"ready", "marking"} :
        pc = IF unused = {} THEN "ready" ELSE "marking"
  OBVIOUS
<1>4. v = [u EXCEPT !.pc = pc, !.forwards = @ + 1, !.passes = 0, !.seen = seen,
                    !.due = unused, !.outside = FALSE, !.round = n]
  BY <1>2, <1>3, Zenon DEF DoForward
<1>5. /\ v.pc = pc /\ v.passes = 0 /\ v.seen = seen /\ v.due = unused
      /\ v.strayed = u.strayed /\ ~v.outside
  BY <1>1, <1>4 DEF UserType
<1>6. /\ t.require_finalize = s.require_finalize /\ t.error = s.error
      /\ t.expect_autograd_hooks
      /\ \A b \in Buckets, r \in Replicas :
           t.pending[b][r] = Cardinality(Slot(b, r))
  BY <1>1, ResetCounts
<1>7. ~v.strayed
  BY <1>1, <1>5 DEF PassInv, StrayPass
<1>8. PICK D : D = Due(v)
  OBVIOUS
<1>9. find_unused_parameters => D = Params
  BY <1>2, <1>3, <1>5, <1>8 DEF Due
<1>10. ~find_unused_parameters => D = seen /\ pc = "ready"
  BY <1>2, <1>3, <1>5, <1>8 DEF Due
<1>11. AtMost(t, v)
  <2>1. ASSUME find_unused_parameters \/ seen = Params,
               NEW b \in Buckets, NEW r \in Replicas
        PROVE  t.pending[b][r] <= Held(D, b, r)
    <3>1. D = Params
      BY <1>9, <1>10, <2>1
    <3>2. t.pending[b][r] = Held(D, b, r) /\ Held(D, b, r) \in Nat
      BY <1>6, <3>1, HeldAll, HeldType
    <3> QED
      BY <3>2
  <2> QED
    BY <1>5, <1>8, <2>1 DEF AtMost
<1>12. AtLeast(t, v)
  <2>1. ASSUME NEW b \in Buckets, NEW r \in Replicas
        PROVE  t.pending[b][r] >= Held(D, b, r)
    <3>1. /\ Held(D, b, r) \in Nat /\ t.pending[b][r] \in Nat
          /\ Held(D, b, r) <= t.pending[b][r]
      BY <1>6, HeldType
    <3> QED
      BY <3>1
  <2> QED
    BY <1>6, <1>8, <2>1 DEF AtLeast
<1>13. Short(t, v)
  BY <1>3, <1>5 DEF Short
<1>14. v.pc = "marking" => v.seen \cap v.due = {}
  BY <1>2, <1>5
<1>15. OutsidePass(t, v)
  BY <1>3, <1>5, <1>6 DEF OutsidePass
<1> QED
  BY <1>1, <1>5, <1>6, <1>7, <1>11, <1>12, <1>13, <1>14, <1>15
  DEF PassInv, Counting, StrayPass, Complete

LEMMA PendingDown ==
  ASSUME Assigned, NEW s \in ReducerType, NEW x \in Params, NEW pend,
         pend = [s.pending EXCEPT ![BucketOf(x)][x[1]] = @ - 1],
         NEW b \in Buckets, NEW r \in Replicas
  PROVE  /\ pend[b][r] = IF b = BucketOf(x) /\ r = x[1]
                         THEN s.pending[b][r] - 1 ELSE s.pending[b][r]
         /\ s.pending[b][r] \in Nat
<1>1. s.pending \in [Buckets -> [Replicas -> Nat]]
  BY DEF ReducerType
<1>2. PICK c \in Buckets : c = BucketOf(x)
  BY BucketOfType
<1>3. PICK q \in Replicas : q = x[1]
  BY BucketOfType
<1>4. pend = [s.pending EXCEPT ![c] = [s.pending[c] EXCEPT ![q] = @ - 1]]
  BY <1>1, <1>2, <1>3
<1> QED
  BY <1>1, <1>2, <1>3, <1>4

LEMMA MarkPass ==
  ASSUME Assigned, Passes = 1, NEW s, NEW u, NEW t, NEW v, LocalInv(s, u),
         PassInv(s, u), NEW x \in Params, NEW value \in SUBSET Contribution,
         DoMark(s, u, t, v, x, value)
  PROVE  PassInv(t, v)
<1>1. s \in ReducerType /\ u \in UserType /\ Flags(s, u) /\ Stages(s, u)
  BY DEF LocalInv
<1>2. u.pc = "marking" /\ x \in u.due /\ s.expect_autograd_hooks /\ u.passes = 0
      /\ find_unused_parameters /\ s.has_marked_unused /\ Counts(s)
  BY <1>1 DEF Flags, Stages, DoMark
<1>3. CountedDown(s, t, x, value) \/ Repeated(s, t, x)
  BY <1>1, <1>2, CopyAndCountCounts DEF DoMark
<1>4. PICK pc :
        pc = IF t.error # "none" THEN "raised"
             ELSE IF t.next_bucket > BucketCount THEN "preparing"
             ELSE IF u.due = {x} THEN "ready"
             ELSE "marking"
  OBVIOUS
<1>5. v = [u EXCEPT !.due = @ \ {x}, !.pc = pc]
  BY <1>4, Zenon DEF DoMark
<1>6. /\ v.pc = pc /\ v.due = u.due \ {x} /\ v.passes = 0
      /\ v.seen = u.seen /\ v.strayed = u.strayed /\ v.outside = u.outside
  BY <1>1, <1>2, <1>5 DEF UserType
<1>7. pc \in {"raised", "preparing", "ready", "marking"}
  BY <1>4
<1>8. u.seen \cap u.due = {} /\ AtMost(s, u) /\ AtLeast(s, u)
      /\ ~u.strayed /\ ~u.outside
  BY <1>2 DEF PassInv, Counting, StrayPass, OutsidePass
<1>9. t.error \notin Assertions
  <2>1. s.error \notin Assertions
    BY DEF PassInv
  <2>2. "marked twice" \notin Assertions
    BY DEF Assertions
  <2> QED
    BY <1>2, <1>3, <2>1, <2>2 DEF CountedDown, Repeated
<1>10. PICK D : D = u.seen \cup u.due
  OBVIOUS
<1>11. /\ Due(u) = D /\ x \in D /\ u.seen \in SUBSET (D \ {x})
       /\ pc \in {"ready", "marking"} => Due(v) = D \ {x}
  <2>1. Due(u) = D /\ x \in D /\ u.seen \in SUBSET (D \ {x})
    BY <1>2, <1>8, <1>10 DEF Due
  <2>2. CASE pc = "marking"
    BY <1>2, <1>6, <1>8, <1>10, <2>1, <2>2 DEF Due
  <2>3. CASE pc = "ready"
    <3>1. u.due = {x}
      BY <1>4, <2>3
    <3> QED
      BY <1>2, <1>6, <1>8, <1>10, <2>1, <2>3, <3>1 DEF Due
  <2> QED
    BY <2>1, <2>2, <2>3
<1>12. ASSUME CountedDown(s, t, x, value), NEW b \in Buckets, NEW r \in Replicas
       PROVE  /\ t.pending[b][r] <= Held(D \ {x}, b, r)
              /\ t.pending[b][r] >= Held(D \ {x}, b, r)
              /\ Held(D \ {x}, b, r) \in Nat
  <2>1. /\ t.pending[b][r] = IF b = BucketOf(x) /\ r = x[1]
                             THEN s.pending[b][r] - 1 ELSE s.pending[b][r]
        /\ s.pending[b][r] \in Nat
    BY <1>1, <1>12, PendingDown DEF CountedDown
  <2>2. Held(D \ {x}, b, r) = IF b = BucketOf(x) /\ r = x[1]
                              THEN Held(D, b, r) - 1 ELSE Held(D, b, r)
    BY <1>11, HeldWithout
  <2>3. /\ s.pending[b][r] <= Held(D, b, r) /\ s.pending[b][r] >= Held(D, b, r)
        /\ Held(D, b, r) \in Nat /\ Held(D \ {x}, b, r) \in Nat
    BY <1>2, <1>8, <1>11, HeldType DEF AtMost, AtLeast, Active
  <2> QED
    BY <2>1, <2>2, <2>3
<1>13. pc # "raised" => CountedDown(s, t, x, value)
  BY <1>3, <1>4 DEF Repeated
<1>14. AtMost(t, v)
  <2>1. Active(v) => pc \in {"ready", "marking"}
    BY <1>6, <1>7 DEF Active
  <2>2. ASSUME pc \in {"ready", "marking"}, NEW b \in Buckets, NEW r \in Replicas
        PROVE  t.pending[b][r] <= Held(Due(v), b, r)
    BY <1>11, <1>12, <1>13, <2>2
  <2> QED
    BY <2>1, <2>2 DEF AtMost
<1>15. AtLeast(t, v) /\ Short(t, v)
  <2>1. ASSUME pc = "marking", NEW b \in Buckets, NEW r \in Replicas
        PROVE  t.pending[b][r] >= Held(Due(v), b, r)
    BY <1>11, <1>12, <1>13, <2>1
  <2> QED
    BY <1>2, <1>6, <1>7, <2>1 DEF AtLeast, Short
<1>16. v.pc = "marking" => v.seen \cap v.due = {}
  BY <1>6, <1>8
<1>17. StrayPass(t, v) /\ Complete(t, v)
  BY <1>6, <1>8 DEF StrayPass, Complete
<1>18. ASSUME pc = "preparing", NEW y \in u.seen
       PROVE  FALSE
  <2>1. y \in Params /\ y \in D \ {x}
    BY <1>1, <1>11, <1>18 DEF UserType
  <2>2. PICK b \in Buckets : b = BucketOf(y)
    BY <2>1, BucketOfType
  <2>3. PICK r \in Replicas : r = y[1]
    BY <2>1, BucketOfType
  <2>4. CountedDown(s, t, x, value)
    BY <1>13, <1>18
  <2>5. t \in ReducerType /\ Counts(t) /\ t.next_bucket > BucketCount
    BY <1>4, <1>18, <2>4 DEF CountedDown
  <2>6. t.replicas_pending[b] = 0
    <3>1. b < t.next_bucket
      <4>1. b \in 1 .. BucketCount /\ BucketCount \in Nat
        BY DEF Buckets, Assigned
      <4>2. t.next_bucket \in Nat
        BY <2>5, <4>1 DEF ReducerType
      <4> QED
        BY <2>5, <4>1, <4>2
    <3> QED
      BY <2>5, <3>1 DEF Counts
  <2>7. t.pending[b][r] = 0
    BY <2>5, <2>6, NoneWaiting
  <2>8. {} \in SUBSET (D \ {x})
    OBVIOUS
  <2>9. Held({}, b, r) < Held(D \ {x}, b, r)
    BY <2>1, <2>2, <2>3, <2>8, HeldStrict
  <2>10. PICK h \in Nat : h = Held(D \ {x}, b, r) /\ t.pending[b][r] >= h
    BY <1>12, <2>4
  <2>11. PICK e \in Nat : e = Held({}, b, r)
    BY HeldType
  <2> QED
    BY <2>7, <2>9, <2>10, <2>11
<1>19. pc = "ready" => t.expect_autograd_hooks
  BY <1>2, <1>13 DEF CountedDown, Kept
<1>20. OutsidePass(t, v)
  BY <1>6, <1>7, <1>8, <1>18, <1>19 DEF OutsidePass
<1> QED
  BY <1>9, <1>14, <1>15, <1>16, <1>17, <1>20 DEF PassInv, Counting

LEMMA BackwardPassInv ==
  ASSUME Assigned, Passes = 1, NEW s, NEW u, NEW t, NEW v, LocalInv(s, u),
         PassInv(s, u), NEW hooks \in SUBSET Params,
         DoBackward(s, u, t, v, hooks)
  PROVE  PassInv(t, v)
<1>1. s \in ReducerType /\ u \in UserType /\ Flags(s, u) /\ Stages(s, u)
      /\ u.pc \in {"ready", "reduced"} /\ t = s
  BY DEF LocalInv, DoBackward
<1>2. u.passes = 0 /\ u.seen \in SUBSET hooks
  <2>1. u.passes \in Nat /\ u.passes < 1 /\ u.seen \subseteq hooks
    BY <1>1 DEF DoBackward, UserType
  <2> QED
    BY <2>1
<1>3. /\ v.pc = "backward" /\ v.passes = 1 /\ v.due = hooks /\ v.seen = u.seen
      /\ v.strayed = u.strayed /\ v.outside = u.outside
  BY <1>1, <1>2 DEF DoBackward, UserType
<1>4. ~v.strayed
  BY <1>2, <1>3 DEF PassInv, StrayPass
<1>5. Due(v) = hooks
  BY <1>3 DEF Due
<1>6. StrayPass(t, v) /\ Complete(t, v) /\ t.error \notin Assertions
  BY <1>1, <1>3, <1>4 DEF PassInv, StrayPass, Complete
<1>7. ASSUME s.expect_autograd_hooks
      PROVE  AtMost(t, v) /\ AtLeast(t, v) /\ Short(t, v)
  <2>1. u.pc = "ready" /\ Active(u) /\ Due(u) = u.seen
    BY <1>1, <1>2, <1>7 DEF Stages, Active, Due
  <2>2. AtMost(s, u) /\ AtLeast(s, u)
    BY <1>7 DEF PassInv, Counting
  <2>3. ASSUME NEW b \in Buckets, NEW r \in Replicas
        PROVE  /\ Held(u.seen, b, r) <= Held(hooks, b, r)
               /\ Held(u.seen, b, r) \in Nat /\ Held(hooks, b, r) \in Nat
               /\ Held(hooks, b, r) <= Cardinality(Slot(b, r))
               /\ Cardinality(Slot(b, r)) \in Nat
               /\ s.pending[b][r] \in Nat
    BY <1>1, <1>2, HeldMonotone, HeldType DEF ReducerType
  <2>4. AtMost(t, v)
    <3>1. ASSUME find_unused_parameters \/ u.seen = Params,
                 NEW b \in Buckets, NEW r \in Replicas
          PROVE  s.pending[b][r] <= Held(hooks, b, r)
      <4>1. s.pending[b][r] <= Held(u.seen, b, r)
        BY <2>1, <2>2, <3>1 DEF AtMost
      <4> QED
        BY <2>3, <4>1
    <3> QED
      BY <1>1, <1>3, <1>5, <3>1 DEF AtMost
  <2>5. AtLeast(t, v)
    <3>1. ASSUME ~find_unused_parameters, NEW b \in Buckets, NEW r \in Replicas
          PROVE  s.pending[b][r] >= Held(hooks, b, r)
      <4>1. s.pending[b][r] = Cardinality(Slot(b, r))
        BY <1>2, <2>2, <3>1 DEF AtLeast
      <4> QED
        BY <2>3, <4>1
    <3> QED
      BY <1>1, <1>3, <1>5, <3>1 DEF AtLeast
  <2>6. Short(t, v)
    <3>1. ASSUME find_unused_parameters, NEW x \in hooks \ u.seen
          PROVE  s.pending[BucketOf(x)][x[1]] < Held(hooks, BucketOf(x), x[1])
      <4>1. BucketOf(x) \in Buckets /\ x[1] \in Replicas
        BY BucketOfType
      <4>2. PICK b \in Buckets : b = BucketOf(x)
        BY <4>1
      <4>3. PICK r \in Replicas : r = x[1]
        BY <4>1
      <4>4. s.pending[b][r] <= Held(u.seen, b, r)
        BY <2>1, <2>2, <3>1 DEF AtMost
      <4>5. Held(u.seen, b, r) < Held(hooks, b, r)
        BY <1>2, <4>2, <4>3, HeldStrict
      <4> QED
        BY <2>3, <4>2, <4>3, <4>4, <4>5
    <3> QED
      BY <1>1, <1>3, <1>4, <3>1 DEF Short
  <2> QED
    BY <2>4, <2>5, <2>6
<1>8. OutsidePass(t, v)
  BY <1>1, <1>2, <1>3 DEF PassInv, OutsidePass
<1> QED
  BY <1>1, <1>3, <1>6, <1>7, <1>8 DEF PassInv, Counting

(* A hook counts one of the parameters to come; one that finds nothing to  *)
(* count comes only when unused parameters were marked.                    *)
LEMMA HookCounting ==
  ASSUME Assigned, NEW s, NEW u, NEW t, NEW v, LocalInv(s, u),
         Counting(s, u), NEW x \in Params, NEW value \in SUBSET Contribution,
         DoHook(s, u, t, v, x, value), s.expect_autograd_hooks
  PROVE  /\ AtMost(t, v) /\ AtLeast(t, v) /\ Short(t, v)
         /\ t.error = s.error \/ t.error = "marked twice"
         /\ t.require_finalize = TRUE
         /\ t.expect_autograd_hooks
<1>1. s \in ReducerType /\ u \in UserType /\ Flags(s, u) /\ Stages(s, u)
  BY DEF LocalInv
<1>2. /\ u.pc = "backward" /\ x \in u.due /\ u.passes \in Nat /\ u.passes > 0
      /\ Counts(s) /\ s.has_marked_unused = find_unused_parameters
  BY <1>1 DEF Flags, Stages, DoHook, UserType
<1>3. HookedUser(s, u, t, v, x)
  BY <1>1, HookUser
<1>4. /\ v.pc = "backward" /\ v.passes = u.passes /\ v.seen = u.seen
      /\ v.due = u.due \ {x}
      /\ v.throws <=> (u.throws \/ t.error # "none")
      /\ v.strayed => u.strayed \/ (find_unused_parameters /\ x \notin u.seen)
  BY <1>2, <1>3 DEF HookedUser
<1>5. Repeated(s, t, x) \/ Counted(s, t, x, value)
  BY <1>1, <1>2, HookCounts DEF DoHook
<1>6. PICK D : D = u.due
  OBVIOUS
<1>7. Due(u) = D /\ Due(v) = D \ {x} /\ x \in D
  BY <1>2, <1>4, <1>6 DEF Due
<1>8. AtMost(s, u) /\ AtLeast(s, u) /\ Short(s, u) /\ Active(u) /\ Active(v)
  BY <1>2, <1>4 DEF Counting, Active
<1>9. ASSUME NEW b \in Buckets, NEW r \in Replicas
      PROVE  /\ Held(D \ {x}, b, r) = IF b = BucketOf(x) /\ r = x[1]
                                      THEN Held(D, b, r) - 1 ELSE Held(D, b, r)
             /\ Held(D, b, r) \in Nat /\ Held(D \ {x}, b, r) \in Nat
             /\ s.pending[b][r] \in Nat
  <2>1. Held(D \ {x}, b, r) = IF b = BucketOf(x) /\ r = x[1]
                              THEN Held(D, b, r) - 1 ELSE Held(D, b, r)
    BY <1>7, HeldWithout
  <2>2. Held(D, b, r) \in Nat /\ Held(D \ {x}, b, r) \in Nat
    BY HeldType
  <2>3. s.pending[b][r] \in Nat
    BY <1>1 DEF ReducerType
  <2> QED
    BY <2>1, <2>2, <2>3
<1>10. PICK bx \in Buckets : bx = BucketOf(x)
  BY BucketOfType
<1>11. PICK rx \in Replicas : rx = x[1]
  BY BucketOfType
<1>12. CASE Counted(s, t, x, value)
  <2>1. ASSUME NEW b \in Buckets, NEW r \in Replicas
        PROVE  \/ /\ t.pending[b][r] = s.pending[b][r] - 1
                  /\ Held(D \ {x}, b, r) = Held(D, b, r) - 1
               \/ /\ t.pending[b][r] = s.pending[b][r]
                  /\ Held(D \ {x}, b, r) = Held(D, b, r)
    <3>1. t.pending[b][r] = IF b = BucketOf(x) /\ r = x[1]
                            THEN s.pending[b][r] - 1 ELSE s.pending[b][r]
      BY <1>1, <1>12, PendingDown DEF Counted
    <3> QED
      BY <1>9, <3>1
  <2>2. ASSUME NEW b \in Buckets, NEW r \in Replicas
        PROVE  /\ s.pending[b][r] <= Held(D, b, r)
                    => t.pending[b][r] <= Held(D \ {x}, b, r)
               /\ s.pending[b][r] >= Held(D, b, r)
                    => t.pending[b][r] >= Held(D \ {x}, b, r)
               /\ s.pending[b][r] < Held(D, b, r)
                    => t.pending[b][r] < Held(D \ {x}, b, r)
    <3>1. PICK a \in Nat : a = s.pending[b][r]
      BY <1>9
    <3>2. PICK h \in Nat : h = Held(D, b, r)
      BY <1>9
    <3>3. \/ t.pending[b][r] = a - 1 /\ Held(D \ {x}, b, r) = h - 1
          \/ t.pending[b][r] = a /\ Held(D \ {x}, b, r) = h
      BY <2>1, <3>1, <3>2
    <3> QED
      BY <3>1, <3>2, <3>3
  <2>3. AtMost(t, v)
    <3>1. ASSUME find_unused_parameters \/ u.seen = Params,
                 NEW b \in Buckets, NEW r \in Replicas
          PROVE  t.pending[b][r] <= Held(D \ {x}, b, r)
      <4>1. s.pending[b][r] <= Held(D, b, r)
        BY <1>7, <1>8, <3>1 DEF AtMost
      <4> QED
        BY <2>2, <4>1
    <3> QED
      BY <1>4, <1>7, <3>1 DEF AtMost
  <2>4. AtLeast(t, v)
    <3>1. ASSUME ~find_unused_parameters,
                 NEW b \in Buckets, NEW r \in Replicas
          PROVE  t.pending[b][r] >= Held(D \ {x}, b, r)
      <4>1. s.pending[b][r] >= Held(D, b, r)
        BY <1>7, <1>8, <3>1 DEF AtLeast
      <4> QED
        BY <2>2, <4>1
    <3>2. v.passes # 0
      BY <1>2, <1>4
    <3> QED
      BY <1>4, <1>7, <3>1, <3>2 DEF AtLeast
  <2>5. ASSUME find_unused_parameters, NEW y \in (D \ {x}) \ u.seen
        PROVE  t.pending[BucketOf(y)][y[1]] < Held(D \ {x}, BucketOf(y), y[1])
    <3>1. y \in Params
      BY <1>1, <1>6 DEF UserType
    <3>2. BucketOf(y) \in Buckets /\ y[1] \in Replicas
      BY <3>1, BucketOfType
    <3>3. s.pending[BucketOf(y)][y[1]] < Held(D, BucketOf(y), y[1])
      BY <1>2, <1>6, <1>8, <2>5 DEF Short
    <3> QED
      BY <2>2, <3>2, <3>3
  <2>6. ASSUME find_unused_parameters, v.strayed
        PROVE  \/ v.throws
               \/ \E b \in Buckets, r \in Replicas :
                    t.pending[b][r] < Held(D \ {x}, b, r)
    <3>1. CASE u.strayed
      BY <1>2, <1>4, <1>6, <1>8, <2>2, <2>6, <3>1 DEF Short
    <3>2. CASE x \notin u.seen
      <4>1. s.pending[bx][rx] < Held(D, bx, rx)
        BY <1>2, <1>6, <1>7, <1>8, <1>10, <1>11, <2>6, <3>2 DEF Short
      <4> QED
        BY <2>2, <4>1
    <3> QED
      BY <1>4, <2>6, <3>1, <3>2
  <2>7. Short(t, v)
    BY <1>4, <1>6, <2>5, <2>6 DEF Short
  <2> QED
    BY <1>12, <2>3, <2>4, <2>7 DEF Counted
<1>13. CASE Repeated(s, t, x)
  <2>1. s.pending[bx][rx] = 0 /\ t.pending = s.pending
    BY <1>10, <1>11, <1>13 DEF Repeated
  <2>2. find_unused_parameters
    <3>1. Held(D, bx, rx) - 1 \in Nat /\ Held(D, bx, rx) \in Nat
      BY <1>9, <1>10, <1>11
    <3>2. ~ (s.pending[bx][rx] >= Held(D, bx, rx))
      BY <2>1, <3>1
    <3> QED
      BY <1>7, <1>8, <3>2 DEF AtLeast
  <2>3. t.error = "marked twice" /\ t.require_finalize = TRUE
        /\ t.expect_autograd_hooks
    BY <1>2, <1>13, <2>2 DEF Repeated, Kept
  <2>4. v.throws
    BY <1>4, <2>3
  <2>5. ASSUME NEW b \in Buckets, NEW r \in Replicas
        PROVE  t.pending[b][r] <= Held(D \ {x}, b, r)
    <3>1. s.pending[b][r] <= Held(D, b, r)
      BY <1>7, <1>8, <2>2 DEF AtMost
    <3>2. CASE b = bx /\ r = rx
      <4>1. PICK h \in Nat : h = Held(D \ {x}, b, r)
        BY <1>9
      <4>2. t.pending[b][r] = 0
        BY <2>1, <3>2
      <4> QED
        BY <4>1, <4>2
    <3>3. CASE ~ (b = bx /\ r = rx)
      BY <1>9, <1>10, <1>11, <2>1, <3>1, <3>3
    <3> QED
      BY <3>2, <3>3
  <2>6. ASSUME NEW y \in (D \ {x}) \ u.seen
        PROVE  t.pending[BucketOf(y)][y[1]] < Held(D \ {x}, BucketOf(y), y[1])
    <3>1. y \in Params /\ y \in D
      BY <1>1, <1>6 DEF UserType
    <3>2. PICK b \in Buckets : b = BucketOf(y)
      BY <3>1, BucketOfType
    <3>3. PICK r \in Replicas : r = y[1]
      BY <3>1, BucketOfType
    <3>4. s.pending[b][r] < Held(D, b, r)
      BY <1>2, <1>6, <1>8, <2>2, <2>6, <3>2, <3>3 DEF Short
    <3>5. CASE b = bx /\ r = rx
      <4>1. {} \in SUBSET (D \ {x}) /\ y \in D \ {x}
        BY <2>6
      <4>2. Held({}, b, r) < Held(D \ {x}, b, r)
        BY <3>1, <3>2, <3>3, <4>1, HeldStrict
      <4>3. Held({}, b, r) \in Nat
        BY HeldType
      <4> QED
        <5>1. PICK h \in Nat : h = Held(D \ {x}, b, r)
          BY <1>9
        <5>2. PICK e \in Nat : e = Held({}, b, r)
          BY <4>3
        <5>3. t.pending[b][r] = 0 /\ e < h
          BY <2>1, <3>5, <4>2, <5>1, <5>2
        <5>4. 0 < h
          BY <5>3
        <5> QED
          BY <3>2, <3>3, <5>1, <5>3, <5>4
    <3>6. CASE ~ (b = bx /\ r = rx)
      BY <1>9, <1>10, <1>11, <2>1, <3>2, <3>3, <3>4, <3>6
    <3> QED
      BY <3>5, <3>6
  <2>7. AtMost(t, v)
    BY <1>7, <2>5 DEF AtMost
  <2>8. AtLeast(t, v)
    BY <1>4, <2>2 DEF AtLeast
  <2>9. Short(t, v)
    BY <1>4, <1>6, <2>4, <2>6 DEF Short
  <2> QED
    BY <2>3, <2>7, <2>8, <2>9
<1> QED
  BY <1>5, <1>12, <1>13

LEMMA HookPass ==
  ASSUME Assigned, Passes = 1, NEW s, NEW u, NEW t, NEW v, LocalInv(s, u),
         PassInv(s, u), NEW x \in Params, NEW value \in SUBSET Contribution,
         DoHook(s, u, t, v, x, value)
  PROVE  PassInv(t, v)
<1>1. s \in ReducerType /\ u \in UserType /\ Stages(s, u)
  BY DEF LocalInv
<1>2. u.pc = "backward" /\ u.passes > 0
  BY <1>1 DEF Stages, DoHook
<1>3. HookedUser(s, u, t, v, x)
  BY <1>1, HookUser
<1>4. /\ v.pc = "backward" /\ v.passes = u.passes /\ v.seen = u.seen
      /\ v.outside <=> u.outside \/ (find_unused_parameters /\ x \notin u.seen)
      /\ v.strayed <=> \/ u.strayed
                       \/ /\ find_unused_parameters /\ x \notin u.seen
                          /\ s.expect_autograd_hooks
  BY <1>2, <1>3 DEF HookedUser
<1>5. Complete(t, v)
  BY <1>4 DEF Complete
<1>6. t.expect_autograd_hooks = s.expect_autograd_hooks => OutsidePass(t, v)
  BY <1>2, <1>4 DEF PassInv, OutsidePass
<1>7. CASE ~s.expect_autograd_hooks
  <2>1. t = s
    BY <1>7 DEF DoHook, MarkFromAutograd
  <2>2. Counting(t, v)
    BY <1>7, <2>1 DEF Counting
  <2>3. StrayPass(t, v)
    BY <1>2, <1>4, <1>7, <2>1 DEF PassInv, StrayPass
  <2> QED
    BY <1>5, <1>6, <2>1, <2>2, <2>3 DEF PassInv
<1>8. CASE s.expect_autograd_hooks
  <2>1. /\ AtMost(t, v) /\ AtLeast(t, v) /\ Short(t, v)
        /\ t.error = s.error \/ t.error = "marked twice"
        /\ t.require_finalize = TRUE /\ t.expect_autograd_hooks
    BY <1>8, HookCounting DEF PassInv
  <2>2. Counting(t, v)
    BY <1>4, <2>1 DEF Counting
  <2>3. StrayPass(t, v)
    BY <1>2, <1>4, <2>1 DEF PassInv, StrayPass
  <2>4. t.error \notin Assertions
    BY <2>1 DEF PassInv, Assertions
  <2>5. OutsidePass(t, v)
    BY <1>2, <1>4, <1>8, <2>1 DEF PassInv, OutsidePass
  <2> QED
    BY <1>5, <2>2, <2>3, <2>4, <2>5 DEF PassInv
<1> QED
  BY <1>7, <1>8

(* When all hooks of the pass have run, none strayed and, where every      *)
(* parameter is accounted for, all buckets have been launched.             *)
LEMMA PassEnds ==
  ASSUME Assigned, Passes = 1, NEW s, NEW u, LocalInv(s, u), PassInv(s, u),
         Done(u)
  PROVE  /\ ~u.strayed
         /\ s.require_finalize /\ (find_unused_parameters \/ u.seen = Params)
              => s.callbacks = 1
<1>1. s \in ReducerType /\ u \in UserType /\ Flags(s, u) /\ Stages(s, u)
      /\ Queued(s, u) /\ u.pc = "backward" /\ u.due = {} /\ ~u.throws
  BY DEF LocalInv, Done
<1>2. u.passes \in Nat /\ u.passes > 0 /\ Due(u) = {} /\ Active(u)
  BY <1>1 DEF Stages, UserType, Due, Active
<1>3. ASSUME NEW b \in Buckets, NEW r \in Replicas
      PROVE  Held({}, b, r) = 0 /\ s.pending[b][r] \in Nat
  <2>1. {} \cap Slot(b, r) = {}
    OBVIOUS
  <2> QED
    BY <1>1, <2>1, FS_EmptySet DEF Held, ReducerType
<1>4. ASSUME u.strayed
      PROVE  FALSE
  <2>1. s.require_finalize /\ find_unused_parameters
    BY <1>4 DEF PassInv, StrayPass
  <2>2. Short(s, u)
    BY <1>1, <2>1 DEF Flags, PassInv, Counting
  <2>3. PICK b \in Buckets, r \in Replicas : s.pending[b][r] < Held({}, b, r)
    BY <1>1, <1>4, <2>1, <2>2 DEF Short
  <2> QED
    BY <1>3, <2>3
<1>5. ASSUME s.require_finalize, find_unused_parameters \/ u.seen = Params
      PROVE  s.callbacks = 1
  <2>1. Counts(s) /\ AtMost(s, u)
    BY <1>1, <1>5 DEF Flags, PassInv, Counting
  <2>2. \A b \in Buckets, r \in Replicas : s.pending[b][r] <= Held({}, b, r)
    BY <1>2, <1>5, <2>1 DEF AtMost
  <2>3. \A b \in Buckets : Waiting(s, b) = {}
    BY <1>3, <2>2 DEF Waiting
  <2>4. \A b \in Buckets : s.replicas_pending[b] = 0
    BY <2>1, <2>3, FS_EmptySet DEF Counts
  <2>5. s.next_bucket \notin Buckets
    BY <2>1, <2>4 DEF Counts
  <2>6. BucketCount \in Nat
    BY DEF Assigned
  <2>7. s.next_bucket > BucketCount
    BY <1>1, <2>5, <2>6 DEF ReducerType, Buckets
  <2> QED
    BY <1>1, <1>5, <2>7 DEF Queued
<1> QED
  BY <1>4, <1>5

LEMMA FinalizePass ==
  ASSUME Assigned, Passes = 1, NEW s, NEW u, NEW t, NEW v, LocalInv(s, u),
         PassInv(s, u), DoFinalize(s, u, t, v)
  PROVE  PassInv(t, v)
<1>1. s \in ReducerType /\ u \in UserType
  BY DEF LocalInv
<1>2. t = [s EXCEPT !.expect_autograd_hooks = FALSE,
                    !.require_finalize = FALSE, !.callbacks = 0]
  BY FinalizeAssertsHold
<1>3. /\ ~t.expect_autograd_hooks /\ ~t.require_finalize /\ t.error = s.error
  BY <1>1, <1>2 DEF ReducerType
<1>4. PICK pc \in {"reduced", "idle", "raised"} :
        pc = IF FirstFailed(s) > BucketCount THEN "reduced"
             ELSE IF Retry THEN "idle" ELSE "raised"
  OBVIOUS
<1>5. v = [u EXCEPT !.pc = pc]
  BY <1>4, Zenon DEF DoFinalize
<1>6. v.pc = pc /\ v.strayed = u.strayed /\ v.outside = u.outside
      /\ v.passes = u.passes /\ v.seen = u.seen
  BY <1>1, <1>5 DEF UserType
<1>7. ~u.strayed
  BY PassEnds DEF DoFinalize, PassInv, StrayPass
<1>8. OutsidePass(t, v)
  <2>1. u.passes = 0 => u.pc = "preparing"
    BY DEF DoFinalize, Done, LocalInv, Stages
  <2> QED
    BY <1>4, <1>6, <2>1 DEF PassInv, OutsidePass
<1> QED
  BY <1>3, <1>4, <1>6, <1>7, <1>8 DEF PassInv, Counting, StrayPass, Complete

LEMMA OtherPass ==
  ASSUME Assigned, Passes = 1, NEW s, NEW u, NEW t, NEW v, LocalInv(s, u),
         PassInv(s, u),
         \/ DoRaise(s, u, t, v) \/ DoThrow(s, u, t, v)
         \/ DoThrown(s, u, t, v) \/ DoReturn(s, u, t, v)
  PROVE  PassInv(t, v)
<1>1. s \in ReducerType /\ u \in UserType /\ Flags(s, u) /\ Stages(s, u)
      /\ u.passes \in Nat
  BY DEF LocalInv, UserType
<1>2. CASE DoRaise(s, u, t, v)
  <2>1. /\ t = s /\ u.pc \in {"idle", "ready", "reduced"} /\ v.pc = "raised"
        /\ v.passes = u.passes /\ v.seen = u.seen /\ v.due = u.due
        /\ v.strayed = u.strayed /\ v.outside = u.outside
    BY <1>1, <1>2 DEF DoRaise, UserType
  <2>2. Due(v) = Due(u) /\ ~Active(v)
    BY <2>1 DEF Due, Active
  <2>3. Counting(t, v)
    BY <2>1, <2>2 DEF PassInv, Counting, AtMost, AtLeast, Short
  <2> QED
    BY <2>1, <2>3 DEF PassInv, StrayPass, OutsidePass, Complete
<1>3. CASE DoThrow(s, u, t, v)
  <2>1. /\ t = s /\ u.pc = "backward" /\ v.pc = "backward"
        /\ v.passes = u.passes /\ v.seen = u.seen /\ v.due = u.due
        /\ v.strayed = u.strayed /\ v.outside = u.outside /\ v.throws
    BY <1>1, <1>3 DEF DoThrow, UserType
  <2>2. Due(v) = Due(u) /\ Active(u)
    BY <2>1 DEF Due, Active
  <2>3. Counting(t, v)
    BY <2>1, <2>2 DEF PassInv, Counting, AtMost, AtLeast, Short
  <2> QED
    BY <2>1, <2>3 DEF PassInv, StrayPass, OutsidePass, Complete
<1>4. CASE DoThrown(s, u, t, v)
  <2>1. /\ u.pc = "backward" /\ u.throws
        /\ t = [s EXCEPT !.callbacks = 0, !.error = "none"]
        /\ v = [u EXCEPT !.pc = "ready", !.due = {}]
    BY <1>4 DEF DoThrown
  <2>2. /\ v.pc = "ready" /\ v.passes = u.passes /\ v.seen = u.seen
        /\ v.due = {} /\ v.strayed = u.strayed /\ v.outside = u.outside /\ v.throws = u.throws
        /\ u.passes > 0
    BY <1>1, <2>1 DEF UserType, Stages
  <2>3. /\ t.pending = s.pending /\ t.require_finalize = s.require_finalize
        /\ t.expect_autograd_hooks = s.expect_autograd_hooks
        /\ t.error = "none"
    BY <1>1, <2>1 DEF ReducerType
  <2>4. Due(v) = {} /\ ~Active(v)
    BY <1>1, <2>2 DEF Due, Active
  <2>5. ASSUME NEW b \in Buckets, NEW r \in Replicas
        PROVE  t.pending[b][r] >= Held({}, b, r)
    <3>1. {} \cap Slot(b, r) = {}
      OBVIOUS
    <3>2. Held({}, b, r) = 0 /\ s.pending[b][r] \in Nat
      BY <1>1, <3>1, FS_EmptySet DEF Held, ReducerType
    <3> QED
      BY <2>3, <3>2
  <2>6. AtMost(t, v) /\ AtLeast(t, v) /\ Short(t, v)
    BY <1>1, <2>2, <2>4, <2>5 DEF AtMost, AtLeast, Short
  <2>7. StrayPass(t, v) /\ OutsidePass(t, v) /\ Complete(t, v)
    BY <2>1, <2>2, <2>3 DEF PassInv, StrayPass, OutsidePass, Complete
  <2> QED
    BY <2>2, <2>3, <2>6, <2>7 DEF PassInv, Counting, Assertions
<1>5. CASE DoReturn(s, u, t, v)
  <2>1. /\ t = s /\ Done(u) /\ s.callbacks = 0 /\ v = [u EXCEPT !.pc = "ready"]
    BY <1>5 DEF DoReturn
  <2>2. /\ v.pc = "ready" /\ v.passes = u.passes /\ v.seen = u.seen
        /\ v.due = u.due /\ v.strayed = u.strayed /\ v.outside = u.outside
        /\ u.pc = "backward" /\ u.passes > 0
    BY <1>1, <2>1 DEF UserType, Stages, Done
  <2>3. Due(v) = Due(u) /\ ~Active(v)
    BY <1>1, <2>2 DEF Due, Active
  <2>4. AtMost(t, v) /\ (AtLeast(s, u) => AtLeast(t, v)) /\ Short(t, v)
    BY <2>1, <2>2, <2>3 DEF AtMost, AtLeast, Short
  <2>5. Counting(t, v)
    BY <2>1, <2>2, <2>4 DEF PassInv, Counting
  <2>6. /\ ~u.strayed
        /\ s.require_finalize /\ (find_unused_parameters \/ u.seen = Params)
             => s.callbacks = 1
    BY <2>1, PassEnds
  <2>7. StrayPass(t, v) /\ OutsidePass(t, v) /\ Complete(t, v)
    BY <2>1, <2>2, <2>6 DEF PassInv, StrayPass, OutsidePass, Complete
  <2> QED
    BY <2>1, <2>5, <2>7 DEF PassInv
<1> QED
  BY <1>2, <1>3, <1>4, <1>5

LEMMA PassStep ==
  ASSUME Assigned, Passes = 1, NEW s, NEW u, NEW t, NEW v, LocalInv(s, u),
         PassInv(s, u), LocalStep(s, u, t, v)
  PROVE  PassInv(t, v)
BY ForwardPass, MarkPass, HookPass, BackwardPassInv, FinalizePass, OtherPass
   DEF LocalStep

-----------------------------------------------------------------------------
(***************************************************************************)
(* The invariants of the order, the collectives under way and the pass,    *)
(* for all processes.                                                      *)
(***************************************************************************)
Orderly(s, u) ==
  /\ Lined(s)
  /\ ~Retry => Closed(s, u)
  /\ Passes = 1 => PassInv(s, u)

OutcomeType == [done : SUBSET (Nat \ {0}), failed : SUBSET (Nat \ {0})]

RunInv ==
  /\ ReducerInv /\ outcome \in OutcomeType
  /\ \A p \in Ranks : Orderly(reducer[p], user[p])

LEMMA OrderlyStep ==
  ASSUME Assigned, NEW s, NEW u, NEW t, NEW v, LocalInv(s, u), Orderly(s, u),
         LocalStep(s, u, t, v)
  PROVE  Orderly(t, v)
<1>1. LocalInv(t, v)
  BY LocalStepInv
<1>2. s \in ReducerType /\ t \in ReducerType
  BY <1>1 DEF LocalInv
<1>3. Posting(s, t)
  BY StepPosts
<1>4. Lined(t)
  BY <1>2, <1>3, LinedStep DEF Orderly
<1> QED
  BY <1>4, ClosedStep, PassStep DEF Orderly

LEMMA RewrittenOrderly ==
  ASSUME Assigned, NEW s \in ReducerType, NEW t, NEW u, Orderly(s, u),
         Rewritten(s, t)
  PROVE  Orderly(t, u)
<1>1. Lined(t)
  <2>1. Posting(s, t) /\ t \in ReducerType
    BY DEF Rewritten, Posting
  <2> QED
    BY <2>1, LinedStep DEF Orderly
<1>2. Closed(s, u) => Closed(t, u)
  BY DEF Rewritten, Closed, First
<1>3. Counting(s, u) => Counting(t, u)
  BY DEF Rewritten, Kept, Counting, AtMost, AtLeast, Short
<1>4. PassInv(s, u) => PassInv(t, u)
  BY <1>3 DEF Rewritten, Kept, PassInv, StrayPass, OutsidePass, Complete
<1> QED
  BY <1>1, <1>2, <1>4 DEF Orderly

(* Collectives that have ended stay so. *)
LEMMA FixedOrderly ==
  ASSUME fixed' = fixed, \A k : ~Open(k) => ~Open(k)', NEW s, NEW u,
         Orderly(s, u)
  PROVE  Orderly(s, u)'
<1>1. Lined(s)'
  <2>1. \A b : Following(b)' = Following(b)
    BY FixedSame DEF Following
  <2>2. First(s)' = First(s)
    BY DEF First
  <2> QED
    BY <2>1, <2>2, FixedSame DEF Orderly, Lined, Walk, Tags
<1>2. ~Retry => Closed(s, u)'
  BY DEF Orderly, Closed, First
<1>3. \A b, r : Slot(b, r)' = Slot(b, r)
  BY FixedSame, FixedBucketOf DEF Slot
<1>4. \A D, b, r : Held(D, b, r)' = Held(D, b, r)
  BY <1>3 DEF Held
<1>5. Due(u)' = Due(u) /\ (Active(u)' <=> Active(u))
  BY DEF Due, Active
<1>6. AtMost(s, u) => AtMost(s, u)'
  BY <1>4, <1>5, FixedSame DEF AtMost
<1>7. AtLeast(s, u) => AtLeast(s, u)'
  BY <1>3, <1>4, <1>5, FixedSame DEF AtLeast
<1>8. Short(s, u) => Short(s, u)'
  BY <1>4, FixedSame, FixedBucketOf DEF Short
<1>9. PassInv(s, u) => PassInv(s, u)'
  BY <1>6, <1>7, <1>8, FixedSame DEF PassInv, Counting, StrayPass, Complete
<1> QED
  BY <1>1, <1>2, <1>9 DEF Orderly

LEMMA EndedStaysEnded ==
  ASSUME ReducerInv, outcome \in OutcomeType, [Next]_vars
  PROVE  outcome' \in OutcomeType /\ \A k : ~Open(k) => ~Open(k)'
<1>1. ASSUME outcome' = outcome
      PROVE  outcome' \in OutcomeType /\ \A k : ~Open(k) => ~Open(k)'
  BY <1>1 DEF Open
<1>2. ASSUME NEW j \in Nat \ {0},
             \/ outcome' = [outcome EXCEPT !.done = @ \cup {j}]
             \/ outcome' = [outcome EXCEPT !.failed = @ \cup {j}]
      PROVE  outcome' \in OutcomeType /\ \A k : ~Open(k) => ~Open(k)'
  BY <1>2 DEF Open, OutcomeType
<1>3. ASSUME NEW p \in Ranks, ProcessStep(p)
      PROVE  outcome' = outcome
  BY <1>3 DEF ProcessStep, Forward, MarkUnused, Hook, Backward,
     FinalizeInPrepare, FinalizeInBackward, Finalize, ForwardRaises,
     FunctionThrows, BackwardThrows, BackwardReturns
<1>4. ASSUME GroupStep
      PROVE  outcome' \in OutcomeType /\ \A k : ~Open(k) => ~Open(k)'
  BY <1>2, <1>4 DEF GroupStep, Reduce, TimeOut
<1>5. CASE UNCHANGED vars
  BY <1>1, <1>5 DEF vars
<1> QED
  BY <1>1, <1>3, <1>4, <1>5, NextCases

LEMMA RunInvStep ==
  ASSUME RunInv, [Next]_vars
  PROVE  RunInv'
<1>1. ReducerInv /\ ReducerInv' /\ Assigned
      /\ reducer \in [Ranks -> ReducerType] /\ user \in [Ranks -> UserType]
  BY ReducerInvStep DEF RunInv, ReducerInv, Types
<1>2. fixed' = fixed
  BY <1>1, FixedByNext DEF vars
<1>3. \A p \in Ranks : Orderly(reducer'[p], user'[p])
  <2>1. CASE UNCHANGED vars
    BY <2>1 DEF vars, RunInv
  <2>2. ASSUME NEW p \in Ranks, ProcessStep(p)
        PROVE  \A q \in Ranks : Orderly(reducer'[q], user'[q])
    <3>1. Moves(p)
      BY <1>1, <2>2, ProcessMoves
    <3>2. Orderly(reducer'[p], user'[p])
      BY <1>1, <3>1, OrderlyStep DEF RunInv, ReducerInv, Moves
    <3>3. PICK t : t = reducer'[p]
      OBVIOUS
    <3>4. PICK v : v = user'[p]
      OBVIOUS
    <3>5. reducer' = [reducer EXCEPT ![p] = t] /\ user' = [user EXCEPT ![p] = v]
      BY <3>1, <3>3, <3>4 DEF Moves
    <3>6. \A q \in Ranks : q # p => reducer'[q] = reducer[q] /\ user'[q] = user[q]
      BY <1>1, <3>5
    <3> QED
      BY <3>2, <3>6 DEF RunInv
  <2>3. ASSUME NEW k \in Nat \ {0}, Reduce(k)
        PROVE  \A q \in Ranks : Orderly(reducer'[q], user'[q])
    <3>1. user' = user
      BY <2>3 DEF Reduce
    <3>2. \A p \in Ranks : Rewritten(reducer[p], reducer'[p])
      BY <1>1, <2>3, ReduceRewrites
    <3> QED
      BY <1>1, <3>1, <3>2, RewrittenOrderly DEF RunInv
  <2>4. ASSUME NEW k \in Nat \ {0}, TimeOut(k)
        PROVE  \A q \in Ranks : Orderly(reducer'[q], user'[q])
    BY <2>4 DEF TimeOut, RunInv
  <2> QED
    BY <1>1, <2>1, <2>2, <2>3, <2>4, NextCases DEF GroupStep
<1>4. outcome' \in OutcomeType /\ \A k : ~Open(k) => ~Open(k)'
  BY <1>1, EndedStaysEnded DEF RunInv
<1>5. ASSUME NEW p \in Ranks
      PROVE  Orderly(reducer[p], user[p])'
  <2>1. PICK s : s = reducer'[p]
    OBVIOUS
  <2>2. PICK u : u = user'[p]
    OBVIOUS
  <2>3. Orderly(s, u)
    BY <1>3, <2>1, <2>2
  <2>4. Orderly(s, u)'
    BY <1>2, <1>4, <2>3, FixedOrderly
  <2> QED
    BY <2>1, <2>2, <2>4
<1>6. OutcomeType' = OutcomeType
  BY DEF OutcomeType
<1> QED
  BY <1>1, <1>4, <1>5, <1>6 DEF RunInv

LEMMA InitRun ==
  ASSUME Init, AssignmentSound
  PROVE  RunInv
<1>1. ReducerInv
  BY InitInv
<1>2. ASSUME NEW p \in Ranks
      PROVE  Orderly(reducer[p], user[p])
  <2>1. PICK s : s = reducer[p]
    OBVIOUS
  <2>2. PICK u : u = user[p]
    OBVIOUS
  <2>3. /\ s.next_bucket = 1 /\ s.posted = <<>>
        /\ ~s.expect_autograd_hooks /\ ~s.require_finalize
        /\ s.error = "none" /\ u.pc = "idle" /\ ~u.strayed /\ ~u.outside
    BY <2>1, <2>2, InitInv
  <2>4. Len(s.posted) = 0
    BY <2>3
  <2>5. Lined(s)
    BY <2>3, <2>4 DEF Lined, Walk, Tags, First, Buckets
  <2>6. Closed(s, u)
    BY <2>3, <2>4 DEF Closed
  <2>7. PassInv(s, u)
    BY <2>3 DEF PassInv, Counting, StrayPass, OutsidePass, Complete, Assertions
  <2> QED
    BY <2>1, <2>2, <2>5, <2>6, <2>7 DEF Orderly
<1>3. outcome \in OutcomeType
  BY DEF Init, OutcomeType
<1> QED
  BY <1>1, <1>2, <1>3 DEF RunInv

(* OrderInvariant: what a process posts goes round the buckets, in order;  *)
(* the buckets it has launched have the tags that follow; and, with the    *)
(* assumption each is about, the collectives under way belong to the       *)
(* reduction that is not finalized, and no bucket replica waits for a      *)
(* parameter that is not to come.                                          *)
THEOREM OrderInvariant == Spec /\ AssignmentSound => []RunInv
<1>1. Init /\ AssignmentSound => RunInv
  BY InitRun
<1>2. RunInv /\ [Next]_vars => RunInv'
  BY RunInvStep
<1> QED
  BY <1>1, <1>2, PTL DEF Spec

-----------------------------------------------------------------------------
(***************************************************************************)
(* What follows from these invariants.                                     *)
(***************************************************************************)

(* Two lists that begin with the first bucket and go round the buckets     *)
(* agree as far as both go.                                                *)
LEMMA WalksAgree ==
  ASSUME Assigned, NEW s \in ReducerType, NEW t \in ReducerType,
         Walk(s), Walk(t),
         NEW k \in 1 .. Len(s.posted), k \in 1 .. Len(t.posted)
  PROVE  s.posted[k] = t.posted[k]
<1>1. PICK q \in Seq(Buckets) : q = s.posted
  BY DEF ReducerType
<1>2. PICK w \in Seq(Buckets) : w = t.posted
  BY DEF ReducerType
<1>3. PICK m \in Nat : m = Len(q)
  BY <1>1
<1>4. PICK n \in Nat : n = Len(w)
  BY <1>2
<1>5. /\ m # 0 => q[1] = 1
      /\ n # 0 => w[1] = 1
      /\ \A i \in 1 .. (m - 1) : q[i + 1] = Following(q[i])
      /\ \A i \in 1 .. (n - 1) : w[i + 1] = Following(w[i])
  BY <1>1, <1>2, <1>3, <1>4 DEF Walk
<1> DEFINE Apart == {i \in Nat : i >= 1 /\ i <= m /\ i <= n /\ q[i] # w[i]}
<1>6. ASSUME q[k] # w[k]
      PROVE  FALSE
  <2>1. k \in Apart
    BY <1>1, <1>2, <1>3, <1>4, <1>6
  <2>2. Apart \in SUBSET Nat /\ Apart # {}
    BY <2>1
  <2>3. PICK i \in Apart : \A j \in Apart : i <= j
    BY <2>2, MinExists
  <2>4. i \in Nat /\ i >= 1 /\ i <= m /\ i <= n /\ q[i] # w[i]
    BY <2>3
  <2>5. i # 1
    BY <1>5, <2>4
  <2>6. i - 1 \in Nat /\ i - 1 >= 1 /\ i - 1 <= m /\ i - 1 <= n
    BY <2>4, <2>5
  <2>7. q[i - 1] = w[i - 1]
    <3>1. i - 1 \notin Apart
      BY <2>3, <2>4
    <3> QED
      BY <2>6, <3>1
  <2>8. i - 1 \in 1 .. (m - 1) /\ i - 1 \in 1 .. (n - 1) /\ (i - 1) + 1 = i
    BY <2>4, <2>6
  <2>9. q[i] = Following(q[i - 1]) /\ w[i] = Following(w[i - 1])
    BY <1>5, <2>8
  <2> QED
    BY <2>4, <2>7, <2>9
<1> QED
  BY <1>1, <1>2, <1>6

LEMMA RunSameBucket ==
  ASSUME RunInv
  PROVE  SameBucket
<1> SUFFICES ASSUME NEW p \in Ranks, NEW q \in Ranks,
                    NEW k \in DOMAIN reducer[p].posted, Posted(q, k)
             PROVE  reducer[p].posted[k] = reducer[q].posted[k]
  BY DEF SameBucket
<1>1. /\ reducer[p] \in ReducerType /\ reducer[q] \in ReducerType /\ Assigned
      /\ Walk(reducer[p]) /\ Walk(reducer[q])
  BY DEF RunInv, ReducerInv, Types, Orderly, Lined
<1>2. k \in 1 .. Len(reducer[p].posted) /\ k \in 1 .. Len(reducer[q].posted)
  <2>1. PICK w \in Seq(Buckets) : w = reducer[p].posted
    BY <1>1 DEF ReducerType
  <2>2. PICK n \in Nat : n = Len(reducer[q].posted)
    BY <1>1 DEF ReducerType
  <2> QED
    BY <2>1, <2>2 DEF Posted
<1> QED
  BY <1>1, <1>2, WalksAgree

(* ReductionsAgree: "Buckets are reduced in a predetermined order that is  *)
(* identical across processes": the n-th allreduce() of every process is   *)
(* for the same bucket, for any number of processes, buckets, replicas and *)
(* backward passes, in every order of the hooks, after exceptions and      *)
(* time-outs.                                                              *)
THEOREM ReductionsAgree == Spec /\ AssignmentSound => []SameBucket
<1>1. RunInv => SameBucket
  BY RunSameBucket
<1> QED
  BY <1>1, OrderInvariant, PTL

LEMMA ForwardsChange ==
  ASSUME ReducerInv, [Next]_vars, NEW p \in Ranks,
         user'[p].forwards # user[p].forwards
  PROVE  ~reducer[p].require_finalize /\ user[p].pc # "raised"
<1>1. user \in [Ranks -> UserType] /\ Assigned
      /\ reducer \in [Ranks -> ReducerType]
  BY DEF ReducerInv, Types
<1>2. user' # user
  OBVIOUS
<1>3. Next
  BY <1>2 DEF vars
<1>4. ~GroupStep
  BY <1>2 DEF GroupStep, Reduce, TimeOut
<1>5. PICK q \in Ranks : ProcessStep(q)
  BY <1>3, <1>4, NextCases
<1>6. CASE q # p
  <2>1. Moves(q)
    BY <1>5, ProcessMoves
  <2>2. PICK v : v = user'[q]
    OBVIOUS
  <2>3. user' = [user EXCEPT ![q] = v]
    BY <2>1, <2>2 DEF Moves
  <2>4. user'[p] = user[p]
    BY <1>1, <1>6, <2>3
  <2> QED
    BY <2>4
<1>7. CASE q = p
  <2>1. ASSUME NEW seen \in SUBSET Params, Forward(p, seen)
        PROVE  ~reducer[p].require_finalize /\ user[p].pc # "raised"
    BY <2>1 DEF Forward, PriorFinished
  <2>2. ASSUME NEW v, user' = [user EXCEPT ![p] = v],
               v.forwards = user[p].forwards
        PROVE  FALSE
    BY <1>1, <2>2
  <2>3. ASSUME NEW x \in Params, MarkUnused(p, x)
        PROVE  FALSE
    <3>1. PICK pc : user' = [user EXCEPT ![p] =
                      [user[p] EXCEPT !.due = @ \ {x}, !.pc = pc]]
      BY <2>3, Zenon DEF MarkUnused
    <3>2. PICK v : v = [user[p] EXCEPT !.due = @ \ {x}, !.pc = pc]
      OBVIOUS
    <3>3. v.forwards = user[p].forwards
      BY <1>1, <3>2 DEF UserType
    <3> QED
      BY <2>2, <3>1, <3>2, <3>3
  <2>4. ASSUME NEW x \in Params, Hook(p, x)
        PROVE  FALSE
    <3>1. PICK f, o, g : user' = [user EXCEPT ![p] =
                [user[p] EXCEPT !.due = @ \ {x}, !.throws = f, !.outside = o,
                                !.strayed = g]]
      BY <2>4, Zenon DEF Hook
    <3>2. PICK v : v = [user[p] EXCEPT !.due = @ \ {x}, !.throws = f,
                                       !.outside = o, !.strayed = g]
      OBVIOUS
    <3>3. v.forwards = user[p].forwards
      BY <1>1, <3>2 DEF UserType
    <3> QED
      BY <2>2, <3>1, <3>2, <3>3
  <2>5. ASSUME NEW hooks \in SUBSET Params, Backward(p, hooks)
        PROVE  FALSE
    <3>1. PICK v : v = [user[p] EXCEPT !.pc = "backward", !.passes = @ + 1,
                                       !.due = hooks, !.throws = FALSE]
      OBVIOUS
    <3>2. user' = [user EXCEPT ![p] = v]
      BY <2>5, <3>1 DEF Backward
    <3>3. v.forwards = user[p].forwards
      BY <1>1, <3>1 DEF UserType
    <3> QED
      BY <2>2, <3>2, <3>3
  <2>6. ASSUME NEW pc, Goto(p, pc)
        PROVE  FALSE
    <3>1. user'[p].forwards = user[p].forwards
      BY <1>1, <2>6 DEF Goto, UserType
    <3> QED
      BY <3>1
  <2>7. ~FinalizeInPrepare(p) /\ ~FinalizeInBackward(p) /\ ~ForwardRaises(p)
        /\ ~BackwardReturns(p)
    BY <2>6 DEF FinalizeInPrepare, FinalizeInBackward, Finalize, ForwardRaises,
       BackwardReturns
  <2>8. ~FunctionThrows(p)
    <3>1. ASSUME FunctionThrows(p)
          PROVE  user'[p].forwards = user[p].forwards
      BY <1>1, <3>1 DEF FunctionThrows, UserType
    <3> QED
      BY <3>1
  <2>9. ~BackwardThrows(p)
    <3>1. ASSUME BackwardThrows(p)
          PROVE  user'[p].forwards = user[p].forwards
      BY <1>1, <3>1 DEF BackwardThrows, UserType
    <3> QED
      BY <3>1
  <2> QED
    BY <1>5, <1>7, <2>1, <2>3, <2>4, <2>5, <2>7, <2>8, <2>9 DEF ProcessStep
<1> QED
  BY <1>6, <1>7

(* ForwardFindsNoneUnderWay: "Check that any prior reduction has finished":*)
(* unless the user goes on after a reduction has timed out, forward() is   *)
(* accepted only when none of the collectives of the process, which write  *)
(* to its buckets, is under way.                                           *)
THEOREM ForwardFindsNoneUnderWay ==
  Spec /\ AssignmentSound /\ ~Retry => PriorReductionFinished
<1> SUFFICES ASSUME ~Retry
             PROVE  Spec /\ AssignmentSound => PriorReductionFinished
  OBVIOUS
<1>1. ASSUME RunInv, [Next]_vars, NEW p \in Ranks,
             user'[p].forwards # user[p].forwards,
             NEW k \in DOMAIN reducer[p].posted
      PROVE  ~Open(k)
  <2>1. ~reducer[p].require_finalize /\ user[p].pc # "raised"
    BY <1>1, ForwardsChange DEF RunInv
  <2>2. Closed(reducer[p], user[p])
    BY <1>1 DEF RunInv, Orderly
  <2>3. k \in 1 .. Len(reducer[p].posted)
    <3>1. PICK w \in Seq(Buckets) : w = reducer[p].posted
      BY <1>1 DEF RunInv, ReducerInv, Types, ReducerType
    <3> QED
      BY <3>1
  <2> QED
    BY <2>1, <2>2, <2>3 DEF Closed
<1>2. RunInv /\ [Next]_vars =>
        [\A p \in Ranks : user'[p].forwards # user[p].forwards =>
           \A k \in DOMAIN reducer[p].posted : ~Open(k)]_vars
  BY <1>1
<1> QED
  BY <1>2, OrderInvariant, PTL DEF Spec, PriorReductionFinished

LEMMA RunPass ==
  ASSUME RunInv, Passes = 1
  PROVE  AssertionsHold /\ OutsideUseDetected /\ ReductionComplete
<1>1. \A p \in Ranks : PassInv(reducer[p], user[p])
  BY DEF RunInv, Orderly
<1>2. AssertionsHold
  BY <1>1 DEF PassInv, AssertionsHold
<1>3. OutsideUseDetected
  BY <1>1 DEF PassInv, StrayPass, OutsidePass, OutsideUseDetected
<1>4. ReductionComplete
  BY <1>1 DEF PassInv, Complete, ReductionComplete
<1> QED
  BY <1>2, <1>3, <1>4

(* ReducerAssertions: with one backward pass after a forward(), no         *)
(* assertion of mark_variable_ready(), mark_bucket_ready() and             *)
(* finalize_backward() fails: a reduction is finalized once, and a         *)
(* variable is found marked only if it was deemed unused.                  *)
THEOREM ReducerAssertions ==
  Spec /\ AssignmentSound /\ Passes = 1 => []AssertionsHold
<1> SUFFICES ASSUME Passes = 1
             PROVE  Spec /\ AssignmentSound => []AssertionsHold
  OBVIOUS
<1>1. RunInv => AssertionsHold
  BY RunPass
<1> QED
  BY <1>1, OrderInvariant, PTL

(* OutsideUseIsReported: with one backward pass after a forward() whose    *)
(* outputs depend on some parameter, a pass that uses a parameter deemed   *)
(* unused ends with an exception: the reduction is open, and in whatever   *)
(* order the hooks run, one of them finds its bucket replica complete and  *)
(* throws.  When the outputs depend on no parameter                        *)
(* prepare_for_backward() has finalized the reduction, and the code is     *)
(* silent.                                                                 *)
THEOREM OutsideUseIsReported ==
  Spec /\ AssignmentSound /\ Passes = 1 => []OutsideUseDetected
<1> SUFFICES ASSUME Passes = 1
             PROVE  Spec /\ AssignmentSound => []OutsideUseDetected
  OBVIOUS
<1>1. RunInv => OutsideUseDetected
  BY RunPass
<1> QED
  BY <1>1, OrderInvariant, PTL

(* ReductionsComplete: with one backward pass after a forward(), a pass    *)
(* that accounts for every parameter and returns has been finalized.       *)
THEOREM ReductionsComplete ==
  Spec /\ AssignmentSound /\ Passes = 1 => []ReductionComplete
<1> SUFFICES ASSUME Passes = 1
             PROVE  Spec /\ AssignmentSound => []ReductionComplete
  OBVIOUS
<1>1. RunInv => ReductionComplete
  BY RunPass
<1> QED
  BY <1>1, OrderInvariant, PTL

-----------------------------------------------------------------------------
(***************************************************************************)
(* Reductions are numbered: the n-th gives the tags after Base(n) to the   *)
(* buckets.  From here on one backward pass follows a forward(), and the   *)
(* user stops when a reduction has timed out.                              *)
(***************************************************************************)
Base(n) == n * BucketCount

LEMMA BaseNext ==
  ASSUME NEW B \in Nat \ {0}, NEW n \in Nat
  PROVE  /\ n * B \in Nat /\ (n + 1) * B = n * B + B
         /\ (n * B) \div B = n
<1>1. n * B \in Nat /\ (n + 1) * B = n * B + B
  OBVIOUS
<1>2. (n * B) \div B = n
  OBVIOUS
<1> QED
  BY <1>1, <1>2

LEMMA BaseOrder ==
  ASSUME NEW B \in Nat \ {0}, NEW m \in Nat, NEW n \in Nat, m < n
  PROVE  m * B + B <= n * B
<1>1. PICK d \in Nat : n = (m + 1) + d
  <2>1. n - (m + 1) \in Nat /\ n = (m + 1) + (n - (m + 1))
    OBVIOUS
  <2> QED
    BY <2>1
<1>2. n * B = (m + 1) * B + d * B
  BY <1>1
<1>3. (m + 1) * B = m * B + B /\ d * B \in Nat /\ m * B \in Nat
  OBVIOUS
<1> QED
  BY <1>2, <1>3

(* The number of the reduction a process is in, or has finalized. *)
Rounds(s, u) ==
  /\ s.expect_autograd_hooks \/ s.next_bucket > 1 => First(s) = Base(u.round)
  /\ ~s.expect_autograd_hooks =>
       Len(s.posted) = Base(IF u.forwards = 0 THEN 0 ELSE u.round + 1)
  /\ s.expect_autograd_hooks => u.forwards > 0
  /\ s.expect_autograd_hooks /\ ~s.require_finalize => s.next_bucket = 1
  /\ u.forwards <= MaxForwards
  /\ IF u.forwards = 0 THEN u.round = 0 ELSE u.round < u.forwards
  /\ u.pc = "reduced" => s.next_bucket = BucketCount + 1

LEMMA ForwardRounds ==
  ASSUME Assigned, NEW s, NEW u, NEW t, NEW v, LocalInv(s, u), Lined(s),
         Rounds(s, u), NEW seen \in SUBSET Params, NEW n \in Nat,
         DoForward(s, u, t, v, seen, n)
  PROVE  /\ Rounds(t, v)
         /\ Base(n) = Len(s.posted) /\ n < MaxForwards /\ v.round = n
<1>1. s \in ReducerType /\ u \in UserType /\ ~s.require_finalize
      /\ t = ResetAccounting(s) /\ u.forwards < MaxForwards
      /\ n = Len(s.posted) \div BucketCount
  BY DEF LocalInv, DoForward
<1>2. PICK B \in Nat \ {0} : B = BucketCount
  BY DEF Assigned
<1>3. PICK l \in Nat : l = Len(s.posted)
  BY <1>1 DEF ReducerType
<1>4. PICK f \in Nat : f = u.forwards
  BY <1>1 DEF UserType
<1>5. PICK m \in Nat : l = m * B /\ m <= f
  <2>1. u.round \in Nat
    BY <1>1 DEF UserType
  <2>2. CASE s.expect_autograd_hooks
    <3>1. s.next_bucket = 1 /\ First(s) = u.round * B
      BY <1>1, <1>2, <2>2 DEF Rounds, Base
    <3>2. l = u.round * B
      BY <1>3, <3>1 DEF First
    <3>3. u.round <= f
      BY <1>4, <2>1 DEF Rounds
    <3> QED
      BY <2>1, <3>2, <3>3
  <2>3. CASE ~s.expect_autograd_hooks
    <3>1. PICK i \in Nat : i = IF u.forwards = 0 THEN 0 ELSE u.round + 1
      BY <2>1
    <3>2. l = i * B
      BY <1>2, <1>3, <2>3, <3>1 DEF Rounds, Base
    <3>3. i <= f
      BY <1>4, <2>1, <3>1 DEF Rounds
    <3> QED
      BY <3>2, <3>3
  <2> QED
    BY <2>2, <2>3
<1>6. n = m
  BY <1>1, <1>2, <1>3, <1>5, BaseNext
<1>7. PICK unused : unused = IF find_unused_parameters THEN Params \ seen ELSE {}
  OBVIOUS
<1>8. PICK pc \in {"ready", "marking"} :
        pc = IF unused = {} THEN "ready" ELSE "marking"
  OBVIOUS
<1>9. v = [u EXCEPT !.pc = pc, !.forwards = @ + 1, !.passes = 0, !.seen = seen,
                    !.due = unused, !.outside = FALSE, !.round = n]
  BY <1>7, <1>8, Zenon DEF DoForward
<1>10. v.pc = pc /\ v.forwards = f + 1 /\ v.round = n
  BY <1>1, <1>4, <1>9 DEF UserType
<1>11. /\ t.expect_autograd_hooks /\ t.next_bucket = 1 /\ t.posted = s.posted
  BY <1>1, ResetCounts
<1>12. First(t) = l
  BY <1>3, <1>11 DEF First
<1>13. Base(n) = l
  BY <1>2, <1>5, <1>6 DEF Base
<1>14. MaxForwards \in Nat
  BY ReducerAssumption
<1>15. f + 1 <= MaxForwards /\ n < f + 1 /\ f + 1 # 0 /\ f + 1 > 0
       /\ n < MaxForwards
  BY <1>1, <1>4, <1>5, <1>6, <1>14
<1> QED
  BY <1>3, <1>8, <1>10, <1>11, <1>12, <1>13, <1>15 DEF Rounds

LEMMA CountedRounds ==
  ASSUME Assigned, NEW s \in ReducerType, NEW u, NEW t \in ReducerType, NEW v,
         Rounds(s, u), s.expect_autograd_hooks, t.expect_autograd_hooks,
         t.require_finalize, First(t) = First(s),
         v.round = u.round, v.forwards = u.forwards, v.pc # "reduced"
  PROVE  Rounds(t, v)
BY DEF Rounds

LEMMA RoundsStep ==
  ASSUME Assigned, ~Retry, NEW s, NEW u, NEW t, NEW v, LocalInv(s, u),
         Lined(s), Rounds(s, u), LocalStep(s, u, t, v)
  PROVE  Rounds(t, v)
<1>1. s \in ReducerType /\ u \in UserType /\ Flags(s, u) /\ Stages(s, u)
  BY DEF LocalInv
<1>2. ASSUME NEW c \in ReducerType,
             \/ LaunchedFrom(s, c)
             \/ c.posted = s.posted /\ c.next_bucket = s.next_bucket
      PROVE  First(c) = First(s)
  BY <1>1, <1>2, PostingFirst DEF First
<1>3. ASSUME NEW x \in Params, NEW value \in SUBSET Contribution,
             DoMark(s, u, t, v, x, value)
      PROVE  Rounds(t, v)
  <2>1. Counts(s) /\ t = CopyAndCount(s, x, value) /\ s.expect_autograd_hooks
    BY <1>1, <1>3 DEF Flags, Stages, DoMark
  <2>2. CountedDown(s, t, x, value) \/ Repeated(s, t, x)
    BY <1>1, <2>1, CopyAndCountCounts
  <2>3. t \in ReducerType /\ t.require_finalize /\ First(t) = First(s)
        /\ t.expect_autograd_hooks
    BY <1>2, <2>1, <2>2 DEF CountedDown, Repeated, Kept
  <2>4. PICK pc :
          pc = IF t.error # "none" THEN "raised"
               ELSE IF t.next_bucket > BucketCount THEN "preparing"
               ELSE IF u.due = {x} THEN "ready"
               ELSE "marking"
    OBVIOUS
  <2>5. v = [u EXCEPT !.due = @ \ {x}, !.pc = pc]
    BY <1>3, <2>4, Zenon DEF DoMark
  <2>6. v.round = u.round /\ v.forwards = u.forwards /\ v.pc # "reduced"
    BY <1>1, <2>4, <2>5 DEF UserType
  <2> QED
    BY <1>1, <2>1, <2>3, <2>6, CountedRounds
<1>4. ASSUME NEW x \in Params, NEW value \in SUBSET Contribution,
             DoHook(s, u, t, v, x, value)
      PROVE  Rounds(t, v)
  <2>1. t = MarkFromAutograd(s, x, value) /\ u.pc = "backward"
    BY <1>4 DEF DoHook
  <2>2. v.round = u.round /\ v.forwards = u.forwards /\ v.pc = u.pc
    <3>1. HookedUser(s, u, t, v, x)
      BY <1>1, <1>4, HookUser
    <3> QED
      BY <3>1 DEF HookedUser
  <2>3. CASE ~s.expect_autograd_hooks
    <3>1. t = s
      BY <2>1, <2>3 DEF MarkFromAutograd
    <3> QED
      BY <2>2, <3>1 DEF Rounds
  <2>4. CASE s.expect_autograd_hooks
    <3>1. Counts(s)
      BY <1>1, <2>4 DEF Flags
    <3>2. Repeated(s, t, x) \/ Counted(s, t, x, value)
      BY <1>1, <2>1, <2>4, <3>1, HookCounts
    <3>3. t \in ReducerType /\ t.require_finalize /\ First(t) = First(s)
          /\ t.expect_autograd_hooks
      BY <1>2, <2>4, <3>2 DEF Counted, Repeated, Kept
    <3> QED
      BY <1>1, <2>1, <2>2, <2>4, <3>3, CountedRounds
  <2> QED
    BY <2>3, <2>4
<1>5. ASSUME DoFinalize(s, u, t, v)
      PROVE  Rounds(t, v)
  <2>1. /\ s.next_bucket = BucketCount + 1 /\ FinalizeAsserts(s)
        /\ t = [s EXCEPT !.expect_autograd_hooks = FALSE,
                         !.require_finalize = FALSE, !.callbacks = 0]
    BY <1>5, FinalizeAssertsHold
  <2>2. /\ t.posted = s.posted /\ t.next_bucket = s.next_bucket
        /\ ~t.expect_autograd_hooks
    BY <1>1, <2>1 DEF ReducerType
  <2>3. PICK pc : pc = IF FirstFailed(s) > BucketCount THEN "reduced"
                       ELSE IF Retry THEN "idle" ELSE "raised"
    OBVIOUS
  <2>4. v = [u EXCEPT !.pc = pc]
    BY <1>5, <2>3, Zenon DEF DoFinalize
  <2>5. v.round = u.round /\ v.forwards = u.forwards
    BY <1>1, <2>4 DEF UserType
  <2>6. s.expect_autograd_hooks
    BY <2>1 DEF FinalizeAsserts
  <2>7. PICK B \in Nat \ {0} : B = BucketCount
    BY DEF Assigned
  <2>8. PICK n \in Nat : n = u.round
    BY <1>1 DEF UserType
  <2>9. First(s) = n * B /\ u.forwards > 0 /\ u.forwards \in Nat
    BY <1>1, <2>6, <2>7, <2>8 DEF Rounds, Base, UserType
  <2>10. Len(s.posted) \in Nat
    BY <1>1 DEF ReducerType
  <2>11. Len(s.posted) = n * B + B
    BY <2>1, <2>7, <2>9, <2>10, BaseNext DEF First
  <2>12. Base(u.round + 1) = Len(s.posted)
    BY <2>7, <2>8, <2>11, BaseNext DEF Base
  <2>13. First(t) = Base(u.round)
    BY <2>2, <2>7, <2>8, <2>9 DEF First, Base
  <2> QED
    BY <2>1, <2>2, <2>5, <2>9, <2>12, <2>13 DEF Rounds
<1>6. ASSUME \/ \E hooks \in SUBSET Params : DoBackward(s, u, t, v, hooks)
             \/ DoRaise(s, u, t, v) \/ DoThrow(s, u, t, v)
             \/ DoThrown(s, u, t, v) \/ DoReturn(s, u, t, v)
      PROVE  Rounds(t, v)
  <2>1. /\ t.posted = s.posted /\ t.next_bucket = s.next_bucket
        /\ t.require_finalize = s.require_finalize
        /\ t.expect_autograd_hooks = s.expect_autograd_hooks
    BY <1>1, <1>6
       DEF DoBackward, DoRaise, DoThrow, DoThrown, DoReturn, ReducerType
  <2>2. v.round = u.round /\ v.forwards = u.forwards /\ v.pc # "reduced"
    <3>1. ASSUME NEW hooks \in SUBSET Params, DoBackward(s, u, t, v, hooks)
          PROVE  v.round = u.round /\ v.forwards = u.forwards /\ v.pc # "reduced"
      BY <1>1, <3>1 DEF DoBackward, UserType
    <3>2. ASSUME \/ DoRaise(s, u, t, v) \/ DoThrow(s, u, t, v)
                 \/ DoThrown(s, u, t, v) \/ DoReturn(s, u, t, v)
          PROVE  v.round = u.round /\ v.forwards = u.forwards /\ v.pc # "reduced"
      BY <1>1, <3>2 DEF DoRaise, DoThrow, DoThrown, DoReturn, UserType
    <3> QED
      BY <1>6, <3>1, <3>2
  <2> QED
    BY <2>1, <2>2 DEF Rounds, First
<1> QED
  BY <1>3, <1>4, <1>5, <1>6, ForwardRounds DEF LocalStep

(* The last tags are those of the buckets launched, in order, and those    *)
(* before them have ended.                                                 *)
Listed(s) ==
  \A b \in Buckets : b < s.next_bucket => s.posted[First(s) + b] = b

Past(s) == \A k \in 1 .. First(s) : ~Open(k)

LEMMA ListedStep ==
  ASSUME Assigned, NEW s \in ReducerType, NEW t \in ReducerType,
         Posting(s, t), Lined(s), Listed(s)
  PROVE  Listed(t)
<1>1. CASE t.posted = s.posted /\ t.next_bucket = s.next_bucket /\ t.work = s.work
  BY <1>1 DEF Listed, First
<1>2. CASE t.next_bucket = 1
  BY <1>2 DEF Listed, Buckets
<1>3. CASE LaunchedFrom(s, t)
  <2> SUFFICES ASSUME NEW b \in Buckets, b < t.next_bucket
               PROVE  t.posted[First(t) + b] = b
    BY DEF Listed
  <2>1. PICK f \in Nat : f = First(s) /\ f = First(t)
    BY <1>3, PostingFirst DEF Lined
  <2>2. PICK m \in Nat : m = s.next_bucket /\ m >= 1
    BY DEF ReducerType, Assigned
  <2>3. PICK n \in Nat : n = t.next_bucket /\ b \in Nat /\ b >= 1
    BY DEF ReducerType, Assigned, Buckets
  <2>4. PICK l \in Nat : l = Len(s.posted) /\ f = l + 1 - m
    <3>1. Len(s.posted) \in Nat
      BY DEF ReducerType
    <3> QED
      BY <2>1, <2>2, <3>1 DEF First
  <2>5. /\ Len(t.posted) = l + (n - m)
        /\ \A k \in 1 .. l : t.posted[k] = s.posted[k]
        /\ \A k \in (l + 1) .. Len(t.posted) : t.posted[k] = m + (k - l) - 1
    BY <1>3, <2>2, <2>3, <2>4, LaunchedElements
  <2>6. CASE b < m
    <3>1. f + b \in 1 .. l
      BY <2>3, <2>4, <2>6
    <3>2. s.posted[f + b] = b
      BY <2>1, <2>2, <2>6 DEF Listed
    <3> QED
      BY <2>1, <2>5, <3>1, <3>2
  <2>7. CASE b >= m
    <3>1. f + b \in (l + 1) .. Len(t.posted) /\ m + ((f + b) - l) - 1 = b
      <4>1. PICK c \in Nat : c = b /\ m <= c /\ c < n /\ f = l + 1 - m
        BY <2>3, <2>4, <2>7
      <4>2. f + c >= l + 1 /\ f + c <= l + (n - m) /\ m + ((f + c) - l) - 1 = c
        BY <4>1
      <4>3. PICK k \in Nat : k = Len(t.posted) /\ k = l + (n - m)
        <5>1. Len(t.posted) \in Nat
          BY DEF ReducerType
        <5> QED
          BY <2>5, <5>1
      <4>4. f + c \in (l + 1) .. k
        BY <4>2, <4>3
      <4> QED
        BY <4>1, <4>2, <4>3, <4>4
    <3>2. t.posted[f + b] = m + ((f + b) - l) - 1
      BY <2>5, <3>1
    <3> QED
      BY <2>1, <3>1, <3>2
  <2> QED
    BY <2>2, <2>3, <2>6, <2>7
<1> QED
  BY <1>1, <1>2, <1>3 DEF Posting

LEMMA PastStep ==
  ASSUME Assigned, NEW s, NEW u, NEW t, NEW v, LocalInv(s, u), Lined(s),
         Closed(s, u), Past(s), LocalStep(s, u, t, v)
  PROVE  Past(t)
<1>1. s \in ReducerType /\ u \in UserType /\ t \in ReducerType
  BY LocalStepInv DEF LocalInv
<1>2. ASSUME NEW seen \in SUBSET Params, NEW n \in Nat,
             DoForward(s, u, t, v, seen, n)
      PROVE  Past(t)
  <2>1. ~s.require_finalize /\ u.pc # "raised" /\ t = ResetAccounting(s)
    BY <1>2 DEF DoForward
  <2>2. t.posted = s.posted /\ t.next_bucket = 1
    BY <1>1, <2>1, ResetCounts
  <2>3. Len(s.posted) \in Nat
    BY <1>1 DEF ReducerType
  <2>4. First(t) = Len(s.posted)
    BY <2>2, <2>3 DEF First
  <2> QED
    BY <2>1, <2>4 DEF Closed, Past
<1>3. ASSUME ~ \E seen \in SUBSET Params, n \in Nat :
                 DoForward(s, u, t, v, seen, n)
      PROVE  First(t) = First(s)
  <2>1. ASSUME \/ LaunchedFrom(s, t)
               \/ t.posted = s.posted /\ t.next_bucket = s.next_bucket
        PROVE  First(t) = First(s)
    BY <1>1, <2>1, PostingFirst DEF First
  <2>2. Flags(s, u) /\ Stages(s, u)
    BY DEF LocalInv
  <2>3. ASSUME NEW x \in Params, NEW value \in SUBSET Contribution,
               DoMark(s, u, t, v, x, value)
        PROVE  First(t) = First(s)
    <3>1. Counts(s) /\ t = CopyAndCount(s, x, value)
      BY <2>2, <2>3 DEF Flags, Stages, DoMark
    <3> QED
      BY <1>1, <2>1, <3>1, CopyAndCountCounts DEF CountedDown, Repeated
  <2>4. ASSUME NEW x \in Params, NEW value \in SUBSET Contribution,
               DoHook(s, u, t, v, x, value)
        PROVE  First(t) = First(s)
    <3>1. t = MarkFromAutograd(s, x, value)
      BY <2>4 DEF DoHook
    <3>2. CASE ~s.expect_autograd_hooks
      BY <3>1, <3>2 DEF MarkFromAutograd
    <3>3. CASE s.expect_autograd_hooks
      <4>1. Counts(s)
        BY <2>2, <3>3 DEF Flags
      <4> QED
        BY <1>1, <2>1, <3>1, <3>3, <4>1, HookCounts DEF Counted, Repeated
    <3> QED
      BY <3>2, <3>3
  <2>5. ASSUME DoFinalize(s, u, t, v)
        PROVE  First(t) = First(s)
    <3>1. t = [s EXCEPT !.expect_autograd_hooks = FALSE,
                        !.require_finalize = FALSE, !.callbacks = 0]
      BY <2>5, FinalizeAssertsHold
    <3>2. t.posted = s.posted /\ t.next_bucket = s.next_bucket
      BY <1>1, <3>1 DEF ReducerType
    <3> QED
      BY <2>1, <3>2
  <2>6. ASSUME \/ \E hooks \in SUBSET Params : DoBackward(s, u, t, v, hooks)
               \/ DoRaise(s, u, t, v) \/ DoThrow(s, u, t, v)
               \/ DoThrown(s, u, t, v) \/ DoReturn(s, u, t, v)
        PROVE  First(t) = First(s)
    <3>1. t.posted = s.posted /\ t.next_bucket = s.next_bucket
      BY <1>1, <2>6
         DEF DoBackward, DoRaise, DoThrow, DoThrown, DoReturn, ReducerType
    <3> QED
      BY <2>1, <3>1
  <2> QED
    BY <1>3, <2>3, <2>4, <2>5, <2>6 DEF LocalStep
<1> QED
  BY <1>2, <1>3 DEF Past

-----------------------------------------------------------------------------
(***************************************************************************)
(* What is in the buckets.  Of process q: s and u are the fields of its    *)
(* reducer and the place in its training loop, U the gradients meant for   *)
(* the reduction it is in, and g its gradients.                            *)
(***************************************************************************)
Unmarked(u, U) ==
  (IF find_unused_parameters
   THEN u.seen \cup (IF u.pc = "marking" THEN u.due ELSE {})
   ELSE Params) \ U

Exactly(s, D) ==
  \A b \in Buckets, r \in Replicas : s.pending[b][r] = Held(D, b, r)

(* A bucket replica waits for exactly its parameters not marked. *)
Exact(s, u, U, g) ==
  ~u.strayed /\ s.expect_autograd_hooks =>
    /\ Exactly(s, Unmarked(u, U))
    /\ find_unused_parameters => U \subseteq u.seen
    /\ u.pc = "backward" => u.due \cap U = {}
    /\ u.passes = 0 => U = {}
    /\ \A x \in Params \ U : g[x] = {}

(* Until it is reduced, the part of a bucket that belongs to a marked      *)
(* parameter holds what its process computed.                              *)
Owned(q, n, U, x) == IF x \in U THEN {<<q, x[1], n>>} ELSE {}

Holds(q, n, s, U, D) ==
  \A x \in Params :
    /\ BucketOf(x) < s.next_bucket \/ x \notin D
    /\ First(s) + BucketOf(x) \notin outcome.done
    => s.contents[x] = Owned(q, n, U, x)

NotMarked(s, u, U) ==
  IF s.expect_autograd_hooks THEN Unmarked(u, U) ELSE Params

Data(q, s, u, U, g) ==
  /\ Exact(s, u, U, g)
  /\ ~u.strayed => Holds(q, u.round, s, U, NotMarked(s, u, U))

LEMMA NoneHeld ==
  ASSUME Assigned, NEW D, NEW x \in Params, Held(D, BucketOf(x), x[1]) = 0
  PROVE  x \notin D
<1>1. PICK b \in Buckets : b = BucketOf(x)
  BY BucketOfType
<1>2. PICK r \in Replicas : r = x[1]
  BY BucketOfType
<1>3. ASSUME x \in D
      PROVE  FALSE
  <2>1. {} \in SUBSET D /\ x \notin {}
    OBVIOUS
  <2>2. Held({}, b, r) < Held(D, b, r)
    BY <1>1, <1>2, <1>3, <2>1, HeldStrict
  <2>3. PICK e \in Nat : e = Held({}, b, r)
    BY HeldType
  <2>4. e < 0
    BY <1>1, <1>2, <2>2, <2>3
  <2> QED
    BY <2>4
<1> QED
  BY <1>3

LEMMA LaunchedNotHeld ==
  ASSUME Assigned, NEW t \in ReducerType, Counts(t), NEW D, Exactly(t, D),
         NEW y \in Params, BucketOf(y) < t.next_bucket
  PROVE  y \notin D
<1>1. PICK b \in Buckets : b = BucketOf(y)
  BY BucketOfType
<1>2. PICK r \in Replicas : r = y[1]
  BY BucketOfType
<1>3. b < t.next_bucket
  BY <1>1
<1>4. t.pending[b][r] = 0
  BY <1>3, LaunchedWaitForNothing
<1>5. Held(D, b, r) = 0
  BY <1>4 DEF Exactly
<1> QED
  BY <1>1, <1>2, <1>5, NoneHeld

LEMMA CountOne ==
  ASSUME Assigned, NEW s \in ReducerType, NEW t \in ReducerType,
         NEW D, NEW x \in Params, x \in D, NEW value, NEW q, NEW n,
         NEW U, NEW W,
         Exactly(s, D), Counts(t), LaunchedFrom(s, t),
         t.pending = [s.pending EXCEPT ![BucketOf(x)][x[1]] = @ - 1],
         t.contents = [s.contents EXCEPT ![x] = value],
         value = Owned(q, n, W, x),
         \A y \in Params : y # x => (y \in W <=> y \in U),
         Holds(q, n, s, U, D)
  PROVE  Exactly(t, D \ {x}) /\ Holds(q, n, t, W, D \ {x})
<1>1. Exactly(t, D \ {x})
  <2> SUFFICES ASSUME NEW b \in Buckets, NEW r \in Replicas
               PROVE  t.pending[b][r] = Held(D \ {x}, b, r)
    BY DEF Exactly
  <2>1. /\ t.pending[b][r] = IF b = BucketOf(x) /\ r = x[1]
                             THEN s.pending[b][r] - 1 ELSE s.pending[b][r]
    BY PendingDown
  <2>2. Held(D \ {x}, b, r) = IF b = BucketOf(x) /\ r = x[1]
                              THEN Held(D, b, r) - 1 ELSE Held(D, b, r)
    BY HeldWithout
  <2>3. s.pending[b][r] = Held(D, b, r)
    BY DEF Exactly
  <2> QED
    BY <2>1, <2>2, <2>3
<1>2. First(t) = First(s)
  BY PostingFirst
<1>3. ASSUME NEW y \in Params,
             BucketOf(y) < t.next_bucket \/ y \notin D \ {x},
             First(t) + BucketOf(y) \notin outcome.done
      PROVE  t.contents[y] = Owned(q, n, W, y)
  <2>1. s.contents \in [Params -> SUBSET Contribution]
    BY DEF ReducerType
  <2>2. CASE y = x
    BY <2>1, <2>2
  <2>3. CASE y # x
    <3>1. y \notin D \ {x}
      <4>1. CASE BucketOf(y) < t.next_bucket
        BY <1>1, <4>1, LaunchedNotHeld
      <4> QED
        BY <1>3, <4>1
    <3>2. y \notin D
      BY <2>3, <3>1
    <3>3. s.contents[y] = Owned(q, n, U, y)
      BY <1>2, <1>3, <3>2 DEF Holds
    <3>4. t.contents[y] = s.contents[y]
      BY <2>1, <2>3
    <3> QED
      BY <2>3, <3>3, <3>4 DEF Owned
  <2> QED
    BY <2>2, <2>3
<1> QED
  BY <1>1, <1>3 DEF Holds

LEMMA ForwardData ==
  ASSUME Assigned, NEW s, NEW u, NEW t, NEW v, NEW q, LocalInv(s, u),
         NEW seen \in SUBSET Params, NEW n \in Nat,
         DoForward(s, u, t, v, seen, n)
  PROVE  Data(q, t, v, {}, [x \in Params |-> {}])
<1>1. s \in ReducerType /\ u \in UserType /\ t = ResetAccounting(s)
  BY DEF LocalInv, DoForward
<1>2. PICK unused \in SUBSET Params :
        unused = IF find_unused_parameters THEN Params \ seen ELSE {}
  OBVIOUS
<1>3. PICK pc \in {"ready", "marking"} :
        pc = IF unused = {} THEN "ready" ELSE "marking"
  OBVIOUS
<1>4. v = [u EXCEPT !.pc = pc, !.forwards = @ + 1, !.passes = 0, !.seen = seen,
                    !.due = unused, !.outside = FALSE, !.round = n]
  BY <1>2, <1>3, Zenon DEF DoForward
<1>5. v.pc = pc /\ v.seen = seen /\ v.due = unused
  BY <1>1, <1>4 DEF UserType
<1>6. /\ t.next_bucket = 1 /\ t.expect_autograd_hooks
      /\ \A b \in Buckets, r \in Replicas :
           t.pending[b][r] = Cardinality(Slot(b, r))
  BY <1>1, ResetCounts
<1>7. Unmarked(v, {}) = Params
  BY <1>2, <1>3, <1>5 DEF Unmarked
<1>8. Exactly(t, Params)
  BY <1>6, HeldAll DEF Exactly
<1>9. Exact(t, v, {}, [x \in Params |-> {}])
  BY <1>3, <1>5, <1>7, <1>8 DEF Exact
<1>10. Holds(q, v.round, t, {}, Params)
  <2>1. \A x \in Params : ~ (BucketOf(x) < 1)
    BY BucketOfType DEF Buckets
  <2> QED
    BY <1>6, <2>1 DEF Holds
<1>11. NotMarked(t, v, {}) = Params
  BY <1>6, <1>7 DEF NotMarked
<1> QED
  BY <1>9, <1>10, <1>11 DEF Data

LEMMA MarkData ==
  ASSUME Assigned, NEW s, NEW u, NEW t, NEW v, NEW q, NEW U, NEW g,
         LocalInv(s, u), PassInv(s, u), Data(q, s, u, U, g),
         NEW x \in Params, g[x] \in SUBSET Contribution,
         DoMark(s, u, t, v, x, g[x])
  PROVE  Data(q, t, v, U, g)
<1>1. s \in ReducerType /\ u \in UserType /\ Flags(s, u) /\ Stages(s, u)
  BY DEF LocalInv
<1>2. /\ u.pc = "marking" /\ x \in u.due /\ s.expect_autograd_hooks
      /\ find_unused_parameters /\ Counts(s) /\ u.passes = 0 /\ s.error = "none"
  BY <1>1 DEF Flags, Stages, DoMark
<1>3. CountedDown(s, t, x, g[x]) \/ Repeated(s, t, x)
  BY <1>1, <1>2, CopyAndCountCounts DEF DoMark
<1>4. PICK pc :
        pc = IF t.error # "none" THEN "raised"
             ELSE IF t.next_bucket > BucketCount THEN "preparing"
             ELSE IF u.due = {x} THEN "ready"
             ELSE "marking"
  OBVIOUS
<1>5. v = [u EXCEPT !.due = @ \ {x}, !.pc = pc]
  BY <1>4, Zenon DEF DoMark
<1>6. /\ v.pc = pc /\ v.due = u.due \ {x} /\ v.passes = u.passes
      /\ v.seen = u.seen /\ v.strayed = u.strayed /\ v.round = u.round
  BY <1>1, <1>5 DEF UserType
<1>7. u.seen \cap u.due = {} /\ ~u.strayed
  BY <1>2 DEF PassInv, Counting, StrayPass
<1>8. PICK D : D = Unmarked(u, U)
  OBVIOUS
<1>9. /\ Exactly(s, D) /\ U = {} /\ \A y \in Params : g[y] = {}
      /\ Holds(q, u.round, s, U, D)
  BY <1>2, <1>7, <1>8 DEF Data, Exact, NotMarked
<1>10. D = u.seen \cup u.due /\ x \in D
  BY <1>2, <1>8, <1>9 DEF Unmarked
<1>11. CountedDown(s, t, x, g[x])
  <2>1. ASSUME Repeated(s, t, x)
        PROVE  FALSE
    <3>1. BucketOf(x) \in Buckets /\ x[1] \in Replicas
      BY BucketOfType
    <3>2. Held(D, BucketOf(x), x[1]) = 0
      BY <1>9, <2>1, <3>1 DEF Exactly, Repeated
    <3> QED
      BY <1>10, <3>2, NoneHeld
  <2> QED
    BY <1>3, <2>1
<1>12. /\ t \in ReducerType /\ Counts(t) /\ LaunchedFrom(s, t)
       /\ t.pending = [s.pending EXCEPT ![BucketOf(x)][x[1]] = @ - 1]
       /\ t.contents = [s.contents EXCEPT ![x] = g[x]]
       /\ t.error = "none" /\ t.expect_autograd_hooks
  BY <1>2, <1>11 DEF CountedDown, Kept
<1>13. g[x] = Owned(q, u.round, U, x)
  BY <1>9 DEF Owned
<1>14. Exactly(t, D \ {x}) /\ Holds(q, u.round, t, U, D \ {x})
  <2>1. PICK n : n = u.round
    OBVIOUS
  <2>2. PICK a : a = g[x]
    OBVIOUS
  <2>3. /\ t.contents = [s.contents EXCEPT ![x] = a] /\ a = Owned(q, n, U, x)
        /\ Holds(q, n, s, U, D)
    BY <1>9, <1>12, <1>13, <2>1, <2>2
  <2>4. Exactly(t, D \ {x}) /\ Holds(q, n, t, U, D \ {x})
    BY <1>1, <1>9, <1>10, <1>12, <2>3, CountOne, Zenon
  <2> QED
    BY <2>1, <2>4
<1>15. Unmarked(v, U) = D \ {x} /\ v.pc # "backward"
  <2>1. CASE t.next_bucket > BucketCount
    <3>1. pc = "preparing"
      BY <1>4, <1>12, <2>1
    <3>2. ASSUME NEW y \in D \ {x}
          PROVE  FALSE
      <4>1. y \in Params
        BY <1>1, <1>10 DEF UserType
      <4>2. BucketOf(y) < t.next_bucket
        <5>1. PICK b \in Buckets : b = BucketOf(y)
          BY <4>1, BucketOfType
        <5>2. BucketCount \in Nat
          BY DEF Assigned
        <5>3. PICK m \in Nat : m = t.next_bucket
          BY <1>12, <5>2 DEF ReducerType
        <5>4. b < m
          BY <2>1, <5>2, <5>3 DEF Buckets
        <5> QED
          BY <5>1, <5>3, <5>4
      <4>3. t \in ReducerType /\ Counts(t)
        BY <1>12
      <4> QED
        BY <1>14, <3>2, <4>1, <4>2, <4>3, LaunchedNotHeld
    <3>3. u.seen = {}
      BY <1>2, <1>7, <1>10, <3>2
    <3> QED
      BY <1>2, <1>6, <1>9, <3>1, <3>2, <3>3 DEF Unmarked
  <2>2. CASE ~ (t.next_bucket > BucketCount)
    <3>1. pc = IF u.due = {x} THEN "ready" ELSE "marking"
      BY <1>4, <1>12, <2>2
    <3> QED
      BY <1>2, <1>6, <1>7, <1>9, <1>10, <3>1 DEF Unmarked
  <2> QED
    BY <2>1, <2>2
<1>16. Exact(t, v, U, g)
  BY <1>9, <1>14, <1>15 DEF Exact
<1>17. NotMarked(t, v, U) = D \ {x}
  BY <1>12, <1>15 DEF NotMarked
<1> QED
  BY <1>6, <1>14, <1>16, <1>17 DEF Data

LEMMA HookData ==
  ASSUME Assigned, NEW s, NEW u, NEW t, NEW v, NEW q, NEW U, NEW g, NEW value,
         LocalInv(s, u), Data(q, s, u, U, g), NEW x \in Params,
         DOMAIN g = Params, value \in SUBSET Contribution,
         value = g[x] \cup {<<q, x[1], u.round>>},
         DoHook(s, u, t, v, x, value)
  PROVE  Data(q, t, v, IF s.expect_autograd_hooks THEN U \cup {x} ELSE U,
              [g EXCEPT ![x] = value])
<1>1. s \in ReducerType /\ u \in UserType /\ Flags(s, u) /\ Stages(s, u)
  BY DEF LocalInv
<1>2. u.pc = "backward" /\ x \in u.due /\ t = MarkFromAutograd(s, x, value)
      /\ u.passes > 0
  BY <1>1 DEF DoHook, Stages
<1>3. HookedUser(s, u, t, v, x)
  BY <1>1, HookUser
<1>4. /\ v.pc = "backward" /\ v.due = u.due \ {x} /\ v.passes = u.passes
      /\ v.seen = u.seen /\ v.round = u.round
      /\ v.strayed <=> \/ u.strayed
                       \/ /\ find_unused_parameters /\ x \notin u.seen
                          /\ s.expect_autograd_hooks
  BY <1>2, <1>3 DEF HookedUser
<1>5. PICK W : W = IF s.expect_autograd_hooks THEN U \cup {x} ELSE U
  OBVIOUS
<1>6. PICK h : h = [g EXCEPT ![x] = value]
  OBVIOUS
<1>7. CASE ~s.expect_autograd_hooks
  <2>1. t = s /\ W = U
    BY <1>2, <1>5, <1>7 DEF MarkFromAutograd
  <2>2. NotMarked(t, v, U) = NotMarked(s, u, U) /\ v.strayed = u.strayed
    <3>1. v.strayed <=> u.strayed
      BY <1>4, <1>7
    <3>2. v.strayed \in BOOLEAN /\ u.strayed \in BOOLEAN
      BY <1>1, <1>3 DEF HookedUser, UserType
    <3> QED
      BY <1>7, <2>1, <3>1, <3>2 DEF NotMarked
  <2>3. Exact(t, v, U, h)
    BY <1>7, <2>1 DEF Exact
  <2>4. ~v.strayed => Holds(q, v.round, t, U, NotMarked(t, v, U))
    BY <1>4, <2>1, <2>2 DEF Data
  <2> QED
    BY <1>5, <1>6, <2>1, <2>3, <2>4 DEF Data
<1>8. CASE v.strayed
  BY <1>8 DEF Data, Exact
<1>9. CASE s.expect_autograd_hooks /\ ~v.strayed
  <2>1. /\ ~u.strayed /\ (find_unused_parameters => x \in u.seen)
        /\ W = U \cup {x} /\ Counts(s)
    BY <1>1, <1>4, <1>5, <1>9 DEF Flags
  <2>2. PICK D : D = Unmarked(u, U)
    OBVIOUS
  <2>3. /\ Exactly(s, D) /\ (find_unused_parameters => U \subseteq u.seen)
        /\ u.due \cap U = {} /\ \A y \in Params \ U : g[y] = {}
        /\ Holds(q, u.round, s, U, D)
    BY <1>2, <1>9, <2>1, <2>2 DEF Data, Exact, NotMarked
  <2>4. x \notin U /\ x \in D
    BY <1>2, <2>1, <2>2, <2>3 DEF Unmarked
  <2>5. Repeated(s, t, x) \/ Counted(s, t, x, value)
    BY <1>1, <1>2, <1>9, <2>1, HookCounts
  <2>6. Counted(s, t, x, value)
    <3>1. ASSUME Repeated(s, t, x)
          PROVE  FALSE
      <4>1. BucketOf(x) \in Buckets /\ x[1] \in Replicas
        BY BucketOfType
      <4>2. Held(D, BucketOf(x), x[1]) = 0
        BY <2>3, <3>1, <4>1 DEF Exactly, Repeated
      <4> QED
        BY <2>4, <4>2, NoneHeld
    <3> QED
      BY <2>5, <3>1
  <2>7. /\ t \in ReducerType /\ Counts(t) /\ LaunchedFrom(s, t)
        /\ t.pending = [s.pending EXCEPT ![BucketOf(x)][x[1]] = @ - 1]
        /\ t.contents = [s.contents EXCEPT ![x] = value]
    BY <2>6 DEF Counted
  <2>8. t.expect_autograd_hooks
    BY <1>9, <2>6 DEF Counted
  <2>9. PICK n : n = u.round
    OBVIOUS
  <2>10. value = Owned(q, n, W, x)
    BY <2>1, <2>3, <2>4, <2>9 DEF Owned
  <2>11. \A y \in Params : y # x => (y \in W <=> y \in U)
    BY <2>1
  <2>12. Exactly(t, D \ {x}) /\ Holds(q, n, t, W, D \ {x})
    BY <1>1, <2>3, <2>4, <2>7, <2>9, <2>10, <2>11, CountOne, Zenon
  <2>13. Unmarked(v, W) = D \ {x}
    BY <1>2, <1>4, <2>1, <2>2 DEF Unmarked
  <2>14. \A y \in Params \ W : h[y] = {}
    BY <1>6, <2>1, <2>3
  <2>15. Exact(t, v, W, h)
    <3>1. find_unused_parameters => W \subseteq v.seen
      BY <1>4, <2>1, <2>3
    <3>2. v.due \cap W = {} /\ v.passes # 0
      BY <1>1, <1>2, <1>4, <2>1, <2>3 DEF UserType
    <3> QED
      BY <2>12, <2>13, <2>14, <3>1, <3>2 DEF Exact
  <2>16. NotMarked(t, v, W) = D \ {x}
    BY <2>8, <2>13 DEF NotMarked
  <2> QED
    BY <1>4, <1>5, <1>6, <2>9, <2>12, <2>15, <2>16 DEF Data
<1> QED
  BY <1>7, <1>8, <1>9

LEMMA OtherData ==
  ASSUME Assigned, Passes = 1, NEW s, NEW u, NEW t, NEW v, NEW q, NEW U, NEW g,
         LocalInv(s, u), Data(q, s, u, U, g),
         \/ \E hooks \in SUBSET Params : DoBackward(s, u, t, v, hooks)
         \/ DoRaise(s, u, t, v) \/ DoThrow(s, u, t, v)
         \/ DoThrown(s, u, t, v) \/ DoReturn(s, u, t, v)
  PROVE  Data(q, t, v, U, g)
<1>1. s \in ReducerType /\ u \in UserType
  BY DEF LocalInv
<1>2. /\ t.posted = s.posted /\ t.next_bucket = s.next_bucket
      /\ t.pending = s.pending /\ t.contents = s.contents
      /\ t.expect_autograd_hooks = s.expect_autograd_hooks
  BY <1>1 DEF DoBackward, DoRaise, DoThrow, DoThrown, DoReturn, ReducerType
<1>3. /\ v.round = u.round /\ v.strayed = u.strayed /\ v.seen = u.seen
      /\ u.pc # "marking" /\ v.pc # "marking"
      /\ v.passes = 0 => u.passes = 0
      /\ v.pc = "backward" => \/ u.passes = 0
                              \/ u.pc = "backward" /\ v.due = u.due
  <2>1. ASSUME NEW hooks \in SUBSET Params, DoBackward(s, u, t, v, hooks)
        PROVE  /\ v.round = u.round /\ v.strayed = u.strayed /\ v.seen = u.seen
               /\ u.pc # "marking" /\ v.pc # "marking" /\ u.passes = 0
    <3>1. u.passes \in Nat /\ u.passes < 1
      BY <1>1, <2>1 DEF DoBackward, UserType
    <3>2. u.passes = 0
      BY <3>1
    <3> QED
      BY <1>1, <2>1, <3>2 DEF DoBackward, UserType
  <2>2. ASSUME \/ DoRaise(s, u, t, v) \/ DoThrow(s, u, t, v)
               \/ DoThrown(s, u, t, v) \/ DoReturn(s, u, t, v)
        PROVE  /\ v.round = u.round /\ v.strayed = u.strayed /\ v.seen = u.seen
               /\ u.pc # "marking" /\ v.pc # "marking" /\ v.passes = u.passes
               /\ v.pc = "backward" => u.pc = "backward" /\ v.due = u.due
    <3>1. CASE DoRaise(s, u, t, v)
      BY <1>1, <3>1 DEF DoRaise, UserType
    <3>2. CASE DoThrow(s, u, t, v)
      BY <1>1, <3>2 DEF DoThrow, UserType
    <3>3. CASE DoThrown(s, u, t, v)
      BY <1>1, <3>3 DEF DoThrown, UserType
    <3>4. CASE DoReturn(s, u, t, v)
      BY <1>1, <3>4 DEF DoReturn, Done, UserType
    <3> QED
      BY <2>2, <3>1, <3>2, <3>3, <3>4
  <2> QED
    BY <2>1, <2>2
<1>4. Unmarked(v, U) = Unmarked(u, U)
  BY <1>3 DEF Unmarked
<1>5. Exactly(s, Unmarked(u, U)) => Exactly(t, Unmarked(v, U))
  BY <1>2, <1>4 DEF Exactly
<1>6. Exact(t, v, U, g)
  BY <1>2, <1>3, <1>5 DEF Data, Exact
<1>7. NotMarked(t, v, U) = NotMarked(s, u, U) /\ First(t) = First(s)
  BY <1>2, <1>4 DEF NotMarked, First
<1>8. ~v.strayed => Holds(q, v.round, t, U, NotMarked(t, v, U))
  BY <1>2, <1>3, <1>7 DEF Data, Holds
<1> QED
  BY <1>6, <1>8 DEF Data

LEMMA FinalizeData ==
  ASSUME Assigned, NEW s, NEW u, NEW t, NEW v, NEW q, NEW U, NEW g, NEW h,
         LocalInv(s, u), Data(q, s, u, U, g), DoFinalize(s, u, t, v)
  PROVE  Data(q, t, v, U, h)
<1>1. s \in ReducerType /\ u \in UserType
  BY DEF LocalInv
<1>2. t = [s EXCEPT !.expect_autograd_hooks = FALSE,
                    !.require_finalize = FALSE, !.callbacks = 0]
  BY FinalizeAssertsHold
<1>3. /\ t.posted = s.posted /\ t.next_bucket = s.next_bucket
      /\ t.contents = s.contents /\ ~t.expect_autograd_hooks
  BY <1>1, <1>2 DEF ReducerType
<1>4. PICK pc : pc = IF FirstFailed(s) > BucketCount THEN "reduced"
                     ELSE IF Retry THEN "idle" ELSE "raised"
  OBVIOUS
<1>5. v = [u EXCEPT !.pc = pc]
  BY <1>4, Zenon DEF DoFinalize
<1>6. v.round = u.round /\ v.strayed = u.strayed
  BY <1>1, <1>5 DEF UserType
<1>7. Exact(t, v, U, h)
  BY <1>3 DEF Exact
<1>8. NotMarked(t, v, U) = Params /\ First(t) = First(s)
  BY <1>3 DEF NotMarked, First
<1>9. ~v.strayed => Holds(q, v.round, t, U, NotMarked(t, v, U))
  BY <1>3, <1>6, <1>8 DEF Data, Holds
<1> QED
  BY <1>7, <1>9 DEF Data

-----------------------------------------------------------------------------
(***************************************************************************)
(* Reductions of all processes: what the collectives that are done have    *)
(* left in the buckets, and the finalizers in the gradients.               *)
(***************************************************************************)
UsedType == [Ranks -> [0 .. MaxForwards -> SUBSET Params]]

Clean == \A q \in Ranks : ~user[q].strayed

Tag(n, x) == Base(n) + BucketOf(x)

(* Contributions(), of the history U. *)
Given(U, i, n) ==
  {<<t[1], t[2], n>> : t \in {u \in Ranks \X Replicas :
                               <<u[2], i>> \in U[u[1]][n]}}

Tracked(q, s, u, U, g) ==
  Rounds(s, u) /\ Listed(s) /\ Past(s) /\ Data(q, s, u, U, g)

Summed(s, u, U) ==
  \A x \in Params :
    BucketOf(x) < s.next_bucket /\ Tag(u.round, x) \in outcome.done =>
      s.contents[x] = Given(U, x[2], u.round)

Averaged(u, g, U) ==
  u.pc = "reduced" =>
    \A x \in Params : /\ Tag(u.round, x) \in outcome.done
                      /\ g[x] = Given(U, x[2], u.round)

(* All processes have posted a collective that is done. *)
DonePosted ==
  \A k \in outcome.done, q \in Ranks : k <= Len(reducer[q].posted)

GradInv ==
  /\ RunInv /\ used \in UsedType /\ DonePosted
  /\ \A p \in Ranks : Tracked(p, reducer[p], user[p],
                              used[p][user[p].round], grad[p])
  /\ Clean => \A p \in Ranks : /\ Summed(reducer[p], user[p], used)
                               /\ Averaged(user[p], grad[p], used)

GivenBy(U, i, n, e) ==
  \E q \in Ranks, r \in Replicas : <<r, i>> \in U[q][n] /\ e = <<q, r, n>>

LEMMA GivenElements ==
  ASSUME NEW U, NEW i, NEW n, NEW e
  PROVE  e \in Given(U, i, n) <=> GivenBy(U, i, n, e)
<1>1. e \in Given(U, i, n) <=>
        \E t \in Ranks \X Replicas : <<t[2], i>> \in U[t[1]][n]
                                     /\ e = <<t[1], t[2], n>>
  BY Zenon DEF Given
<1>2. ASSUME NEW q \in Ranks, NEW r \in Replicas,
             <<r, i>> \in U[q][n], e = <<q, r, n>>
      PROVE  \E t \in Ranks \X Replicas : <<t[2], i>> \in U[t[1]][n]
                                          /\ e = <<t[1], t[2], n>>
  <2>1. <<q, r>> \in Ranks \X Replicas /\ <<q, r>>[1] = q /\ <<q, r>>[2] = r
    OBVIOUS
  <2> QED
    BY <1>2, <2>1, Zenon
<1>3. ASSUME NEW t \in Ranks \X Replicas, <<t[2], i>> \in U[t[1]][n],
             e = <<t[1], t[2], n>>
      PROVE  GivenBy(U, i, n, e)
  <2>1. t[1] \in Ranks /\ t[2] \in Replicas
    OBVIOUS
  <2> QED
    BY <1>3, <2>1, Zenon DEF GivenBy
<1> QED
  BY <1>1, <1>2, <1>3 DEF GivenBy

(* The history matters only where it has the variable. *)
LEMMA GivenSame ==
  ASSUME NEW U, NEW W, NEW i, NEW n,
         \A q \in Ranks, r \in Replicas :
           <<r, i>> \in U[q][n] <=> <<r, i>> \in W[q][n]
  PROVE  Given(U, i, n) = Given(W, i, n)
<1>1. ASSUME NEW e
      PROVE  e \in Given(U, i, n) <=> e \in Given(W, i, n)
  <2>1. GivenBy(U, i, n, e) <=> GivenBy(W, i, n, e)
    BY DEF GivenBy
  <2> QED
    BY <2>1, GivenElements
<1> QED
  BY <1>1

LEMMA GivenIsContributions ==
  ASSUME NEW i, NEW n
  PROVE  Contributions(i, n) = Given(used, i, n)
BY DEF Contributions, Given

(* What GradInv says of one process. *)
LEMMA GradParts ==
  ASSUME GradInv, NEW p \in Ranks
  PROVE  /\ Assigned /\ ReducerInv /\ LocalInv(reducer[p], user[p])
         /\ reducer[p] \in ReducerType /\ user[p] \in UserType
         /\ Lined(reducer[p]) /\ (~Retry => Closed(reducer[p], user[p]))
         /\ (Passes = 1 => PassInv(reducer[p], user[p]))
         /\ Tracked(p, reducer[p], user[p], used[p][user[p].round], grad[p])
         /\ user[p].round \in 0 .. MaxForwards
         /\ grad[p] \in [Params -> SUBSET Contribution]
<1>1. /\ Assigned /\ ReducerInv /\ LocalInv(reducer[p], user[p])
      /\ reducer[p] \in ReducerType /\ user[p] \in UserType
      /\ grad[p] \in [Params -> SUBSET Contribution]
  BY DEF GradInv, RunInv, ReducerInv, Types
<1>2. /\ Lined(reducer[p]) /\ (~Retry => Closed(reducer[p], user[p]))
      /\ (Passes = 1 => PassInv(reducer[p], user[p]))
  BY DEF GradInv, RunInv, Orderly
<1>3. Tracked(p, reducer[p], user[p], used[p][user[p].round], grad[p])
  BY DEF GradInv
<1>4. user[p].round \in 0 .. MaxForwards
  <2>1. PICK u \in UserType : u = user[p]
    BY <1>1
  <2>2. PICK f \in Nat : f = u.forwards /\ f <= MaxForwards
    BY <1>3, <2>1 DEF Tracked, Rounds, UserType
  <2>3. PICK n \in Nat : n = u.round
    BY DEF UserType
  <2>4. IF f = 0 THEN n = 0 ELSE n < f
    BY <1>3, <2>1, <2>2, <2>3 DEF Tracked, Rounds
  <2>5. MaxForwards \in Nat
    BY ReducerAssumption
  <2> QED
    BY <2>1, <2>2, <2>3, <2>4, <2>5
<1> QED
  BY <1>1, <1>2, <1>3, <1>4

(* The histories and the gradients after a step of a process. *)
LEMMA ForwardUses ==
  ASSUME GradInv, NEW p \in Ranks, NEW seen \in SUBSET Params,
         Forward(p, seen)
  PROVE  \E n \in 0 .. MaxForwards :
           /\ user'[p].round = n /\ Base(n) = Len(reducer[p].posted)
           /\ used' = [used EXCEPT ![p][n] = {}]
           /\ grad' = [grad EXCEPT ![p] = [x \in Params |-> {}]]
           /\ outcome' = outcome
<1>0. ReducerInv
  BY GradParts
<1>1. PICK n \in Nat : n = Len(reducer[p].posted) \div BucketCount
  BY GradParts, RoundIsNat
<1>2. DoForward(reducer[p], user[p], reducer'[p], user'[p], seen, n)
  <2>1. DoForward(reducer[p], user[p], reducer'[p], user'[p], seen,
                  Len(reducer[p].posted) \div BucketCount)
    BY <1>0, ForwardMoves, Zenon
  <2> QED
    BY <1>1, <2>1
<1>3. Base(n) = Len(reducer[p].posted) /\ n < MaxForwards /\ user'[p].round = n
  <2>1. /\ Assigned /\ LocalInv(reducer[p], user[p]) /\ Lined(reducer[p])
        /\ Tracked(p, reducer[p], user[p], used[p][user[p].round], grad[p])
    BY GradParts
  <2>2. Rounds(reducer[p], user[p])
    BY <2>1 DEF Tracked
  <2>3. PICK s : s = reducer[p]
    OBVIOUS
  <2>4. PICK u : u = user[p]
    OBVIOUS
  <2>5. PICK t : t = reducer'[p]
    OBVIOUS
  <2>6. PICK v : v = user'[p]
    OBVIOUS
  <2>7. /\ Assigned /\ LocalInv(s, u) /\ Lined(s) /\ Rounds(s, u)
        /\ DoForward(s, u, t, v, seen, n)
    BY <1>2, <2>1, <2>2, <2>3, <2>4, <2>5, <2>6
  <2>8. Base(n) = Len(s.posted) /\ n < MaxForwards /\ v.round = n
    BY <2>7, ForwardRounds
  <2> QED
    BY <2>3, <2>6, <2>8
<1>4. n \in 0 .. MaxForwards
  BY <1>3, ReducerAssumption
<1>5. /\ used' = [used EXCEPT ![p][n] = {}]
      /\ grad' = [grad EXCEPT ![p] = [x \in Params |-> {}]]
      /\ outcome' = outcome
  BY <1>1 DEF Forward, Zero
<1> QED
  BY <1>3, <1>4, <1>5

LEMMA HookUses ==
  ASSUME GradInv, NEW p \in Ranks, NEW x \in Params, Hook(p, x)
  PROVE  /\ used' = IF reducer[p].expect_autograd_hooks
                    THEN [used EXCEPT ![p][user[p].round] = @ \cup {x}]
                    ELSE used
         /\ grad' = [grad EXCEPT ![p][x] = Accumulated(p, x)]
         /\ outcome' = outcome
         /\ DoHook(reducer[p], user[p], reducer'[p], user'[p], x, Accumulated(p, x))
<1>1. /\ grad' = [grad EXCEPT ![p][x] = Accumulated(p, x)]
      /\ DoHook(reducer[p], user[p], reducer'[p], user'[p], x, Accumulated(p, x))
  BY GradParts, HookMoves
<1> QED
  BY <1>1 DEF Hook

Quiet(p) ==
  \/ \E x \in Params : MarkUnused(p, x)
  \/ \E hooks \in SUBSET Params : Backward(p, hooks)
  \/ FinalizeInPrepare(p) \/ FinalizeInBackward(p)
  \/ ForwardRaises(p) \/ FunctionThrows(p)
  \/ BackwardThrows(p) \/ BackwardReturns(p)

LEMMA QuietUses ==
  ASSUME NEW p, Quiet(p)
  PROVE  used' = used /\ outcome' = outcome
BY DEF Quiet, MarkUnused, Backward, FinalizeInPrepare, FinalizeInBackward,
   Finalize, ForwardRaises, FunctionThrows, BackwardThrows, BackwardReturns

LEMMA StepCases ==
  ASSUME NEW p, ProcessStep(p)
  PROVE  \/ \E seen \in SUBSET Params : Forward(p, seen)
         \/ \E x \in Params : Hook(p, x)
         \/ Quiet(p)
BY DEF ProcessStep, Quiet

LEMMA DoneLaunched ==
  ASSUME GradInv, NEW p \in Ranks, NEW n \in Nat, NEW x \in Params,
         Tag(n, x) \in outcome.done
  PROVE  /\ Base(n) < Len(reducer[p].posted)
         /\ First(reducer[p]) = Base(n) => BucketOf(x) < reducer[p].next_bucket
<1>1. reducer[p] \in ReducerType /\ Assigned
  BY GradParts
<1>2. PICK b \in Nat : b = BucketOf(x) /\ b >= 1
  BY <1>1, BucketOfType DEF Buckets
<1>3. PICK B \in Nat \ {0} : B = BucketCount
  BY <1>1 DEF Assigned
<1>4. PICK f \in Nat : f = Base(n)
  BY <1>3, BaseNext DEF Base
<1>5. PICK l \in Nat : l = Len(reducer[p].posted)
  BY <1>1 DEF ReducerType
<1>6. PICK m \in Nat : m = reducer[p].next_bucket
  BY <1>1, <1>3 DEF ReducerType
<1>7. f + b <= l
  BY <1>2, <1>4, <1>5 DEF GradInv, DonePosted, Tag
<1>8. ASSUME First(reducer[p]) = f
      PROVE  b < m
  <2>1. l + 1 - m = f
    BY <1>5, <1>6, <1>8 DEF First
  <2> QED
    BY <1>7, <2>1
<1> QED
  BY <1>2, <1>4, <1>5, <1>6, <1>7, <1>8

(* Nothing changes what was meant for a collective that is done: forward() *)
(* begins a later reduction, and a hook of this one would be outside use.  *)
LEMMA ForwardKeepsUsed ==
  ASSUME GradInv, NEW p \in Ranks, NEW seen \in SUBSET Params,
         Forward(p, seen), NEW n \in 0 .. MaxForwards, NEW x \in Params,
         Tag(n, x) \in outcome.done
  PROVE  Given(used', x[2], n) = Given(used, x[2], n)
<1>1. PICK m \in 0 .. MaxForwards :
        /\ Base(m) = Len(reducer[p].posted)
        /\ used' = [used EXCEPT ![p][m] = {}]
  BY ForwardUses
<1>2. n \in Nat
  BY ReducerAssumption
<1>3. BucketCount \in Nat \ {0}
  BY GradParts DEF Assigned
<1>4. Base(n) \in Nat
  BY <1>2, <1>3, BaseNext DEF Base
<1>5. Base(n) < Base(m)
  BY <1>1, <1>2, DoneLaunched
<1>6. m # n
  BY <1>4, <1>5
<1>7. used \in UsedType
  BY DEF GradInv
<1>8. ASSUME NEW q \in Ranks
      PROVE  used'[q][n] = used[q][n]
  BY <1>1, <1>6, <1>7 DEF UsedType
<1>9. \A q \in Ranks, r \in Replicas :
        <<r, x[2]>> \in used'[q][n] <=> <<r, x[2]>> \in used[q][n]
  BY <1>8
<1> QED
  BY <1>9, GivenSame

LEMMA HookKeepsUsed ==
  ASSUME GradInv, NEW p \in Ranks, NEW y \in Params, Hook(p, y),
         ~user'[p].strayed, NEW n \in 0 .. MaxForwards, NEW x \in Params,
         Tag(n, x) \in outcome.done
  PROVE  Given(used', x[2], n) = Given(used, x[2], n)
<1>1. PICK s : s = reducer[p]
  OBVIOUS
<1>2. PICK u : u = user[p]
  OBVIOUS
<1>3. PICK v : v = user'[p]
  OBVIOUS
<1>4. PICK U : U = used[p][u.round]
  OBVIOUS
<1>5. /\ Assigned /\ s \in ReducerType /\ u \in UserType
      /\ LocalInv(s, u) /\ Tracked(p, s, u, U, grad[p])
      /\ used \in UsedType /\ u.round \in 0 .. MaxForwards
  BY <1>1, <1>2, <1>4, GradParts DEF GradInv
<1>6. /\ used' = IF s.expect_autograd_hooks
                 THEN [used EXCEPT ![p][u.round] = @ \cup {y}] ELSE used
      /\ DoHook(s, u, reducer'[p], v, y, Accumulated(p, y))
  BY <1>1, <1>2, <1>3, HookUses
<1>7. CASE ~s.expect_autograd_hooks \/ u.round # n
  <2>1. ASSUME NEW q \in Ranks
        PROVE  used'[q][n] = used[q][n]
    BY <1>5, <1>6, <1>7 DEF UsedType
  <2>2. \A q \in Ranks, r \in Replicas :
          <<r, x[2]>> \in used'[q][n] <=> <<r, x[2]>> \in used[q][n]
    BY <2>1
  <2> QED
    BY <2>2, GivenSame
<1>8. CASE s.expect_autograd_hooks /\ u.round = n
  <2>1. /\ u.pc = "backward" /\ y \in u.due
        /\ HookedUser(s, u, reducer'[p], v, y)
    BY <1>5, <1>6, HookUser DEF DoHook
  <2>2. ~u.strayed /\ (find_unused_parameters => y \in u.seen)
    BY <1>3, <1>8, <2>1 DEF HookedUser
  <2>3. Exactly(s, Unmarked(u, U)) /\ u.due \cap U = {} /\ Counts(s)
        /\ First(s) = Base(n)
    BY <1>5, <1>8, <2>1, <2>2
       DEF Tracked, Data, Exact, Rounds, LocalInv, Flags
  <2>4. y \in Unmarked(u, U)
    BY <2>1, <2>2, <2>3 DEF Unmarked
  <2>5. BucketOf(x) < s.next_bucket
    <3>1. n \in Nat
      BY ReducerAssumption
    <3> QED
      BY <1>1, <2>3, <3>1, DoneLaunched
  <2>6. ~ (BucketOf(y) < s.next_bucket)
    BY <1>5, <2>3, <2>4, LaunchedNotHeld
  <2>7. y[2] # x[2]
    BY <2>5, <2>6 DEF BucketOf
  <2>8. ASSUME NEW q \in Ranks, NEW r \in Replicas
        PROVE  <<r, x[2]>> \in used'[q][n] <=> <<r, x[2]>> \in used[q][n]
    <3>1. <<r, x[2]>> # y
      BY <2>7
    <3>2. used' = [used EXCEPT ![p][n] = @ \cup {y}]
      BY <1>6, <1>8
    <3>3. used'[q][n] = IF q = p THEN used[q][n] \cup {y} ELSE used[q][n]
      BY <1>5, <3>2 DEF UsedType
    <3> QED
      BY <3>1, <3>3
  <2> QED
    BY <2>8, GivenSame
<1> QED
  BY <1>7, <1>8

LEMMA UsedKept ==
  ASSUME GradInv, NEW p \in Ranks, ProcessStep(p), ~user'[p].strayed,
         NEW n \in 0 .. MaxForwards, NEW x \in Params,
         Tag(n, x) \in outcome.done
  PROVE  Given(used', x[2], n) = Given(used, x[2], n)
BY StepCases, ForwardKeepsUsed, HookKeepsUsed, QuietUses

(* Of the process that takes a step. *)
LEMMA StepRounds ==
  ASSUME GradInv, ~Retry, NEW p \in Ranks, ProcessStep(p)
  PROVE  /\ Rounds(reducer'[p], user'[p]) /\ Listed(reducer'[p])
         /\ Past(reducer'[p]) /\ LocalInv(reducer'[p], user'[p])
         /\ LocalStep(reducer[p], user[p], reducer'[p], user'[p])
<1>1. PICK s : s = reducer[p]
  OBVIOUS
<1>2. PICK u : u = user[p]
  OBVIOUS
<1>3. PICK t : t = reducer'[p]
  OBVIOUS
<1>4. PICK v : v = user'[p]
  OBVIOUS
<1>5. LocalStep(s, u, t, v)
  <2>1. ReducerInv
    BY GradParts
  <2>2. Moves(p)
    BY <2>1, ProcessMoves
  <2> QED
    BY <1>1, <1>2, <1>3, <1>4, <2>2 DEF Moves
<1>6. /\ Assigned /\ LocalInv(s, u) /\ Lined(s) /\ Closed(s, u)
      /\ s \in ReducerType
  BY <1>1, <1>2, GradParts
<1>7. Rounds(s, u) /\ Listed(s) /\ Past(s)
  BY <1>1, <1>2, GradParts DEF Tracked
<1>8. LocalInv(t, v) /\ t \in ReducerType
  BY <1>5, <1>6, LocalStepInv DEF LocalInv
<1>9. Posting(s, t)
  BY <1>5, <1>6, StepPosts
<1>10. Rounds(t, v)
  BY <1>5, <1>6, <1>7, RoundsStep
<1>11. Listed(t)
  BY <1>6, <1>7, <1>8, <1>9, ListedStep
<1>12. Past(t)
  BY <1>5, <1>6, <1>7, PastStep
<1> QED
  BY <1>1, <1>2, <1>3, <1>4, <1>5, <1>8, <1>10, <1>11, <1>12

(* The histories and gradients of the others are not touched. *)
LEMMA OthersKept ==
  ASSUME GradInv, NEW p \in Ranks, ProcessStep(p)
  PROVE  /\ used' \in UsedType /\ outcome' = outcome
         /\ \A q \in Ranks : q # p => used'[q] = used[q] /\ grad'[q] = grad[q]
<1>0. ReducerInv
  BY GradParts
<1>1. used \in UsedType /\ grad \in [Ranks -> [Params -> SUBSET Contribution]]
  BY DEF GradInv, RunInv, ReducerInv, Types
<1>2. ASSUME NEW seen \in SUBSET Params, Forward(p, seen)
      PROVE  /\ used' \in UsedType /\ outcome' = outcome
             /\ \A q \in Ranks : q # p => used'[q] = used[q] /\ grad'[q] = grad[q]
  <2>1. PICK n \in 0 .. MaxForwards :
          /\ used' = [used EXCEPT ![p][n] = {}]
          /\ grad' = [grad EXCEPT ![p] = [x \in Params |-> {}]]
          /\ outcome' = outcome
    BY <1>2, ForwardUses
  <2> QED
    BY <1>1, <2>1 DEF UsedType
<1>3. ASSUME NEW x \in Params, Hook(p, x)
      PROVE  /\ used' \in UsedType /\ outcome' = outcome
             /\ \A q \in Ranks : q # p => used'[q] = used[q] /\ grad'[q] = grad[q]
  <2>1. PICK n \in 0 .. MaxForwards : n = user[p].round
    BY GradParts
  <2>2. PICK a : a = Accumulated(p, x)
    OBVIOUS
  <2>3. /\ used' = [used EXCEPT ![p][n] = @ \cup {x}] \/ used' = used
        /\ grad' = [grad EXCEPT ![p][x] = a]
        /\ outcome' = outcome
    BY <1>3, <2>1, <2>2, HookUses
  <2>4. \A q \in Ranks : q # p => grad'[q] = grad[q]
    BY <1>1, <2>3
  <2>5. used' \in UsedType /\ \A q \in Ranks : q # p => used'[q] = used[q]
    <3>1. CASE used' = used
      BY <1>1, <3>1
    <3>2. CASE used' = [used EXCEPT ![p][n] = @ \cup {x}]
      <4>1. PICK c \in SUBSET Params : c = used[p][n] \cup {x}
        BY <1>1 DEF UsedType
      <4>2. used' = [used EXCEPT ![p][n] = c]
        BY <1>1, <3>2, <4>1 DEF UsedType
      <4> QED
        BY <1>1, <4>2 DEF UsedType
    <3> QED
      BY <2>3, <3>1, <3>2
  <2> QED
    BY <2>3, <2>4, <2>5
<1>4. ASSUME Quiet(p)
      PROVE  \A q \in Ranks : q # p => grad'[q] = grad[q]
  <2>1. ASSUME FinalizeInPrepare(p) \/ FinalizeInBackward(p)
        PROVE  grad' = [grad EXCEPT ![p] = CopiedBack(reducer[p], grad[p])]
    BY <2>1, <1>0, FinalizeMoves
  <2>2. ASSUME ~ (FinalizeInPrepare(p) \/ FinalizeInBackward(p))
        PROVE  grad' = grad
    BY <1>4, <2>2 DEF Quiet, MarkUnused, Backward, ForwardRaises,
       FunctionThrows, BackwardThrows, BackwardReturns
  <2> QED
    BY <1>1, <2>1, <2>2
<1> QED
  BY <1>1, <1>2, <1>3, <1>4, StepCases, QuietUses

LEMMA RoundKept ==
  ASSUME NEW s, NEW u \in UserType, NEW t, NEW v, LocalInv(s, u),
         \/ \E x \in Params, value \in SUBSET Contribution :
              DoMark(s, u, t, v, x, value) \/ DoHook(s, u, t, v, x, value)
         \/ \E hooks \in SUBSET Params : DoBackward(s, u, t, v, hooks)
         \/ DoRaise(s, u, t, v) \/ DoFinalize(s, u, t, v)
         \/ DoThrow(s, u, t, v) \/ DoThrown(s, u, t, v) \/ DoReturn(s, u, t, v)
  PROVE  v.round = u.round
<1>1. ASSUME NEW x \in Params, NEW value, DoMark(s, u, t, v, x, value)
      PROVE  v.round = u.round
  BY <1>1 DEF DoMark, UserType
<1>2. ASSUME NEW x \in Params, NEW value, DoHook(s, u, t, v, x, value)
      PROVE  v.round = u.round
  BY <1>2 DEF DoHook, UserType
<1>3. ASSUME NEW hooks, DoBackward(s, u, t, v, hooks)
      PROVE  v.round = u.round
  BY <1>3 DEF DoBackward, UserType
<1>4. ASSUME \/ DoRaise(s, u, t, v) \/ DoThrow(s, u, t, v)
             \/ DoThrown(s, u, t, v) \/ DoReturn(s, u, t, v)
      PROVE  v.round = u.round
  BY <1>4 DEF DoRaise, DoThrow, DoThrown, DoReturn, UserType
<1>5. ASSUME DoFinalize(s, u, t, v)
      PROVE  v.round = u.round
  <2>1. PICK pc : v = [u EXCEPT !.pc = pc]
    BY <1>5 DEF DoFinalize
  <2> QED
    BY <2>1 DEF UserType
<1> QED
  BY <1>1, <1>2, <1>3, <1>4, <1>5

LEMMA StepData ==
  ASSUME GradInv, ~Retry, Passes = 1, NEW p \in Ranks, ProcessStep(p)
  PROVE  Data(p, reducer'[p], user'[p], used'[p][user'[p].round], grad'[p])
<1>1. PICK s : s = reducer[p]
  OBVIOUS
<1>2. PICK u : u = user[p]
  OBVIOUS
<1>3. PICK t : t = reducer'[p]
  OBVIOUS
<1>4. PICK v : v = user'[p]
  OBVIOUS
<1>5. PICK U : U = used[p][u.round]
  OBVIOUS
<1>6. PICK g : g = grad[p]
  OBVIOUS
<1>7. /\ ReducerInv /\ Assigned /\ LocalInv(s, u) /\ PassInv(s, u)
      /\ u \in UserType /\ u.round \in 0 .. MaxForwards
      /\ g \in [Params -> SUBSET Contribution]
  BY <1>1, <1>2, <1>6, GradParts
<1>8. Data(p, s, u, U, g)
  BY <1>1, <1>2, <1>5, <1>6, GradParts DEF Tracked
<1>9. used \in UsedType /\ grad \in [Ranks -> [Params -> SUBSET Contribution]]
  BY DEF GradInv, RunInv, ReducerInv, Types
<1> DEFINE Goal == Data(p, t, v, used'[p][v.round], grad'[p])
<1>10. ASSUME NEW seen \in SUBSET Params, Forward(p, seen)
       PROVE  Goal
  <2>1. PICK n \in 0 .. MaxForwards :
          /\ v.round = n
          /\ used' = [used EXCEPT ![p][n] = {}]
          /\ grad' = [grad EXCEPT ![p] = [x \in Params |-> {}]]
    BY <1>4, <1>10, ForwardUses
  <2>2. used'[p][n] = {} /\ grad'[p] = [x \in Params |-> {}]
    BY <1>9, <2>1 DEF UsedType
  <2>3. PICK m \in Nat : m = Len(reducer[p].posted) \div BucketCount
    BY GradParts, RoundIsNat
  <2>4. DoForward(reducer[p], user[p], reducer'[p], user'[p], seen,
                  Len(reducer[p].posted) \div BucketCount)
    BY <1>7, <1>10, ForwardMoves, Zenon
  <2>5. DoForward(s, u, t, v, seen, m)
    BY <1>1, <1>2, <1>3, <1>4, <2>3, <2>4
  <2>6. Data(p, t, v, {}, [x \in Params |-> {}])
    BY <1>7, <2>5, ForwardData
  <2> QED
    BY <2>1, <2>2, <2>6
<1>11. ASSUME NEW x \in Params, Hook(p, x)
       PROVE  Goal
  <2>1. PICK value : value = Accumulated(p, x)
    OBVIOUS
  <2>2. value = g[x] \cup {<<p, x[1], u.round>>}
    BY <1>2, <1>6, <2>1 DEF Accumulated
  <2>3. value \in SUBSET Contribution
    BY <1>7, <1>11, <2>1, HookMoves
  <2>4. /\ used' = IF s.expect_autograd_hooks
                   THEN [used EXCEPT ![p][u.round] = @ \cup {x}] ELSE used
        /\ grad' = [grad EXCEPT ![p][x] = value]
        /\ DoHook(s, u, t, v, x, value)
    BY <1>1, <1>2, <1>3, <1>4, <1>11, <2>1, HookUses
  <2>5. v.round = u.round
    BY <1>7, <2>3, <2>4, RoundKept
  <2>6. used'[p][v.round] = IF s.expect_autograd_hooks THEN U \cup {x} ELSE U
    BY <1>5, <1>7, <1>9, <2>4, <2>5 DEF UsedType
  <2>7. grad'[p] = [g EXCEPT ![x] = value]
    BY <1>6, <1>9, <2>4
  <2>8. Data(p, t, v, IF s.expect_autograd_hooks THEN U \cup {x} ELSE U,
             [g EXCEPT ![x] = value])
    BY <1>7, <1>8, <2>2, <2>3, <2>4, HookData
  <2> QED
    BY <2>6, <2>7, <2>8
<1>12. ASSUME Quiet(p)
       PROVE  Goal
  <2>1. used' = used
    BY <1>12, QuietUses
  <2>2. ASSUME NEW x \in Params, MarkUnused(p, x)
        PROVE  Goal
    <3>1. DoMark(s, u, t, v, x, g[x]) /\ g[x] \in SUBSET Contribution
      BY <1>1, <1>2, <1>3, <1>4, <1>6, <1>7, <2>2, MarkMoves
    <3>2. v.round = u.round
      BY <1>7, <3>1, RoundKept
    <3>3. Data(p, t, v, U, g)
      BY <1>7, <1>8, <3>1, MarkData
    <3>4. grad' = grad
      BY <2>2 DEF MarkUnused
    <3> QED
      BY <1>5, <1>6, <2>1, <3>2, <3>3, <3>4
  <2>3. ASSUME FinalizeInPrepare(p) \/ FinalizeInBackward(p)
        PROVE  Goal
    <3>1. DoFinalize(s, u, t, v)
      BY <1>1, <1>2, <1>3, <1>4, <1>7, <2>3, FinalizeMoves
    <3>2. v.round = u.round
      BY <1>7, <3>1, RoundKept
    <3>3. PICK h : h = grad'[p]
      OBVIOUS
    <3>4. Data(p, t, v, U, h)
      BY <1>7, <1>8, <3>1, FinalizeData
    <3> QED
      BY <1>5, <2>1, <3>2, <3>3, <3>4
  <2>4. ASSUME NEW hooks \in SUBSET Params, Backward(p, hooks)
        PROVE  Goal
    <3>1. DoBackward(s, u, t, v, hooks)
      BY <1>1, <1>2, <1>3, <1>4, <1>7, <2>4, BackwardMoves
    <3>2. v.round = u.round
      BY <1>7, <3>1, RoundKept
    <3>3. Data(p, t, v, U, g)
      BY <1>7, <1>8, <3>1, OtherData
    <3>4. grad' = grad
      BY <2>4 DEF Backward
    <3> QED
      BY <1>5, <1>6, <2>1, <3>2, <3>3, <3>4
  <2>5. ASSUME \/ ForwardRaises(p) \/ FunctionThrows(p) \/ BackwardThrows(p)
               \/ BackwardReturns(p)
        PROVE  Goal
    <3>1. \/ DoRaise(s, u, t, v) \/ DoThrow(s, u, t, v)
          \/ DoThrown(s, u, t, v) \/ DoReturn(s, u, t, v)
      BY <1>1, <1>2, <1>3, <1>4, <1>7, <2>5, OtherMoves
    <3>2. v.round = u.round
      BY <1>7, <3>1, RoundKept
    <3>3. Data(p, t, v, U, g)
      BY <1>7, <1>8, <3>1, OtherData
    <3>4. grad' = grad
      BY <2>5 DEF ForwardRaises, FunctionThrows, BackwardThrows, BackwardReturns
    <3> QED
      BY <1>5, <1>6, <2>1, <3>2, <3>3, <3>4
  <2> QED
    BY <1>12, <2>2, <2>3, <2>4, <2>5 DEF Quiet
<1> HIDE DEF Goal
<1>13. Goal
  BY <1>10, <1>11, <1>12, StepCases
<1> QED
  BY <1>3, <1>4, <1>13 DEF Goal

(* The buckets launched are not written to until the next forward(). *)
StepOn(s, u, t, v) ==
  \/ \E x \in Params, value \in SUBSET Contribution :
       DoMark(s, u, t, v, x, value) \/ DoHook(s, u, t, v, x, value)
  \/ \E hooks \in SUBSET Params : DoBackward(s, u, t, v, hooks)
  \/ DoRaise(s, u, t, v) \/ DoFinalize(s, u, t, v)
  \/ DoThrow(s, u, t, v) \/ DoThrown(s, u, t, v) \/ DoReturn(s, u, t, v)

ContentsKept(s, t) ==
  /\ \A x \in Params : BucketOf(x) < s.next_bucket =>
       t.contents[x] = s.contents[x]
  /\ ~s.expect_autograd_hooks => t.next_bucket = s.next_bucket

LEMMA LaunchedKept ==
  ASSUME Assigned, NEW s, NEW u, NEW t, NEW v, LocalInv(s, u),
         StepOn(s, u, t, v)
  PROVE  ContentsKept(s, t)
<1>1. s \in ReducerType /\ u \in UserType /\ Flags(s, u) /\ Stages(s, u)
  BY DEF LocalInv
<1>2. ASSUME NEW x \in Params, NEW value, s.expect_autograd_hooks, Counts(s),
             s.pending[BucketOf(x)][x[1]] > 0,
             t.contents = [s.contents EXCEPT ![x] = value]
      PROVE  ContentsKept(s, t)
  <2>1. ASSUME NEW y \in Params, BucketOf(y) < s.next_bucket
        PROVE  t.contents[y] = s.contents[y]
    <3>1. y # x
      <4>1. ASSUME y = x
            PROVE  FALSE
        <5>1. s.pending[BucketOf(x)][x[1]] = 0
          BY <1>1, <1>2, <2>1, <4>1, BucketOfType, LaunchedWaitForNothing
        <5> QED
          BY <1>2, <5>1
      <4> QED
        BY <4>1
    <3>2. s.contents \in [Params -> SUBSET Contribution]
      BY <1>1 DEF ReducerType
    <3> QED
      BY <1>2, <3>1, <3>2
  <2> QED
    BY <1>2, <2>1 DEF ContentsKept
<1>3. ASSUME t.contents = s.contents, t.next_bucket = s.next_bucket
      PROVE  ContentsKept(s, t)
  BY <1>3 DEF ContentsKept
<1>4. ASSUME NEW x \in Params, NEW value \in SUBSET Contribution,
             DoMark(s, u, t, v, x, value)
      PROVE  ContentsKept(s, t)
  <2>1. Counts(s) /\ s.expect_autograd_hooks /\ t = CopyAndCount(s, x, value)
    BY <1>1, <1>4 DEF Flags, Stages, DoMark
  <2>2. CountedDown(s, t, x, value) \/ Repeated(s, t, x)
    BY <1>1, <2>1, CopyAndCountCounts
  <2>3. CASE CountedDown(s, t, x, value)
    BY <1>2, <2>1, <2>3 DEF CountedDown
  <2>4. CASE Repeated(s, t, x)
    BY <1>3, <2>4 DEF Repeated
  <2> QED
    BY <2>2, <2>3, <2>4
<1>5. ASSUME NEW x \in Params, NEW value \in SUBSET Contribution,
             DoHook(s, u, t, v, x, value)
      PROVE  ContentsKept(s, t)
  <2>1. t = MarkFromAutograd(s, x, value)
    BY <1>5 DEF DoHook
  <2>2. CASE ~s.expect_autograd_hooks
    BY <1>3, <2>1, <2>2 DEF MarkFromAutograd
  <2>3. CASE s.expect_autograd_hooks
    <3>1. Counts(s)
      BY <1>1, <2>3 DEF Flags
    <3>2. Repeated(s, t, x) \/ Counted(s, t, x, value)
      BY <1>1, <2>1, <2>3, <3>1, HookCounts
    <3>3. CASE Counted(s, t, x, value)
      BY <1>2, <2>3, <3>1, <3>3 DEF Counted
    <3>4. CASE Repeated(s, t, x)
      BY <1>3, <3>4 DEF Repeated
    <3> QED
      BY <3>2, <3>3, <3>4
  <2> QED
    BY <2>2, <2>3
<1>6. ASSUME DoFinalize(s, u, t, v)
      PROVE  ContentsKept(s, t)
  <2>1. t = [s EXCEPT !.expect_autograd_hooks = FALSE,
                      !.require_finalize = FALSE, !.callbacks = 0]
    BY <1>6, FinalizeAssertsHold
  <2>2. t.contents = s.contents /\ t.next_bucket = s.next_bucket
    BY <1>1, <2>1 DEF ReducerType
  <2> QED
    BY <1>3, <2>2
<1>7. ASSUME \/ \E hooks \in SUBSET Params : DoBackward(s, u, t, v, hooks)
             \/ DoRaise(s, u, t, v) \/ DoThrow(s, u, t, v)
             \/ DoThrown(s, u, t, v) \/ DoReturn(s, u, t, v)
      PROVE  ContentsKept(s, t)
  <2>1. t.contents = s.contents /\ t.next_bucket = s.next_bucket
    BY <1>1, <1>7
       DEF DoBackward, DoRaise, DoThrow, DoThrown, DoReturn, ReducerType
  <2> QED
    BY <1>3, <2>1
<1> QED
  BY <1>4, <1>5, <1>6, <1>7 DEF StepOn

(* A process that has strayed stays so. *)
LEMMA StrayedStays ==
  ASSUME NEW s, NEW u, NEW t, NEW v, LocalInv(s, u), LocalStep(s, u, t, v),
         ~v.strayed
  PROVE  ~u.strayed
<1>1. u \in UserType
  BY DEF LocalInv
<1>2. ASSUME NEW seen \in SUBSET Params, NEW n \in Nat,
             DoForward(s, u, t, v, seen, n)
      PROVE  v.strayed = u.strayed
  BY <1>1, <1>2 DEF DoForward, UserType
<1>3. ASSUME NEW x \in Params, NEW value, DoMark(s, u, t, v, x, value)
      PROVE  v.strayed = u.strayed
  BY <1>1, <1>3 DEF DoMark, UserType
<1>4. ASSUME NEW x \in Params, NEW value, DoHook(s, u, t, v, x, value)
      PROVE  ~u.strayed
  <2>1. HookedUser(s, u, t, v, x)
    BY <1>1, <1>4, HookUser
  <2> QED
    BY <2>1 DEF HookedUser
<1>5. ASSUME NEW hooks, DoBackward(s, u, t, v, hooks)
      PROVE  v.strayed = u.strayed
  BY <1>1, <1>5 DEF DoBackward, UserType
<1>6. ASSUME \/ DoRaise(s, u, t, v) \/ DoThrow(s, u, t, v)
             \/ DoThrown(s, u, t, v) \/ DoReturn(s, u, t, v)
      PROVE  v.strayed = u.strayed
  BY <1>1, <1>6 DEF DoRaise, DoThrow, DoThrown, DoReturn, UserType
<1>7. ASSUME DoFinalize(s, u, t, v)
      PROVE  v.strayed = u.strayed
  <2>1. PICK pc : v = [u EXCEPT !.pc = pc]
    BY <1>7 DEF DoFinalize
  <2> QED
    BY <1>1, <2>1 DEF UserType
<1> QED
  BY <1>2, <1>3, <1>4, <1>5, <1>6, <1>7 DEF LocalStep

(* Only the finalizer leads to the state reduced. *)
LEMMA OnlyFinalize ==
  ASSUME NEW s, NEW u, NEW t, NEW v, LocalInv(s, u), LocalStep(s, u, t, v),
         v.pc = "reduced"
  PROVE  DoFinalize(s, u, t, v) /\ FirstFailed(s) > BucketCount
<1>1. u \in UserType
  BY DEF LocalInv
<1>2. ASSUME NEW seen \in SUBSET Params, NEW n \in Nat,
             DoForward(s, u, t, v, seen, n)
      PROVE  FALSE
  BY <1>1, <1>2 DEF DoForward, UserType
<1>3. ASSUME NEW x \in Params, NEW value, DoMark(s, u, t, v, x, value)
      PROVE  FALSE
  BY <1>1, <1>3 DEF DoMark, UserType
<1>4. ASSUME NEW x \in Params, NEW value, DoHook(s, u, t, v, x, value)
      PROVE  FALSE
  BY <1>1, <1>4 DEF DoHook, UserType
<1>5. ASSUME NEW hooks, DoBackward(s, u, t, v, hooks)
      PROVE  FALSE
  BY <1>1, <1>5 DEF DoBackward, UserType
<1>6. ASSUME \/ DoRaise(s, u, t, v) \/ DoThrow(s, u, t, v)
             \/ DoThrown(s, u, t, v) \/ DoReturn(s, u, t, v)
      PROVE  FALSE
  <2>1. CASE DoRaise(s, u, t, v)
    BY <1>1, <2>1 DEF DoRaise, UserType
  <2>2. CASE DoThrow(s, u, t, v)
    BY <1>1, <2>2 DEF DoThrow, UserType
  <2>3. CASE DoThrown(s, u, t, v)
    BY <1>1, <2>3 DEF DoThrown, UserType
  <2>4. CASE DoReturn(s, u, t, v)
    BY <1>1, <2>4 DEF DoReturn, UserType
  <2> QED
    BY <1>6, <2>1, <2>2, <2>3, <2>4
<1>7. ASSUME DoFinalize(s, u, t, v)
      PROVE  FirstFailed(s) > BucketCount
  <2>1. PICK pc : pc = IF FirstFailed(s) > BucketCount THEN "reduced"
                       ELSE IF Retry THEN "idle" ELSE "raised"
    OBVIOUS
  <2>2. v = [u EXCEPT !.pc = pc]
    BY <1>7, <2>1, Zenon DEF DoFinalize
  <2>3. pc = "reduced"
    BY <1>1, <2>2 DEF UserType
  <2> QED
    BY <2>1, <2>3
<1> QED
  BY <1>2, <1>3, <1>4, <1>5, <1>6, <1>7 DEF LocalStep

LEMMA StepSummed ==
  ASSUME GradInv, ~Retry, NEW p \in Ranks, ProcessStep(p), ~user'[p].strayed,
         Summed(reducer[p], user[p], used)
  PROVE  Summed(reducer'[p], user'[p], used')
<1>1. PICK s : s = reducer[p]
  OBVIOUS
<1>2. PICK u : u = user[p]
  OBVIOUS
<1>3. PICK t : t = reducer'[p]
  OBVIOUS
<1>4. PICK v : v = user'[p]
  OBVIOUS
<1>5. LocalStep(s, u, t, v)
  BY <1>1, <1>2, <1>3, <1>4, StepRounds
<1>6. /\ Assigned /\ LocalInv(s, u) /\ s \in ReducerType /\ u \in UserType
      /\ u.round \in 0 .. MaxForwards /\ u.round \in Nat
  BY <1>1, <1>2, GradParts DEF UserType
<1>7. ASSUME NEW seen \in SUBSET Params, NEW n \in Nat,
             DoForward(s, u, t, v, seen, n)
      PROVE  Summed(t, v, used')
  <2>1. t.next_bucket = 1
    <3>1. t = ResetAccounting(s)
      BY <1>7 DEF DoForward
    <3> QED
      BY <1>6, <3>1, ResetCounts
  <2>2. \A x \in Params : ~ (BucketOf(x) < 1)
    BY <1>6, BucketOfType DEF Buckets
  <2> QED
    BY <2>1, <2>2 DEF Summed
<1>8. ASSUME StepOn(s, u, t, v)
      PROVE  Summed(t, v, used')
  <2>1. ContentsKept(s, t)
    BY <1>6, <1>8, LaunchedKept
  <2>2. v.round = u.round
    BY <1>6, <1>8, RoundKept DEF StepOn
  <2>3. SUFFICES ASSUME NEW x \in Params, BucketOf(x) < t.next_bucket,
                        Tag(u.round, x) \in outcome.done
                 PROVE  t.contents[x] = Given(used', x[2], u.round)
    BY <2>2 DEF Summed
  <2>4. BucketOf(x) < s.next_bucket
    <3>1. CASE s.expect_autograd_hooks
      <4>1. First(s) = Base(u.round)
        BY <1>1, <1>2, <3>1, GradParts DEF Tracked, Rounds
      <4> QED
        BY <1>1, <1>6, <2>3, <4>1, DoneLaunched
    <3>2. CASE ~s.expect_autograd_hooks
      BY <2>1, <2>3, <3>2 DEF ContentsKept
    <3> QED
      BY <3>1, <3>2
  <2>5. t.contents[x] = s.contents[x]
    BY <2>1, <2>4 DEF ContentsKept
  <2>6. s.contents[x] = Given(used, x[2], u.round)
    BY <1>1, <1>2, <2>3, <2>4 DEF Summed
  <2>7. Given(used', x[2], u.round) = Given(used, x[2], u.round)
    BY <1>6, <2>3, UsedKept
  <2> QED
    BY <2>5, <2>6, <2>7
<1> QED
  BY <1>3, <1>4, <1>5, <1>7, <1>8 DEF LocalStep, StepOn

(* A finalizer that has met no failure copies back collectives all done. *)
LEMMA FinalizeDone ==
  ASSUME GradInv, NEW p \in Ranks, NEW t, NEW v,
         DoFinalize(reducer[p], user[p], t, v),
         FirstFailed(reducer[p]) > BucketCount, NEW x \in Params
  PROVE  /\ Tag(user[p].round, x) \in outcome.done
         /\ BucketOf(x) < reducer[p].next_bucket
         /\ BucketOf(x) < FirstFailed(reducer[p])
<1>1. PICK s : s = reducer[p]
  OBVIOUS
<1>2. PICK u : u = user[p]
  OBVIOUS
<1>3. /\ Assigned /\ LocalInv(s, u) /\ s \in ReducerType /\ Lined(s)
      /\ Rounds(s, u) /\ outcome \in OutcomeType
  BY <1>1, <1>2, GradParts DEF Tracked, GradInv, RunInv
<1>4. DoFinalize(s, u, t, v) /\ FirstFailed(s) > BucketCount
  BY <1>1, <1>2
<1>5. FinalizeAsserts(s) /\ s.next_bucket = BucketCount + 1
  BY <1>3, <1>4, FinalizeAssertsHold
<1>6. PICK B \in Nat : B = BucketCount
  BY <1>3 DEF Assigned
<1>7. PICK b \in Buckets : b = BucketOf(x)
  BY <1>3, BucketOfType
<1>8. b \in Nat /\ b <= B
  BY <1>6 DEF Buckets
<1>9. FirstFailed(s) \in Nat
  <2> DEFINE S == {c \in Buckets : Failed(s, c)} \cup {BucketCount + 1}
  <2>1. S \in SUBSET Nat /\ S # {}
    BY <1>6 DEF Buckets
  <2>2. \E m \in S : \A k \in S : m <= k
    BY <2>1, MinExists
  <2>3. Min(S) \in S
    BY <2>2, Zenon DEF Min
  <2> QED
    BY <2>1, <2>3 DEF FirstFailed
<1>10. b < s.next_bucket /\ b < FirstFailed(s)
  BY <1>4, <1>5, <1>6, <1>8, <1>9
<1>11. ~Failed(s, b)
  BY <1>3, <1>4, NoneFailed
<1>12. ~Open(s.work[b])
  <2>1. b <= FirstFailed(s)
    BY <1>8, <1>9, <1>10
  <2> QED
    BY <1>4, <1>11, <2>1 DEF DoFinalize, FinalizeEnabled, Ended
<1>13. s.work[b] \in outcome.done
  BY <1>5, <1>11, <1>12 DEF Failed, Open
<1>14. s.work[b] = First(s) + b
  BY <1>3, <1>10 DEF Lined, Tags
<1>15. First(s) = Base(u.round)
  BY <1>3, <1>5 DEF Rounds, FinalizeAsserts
<1> QED
  BY <1>1, <1>2, <1>7, <1>10, <1>13, <1>14, <1>15 DEF Tag

LEMMA StepAveraged ==
  ASSUME GradInv, ~Retry, NEW p \in Ranks, ProcessStep(p), ~user'[p].strayed,
         Summed(reducer[p], user[p], used)
  PROVE  Averaged(user'[p], grad'[p], used')
<1> SUFFICES ASSUME user'[p].pc = "reduced", NEW x \in Params
             PROVE  /\ Tag(user'[p].round, x) \in outcome.done
                    /\ grad'[p][x] = Given(used', x[2], user'[p].round)
  BY DEF Averaged
<1>1. PICK s : s = reducer[p]
  OBVIOUS
<1>2. PICK u : u = user[p]
  OBVIOUS
<1>3. PICK t : t = reducer'[p]
  OBVIOUS
<1>4. PICK v : v = user'[p]
  OBVIOUS
<1>5. LocalStep(s, u, t, v) /\ v.pc = "reduced"
  BY <1>1, <1>2, <1>3, <1>4, StepRounds
<1>6. /\ Assigned /\ ReducerInv /\ LocalInv(s, u) /\ s \in ReducerType
      /\ u \in UserType /\ u.round \in 0 .. MaxForwards
  BY <1>1, <1>2, GradParts
<1>7. DoFinalize(s, u, t, v) /\ FirstFailed(s) > BucketCount
  BY <1>5, <1>6, OnlyFinalize
<1>8. /\ Tag(u.round, x) \in outcome.done /\ BucketOf(x) < s.next_bucket
      /\ BucketOf(x) < FirstFailed(s)
  BY <1>1, <1>2, <1>7, FinalizeDone
<1>9. v.round = u.round
  BY <1>6, <1>7, RoundKept
<1>10. grad'[p][x] = s.contents[x]
  <2>1. u.pc = "preparing" \/ u.pc = "backward"
    BY <1>7 DEF DoFinalize, Done
  <2>2. FinalizeInPrepare(p) \/ FinalizeInBackward(p)
    <3>1. ASSUME ~ (FinalizeInPrepare(p) \/ FinalizeInBackward(p))
          PROVE  FALSE
      <4>1. /\ \A seen \in SUBSET Params : ~Forward(p, seen)
            /\ ~ForwardRaises(p)
            /\ \A hooks \in SUBSET Params : ~Backward(p, hooks)
        BY <1>2, <2>1 DEF Forward, ForwardRaises, Backward
      <4>2. \/ \E y \in Params : MarkUnused(p, y) \/ Hook(p, y)
            \/ FunctionThrows(p) \/ BackwardThrows(p) \/ BackwardReturns(p)
        BY <3>1, <4>1 DEF ProcessStep
      <4>3. ASSUME NEW y \in Params, MarkUnused(p, y)
            PROVE  FALSE
        BY <1>2, <2>1, <4>3 DEF MarkUnused
      <4>4. ASSUME NEW y \in Params, Hook(p, y)
            PROVE  FALSE
        <5>1. DoHook(s, u, t, v, y, Accumulated(p, y))
          BY <1>1, <1>2, <1>3, <1>4, <4>4, HookUses
        <5>2. HookedUser(s, u, t, v, y)
          BY <1>6, <5>1, HookUser
        <5> QED
          BY <1>5, <5>1, <5>2 DEF HookedUser, DoHook
      <4>5. ASSUME \/ FunctionThrows(p) \/ BackwardThrows(p)
                   \/ BackwardReturns(p)
            PROVE  FALSE
        <5>1. \/ DoRaise(s, u, t, v) \/ DoThrow(s, u, t, v)
              \/ DoThrown(s, u, t, v) \/ DoReturn(s, u, t, v)
          BY <1>1, <1>2, <1>3, <1>4, <1>6, <4>5, OtherMoves
        <5>2. v.pc # "reduced"
          <6>1. CASE DoRaise(s, u, t, v)
            BY <1>6, <6>1 DEF DoRaise, UserType
          <6>2. CASE DoThrow(s, u, t, v)
            BY <1>6, <6>2 DEF DoThrow, UserType
          <6>3. CASE DoThrown(s, u, t, v)
            BY <1>6, <6>3 DEF DoThrown, UserType
          <6>4. CASE DoReturn(s, u, t, v)
            BY <1>6, <6>4 DEF DoReturn, UserType
          <6> QED
            BY <5>1, <6>1, <6>2, <6>3, <6>4
        <5> QED
          BY <1>5, <5>2
      <4> QED
        BY <4>2, <4>3, <4>4, <4>5
    <3> QED
      BY <3>1
  <2>3. grad' = [grad EXCEPT ![p] = CopiedBack(s, grad[p])]
    BY <1>1, <1>6, <2>2, FinalizeMoves
  <2>4. grad'[p] = CopiedBack(s, grad[p])
    BY <1>6, <2>3 DEF ReducerInv, Types
  <2> QED
    BY <1>8, <2>4 DEF CopiedBack
<1>11. s.contents[x] = Given(used, x[2], u.round)
  BY <1>1, <1>2, <1>8 DEF Summed
<1>12. Given(used', x[2], u.round) = Given(used, x[2], u.round)
  BY <1>6, <1>8, UsedKept
<1> QED
  BY <1>4, <1>8, <1>9, <1>10, <1>11, <1>12

-----------------------------------------------------------------------------
(***************************************************************************)
(* A collective.                                                           *)
(***************************************************************************)

(* A tag under way that q has posted is one of the reduction q is in. *)
LEMMA TagPlace ==
  ASSUME GradInv, NEW q \in Ranks, NEW k \in Nat \ {0}, Open(k), Posted(q, k)
  PROVE  /\ BucketAt(q, k) \in Buckets
         /\ BucketAt(q, k) < reducer[q].next_bucket
         /\ k = First(reducer[q]) + BucketAt(q, k)
         /\ First(reducer[q]) = Base(user[q].round)
<1>1. PICK s \in ReducerType : s = reducer[q]
  BY GradParts
<1>2. Assigned /\ Lined(s) /\ Rounds(s, user[q]) /\ Listed(s) /\ Past(s)
  <2>1. /\ Assigned /\ Lined(reducer[q])
        /\ Tracked(q, reducer[q], user[q], used[q][user[q].round], grad[q])
    BY GradParts
  <2>2. Rounds(reducer[q], user[q]) /\ Listed(reducer[q]) /\ Past(reducer[q])
    BY <2>1 DEF Tracked
  <2> QED
    BY <1>1, <2>1, <2>2
<1>3. PICK B \in Nat \ {0} : B = BucketCount
  BY <1>2 DEF Assigned
<1>4. PICK m \in Nat : m = s.next_bucket /\ m >= 1 /\ m <= B + 1
  BY <1>3 DEF ReducerType
<1>5. PICK l \in Nat : l = Len(s.posted) /\ k <= l
  <2>1. PICK l \in Nat : l = Len(s.posted)
    BY DEF ReducerType
  <2>2. k <= l
    BY <1>1, <2>1 DEF Posted
  <2> QED
    BY <2>1, <2>2
<1>6. PICK f \in Nat : f = First(s) /\ f = l + 1 - m
  <2>1. First(s) = l + 1 - m
    BY <1>4, <1>5 DEF First
  <2> QED
    BY <1>2, <2>1 DEF Lined
<1>7. k > f
  <2>1. k \notin 1 .. f
    BY <1>2, <1>6 DEF Past
  <2> QED
    BY <2>1
<1>8. PICK c \in Nat : c = k - f
  BY <1>7
<1>9. c >= 1 /\ c < m /\ c <= B /\ k = f + c
  <2>1. k = f + c /\ c >= 1
    BY <1>7, <1>8
  <2>2. c < m
    <3>1. f + c <= l /\ f + m = l + 1
      BY <1>5, <1>6, <2>1
    <3> QED
      BY <3>1
  <2> QED
    BY <1>4, <2>1, <2>2
<1>10. c \in Buckets /\ c < s.next_bucket
  BY <1>3, <1>4, <1>9 DEF Buckets
<1>11. s.posted[k] = c
  BY <1>2, <1>6, <1>9, <1>10 DEF Listed
<1>12. BucketAt(q, k) = c
  BY <1>1, <1>11 DEF BucketAt
<1>13. First(s) = Base(user[q].round)
  BY <1>2, <1>4, <1>9 DEF Rounds
<1> QED
  BY <1>1, <1>6, <1>9, <1>10, <1>12, <1>13

(* All processes that have posted it are in the same reduction. *)
LEMMA SameRound ==
  ASSUME GradInv, NEW k \in Nat \ {0}, Open(k),
         NEW p \in Ranks, Posted(p, k), NEW q \in Ranks, Posted(q, k)
  PROVE  /\ user[p].round = user[q].round
         /\ BucketAt(p, k) = BucketAt(q, k)
<1>1. PICK B \in Nat \ {0} : B = BucketCount
  BY GradParts DEF Assigned
<1>2. PICK m \in Nat : m = user[p].round
  BY GradParts DEF UserType
<1>3. PICK n \in Nat : n = user[q].round
  BY GradParts DEF UserType
<1>4. PICK c \in 1 .. B : c = BucketAt(p, k)
  BY <1>1, TagPlace DEF Buckets
<1>5. PICK d \in 1 .. B : d = BucketAt(q, k)
  BY <1>1, TagPlace DEF Buckets
<1>6. k = First(reducer[p]) + c /\ First(reducer[p]) = Base(m)
  BY <1>2, <1>4, TagPlace
<1>7. k = First(reducer[q]) + d /\ First(reducer[q]) = Base(n)
  BY <1>3, <1>5, TagPlace
<1>8. k = m * B + c /\ k = n * B + d /\ m * B \in Nat /\ n * B \in Nat
  BY <1>1, <1>6, <1>7, BaseNext DEF Base
<1>9. ~ (m < n)
  <2>1. ASSUME m < n
        PROVE  FALSE
    <3>1. m * B + B <= n * B
      BY <2>1, BaseOrder
    <3>2. PICK i \in Nat : i = m * B
      BY <1>8
    <3>3. PICK j \in Nat : j = n * B
      BY <1>8
    <3>4. i + c = j + d /\ i + B <= j
      BY <1>8, <3>1, <3>2, <3>3
    <3> QED
      BY <3>4
  <2> QED
    BY <2>1
<1>10. ~ (n < m)
  <2>1. ASSUME n < m
        PROVE  FALSE
    <3>1. n * B + B <= m * B
      BY <2>1, BaseOrder
    <3>2. PICK i \in Nat : i = m * B
      BY <1>8
    <3>3. PICK j \in Nat : j = n * B
      BY <1>8
    <3>4. i + c = j + d /\ j + B <= i
      BY <1>8, <3>1, <3>2, <3>3
    <3> QED
      BY <3>4
  <2> QED
    BY <2>1
<1>11. m = n
  BY <1>9, <1>10
<1>12. c = d
  BY <1>8, <1>11
<1> QED
  BY <1>2, <1>3, <1>4, <1>5, <1>11, <1>12

(* The sum of a collective: what all computed for this reduction. *)
LEMMA ReduceSum ==
  ASSUME GradInv, Clean, NEW k \in Nat \ {0}, Reduce(k), NEW p \in Ranks,
         NEW x \in Params, BucketOf(x) = BucketAt(p, k)
  PROVE  SumAt(k, PlaceIn(BucketOf(x), x[2])) = Given(used, x[2], user[p].round)
<1>1. PICK n : n = user[p].round
  OBVIOUS
<1>2. PICK j : j = PlaceIn(BucketOf(x), x[2])
  OBVIOUS
<1>3. Assigned /\ Open(k) /\ \A q \in Ranks : Posted(q, k)
  BY GradParts DEF Reduce
<1>4. buckets_[BucketOf(x)][j] = x[2]
  BY <1>2, <1>3, PlaceInType
<1>5. ASSUME NEW q \in Ranks, NEW r \in Replicas
      PROVE  reducer[q].contents[<<r, buckets_[BucketAt(q, k)][j]>>]
               = IF <<r, x[2]>> \in used[q][n] THEN {<<q, r, n>>} ELSE {}
  <2>1. user[q].round = n /\ BucketAt(q, k) = BucketOf(x)
    BY <1>1, <1>3, SameRound
  <2>2. PICK y \in Params : y = <<r, x[2]>>
    BY <1>3, BucketOfType DEF Params
  <2>3. BucketOf(y) = BucketOf(x) /\ y[1] = r
    BY <2>2 DEF BucketOf
  <2>4. /\ BucketOf(y) < reducer[q].next_bucket
        /\ First(reducer[q]) + BucketOf(y) = k
    BY <1>3, <2>1, <2>3, TagPlace
  <2>5. k \notin outcome.done
    BY <1>3 DEF Open
  <2>6. Holds(q, n, reducer[q], used[q][n],
              NotMarked(reducer[q], user[q], used[q][n]))
    BY <2>1, GradParts DEF Tracked, Data, Clean
  <2>7. reducer[q].contents[y] = Owned(q, n, used[q][n], y)
    BY <2>4, <2>5, <2>6 DEF Holds
  <2> QED
    BY <1>4, <2>1, <2>2, <2>3, <2>7 DEF Owned
<1>6. ASSUME NEW e
      PROVE  e \in SumAt(k, j) <=> e \in Given(used, x[2], n)
  <2>1. InSum(k, j, e) <=> GivenBy(used, x[2], n, e)
    <3>1. ASSUME NEW q \in Ranks, NEW r \in Replicas
          PROVE  e \in reducer[q].contents[<<r, buckets_[BucketAt(q, k)][j]>>]
                   <=> <<r, x[2]>> \in used[q][n] /\ e = <<q, r, n>>
      <4>1. PICK c : c = reducer[q].contents[<<r, buckets_[BucketAt(q, k)][j]>>]
        OBVIOUS
      <4>2. c = IF <<r, x[2]>> \in used[q][n] THEN {<<q, r, n>>} ELSE {}
        BY <1>5, <4>1, Zenon
      <4>3. e \in c <=> <<r, x[2]>> \in used[q][n] /\ e = <<q, r, n>>
        BY <4>2
      <4> QED
        BY <4>1, <4>3
    <3> QED
      BY <3>1, Zenon DEF InSum, GivenBy
  <2> QED
    BY <2>1, SumAtElements, GivenElements
<1> QED
  BY <1>1, <1>2, <1>6

-----------------------------------------------------------------------------
(***************************************************************************)
(* The invariant after a step, with the collectives that are then done.    *)
(***************************************************************************)
HoldsThen(q, n, s, U, D) ==
  \A x \in Params :
    /\ BucketOf(x) < s.next_bucket \/ x \notin D
    /\ First(s) + BucketOf(x) \notin outcome'.done
    => s.contents[x] = Owned(q, n, U, x)

TrackedThen(q, s, u, U, g) ==
  /\ Rounds(s, u) /\ Listed(s) /\ Past(s) /\ Exact(s, u, U, g)
  /\ ~u.strayed => HoldsThen(q, u.round, s, U, NotMarked(s, u, U))

SummedThen(s, u, U) ==
  \A x \in Params :
    BucketOf(x) < s.next_bucket /\ Tag(u.round, x) \in outcome'.done =>
      s.contents[x] = Given(U, x[2], u.round)

AveragedThen(u, g, U) ==
  u.pc = "reduced" =>
    \A x \in Params : /\ Tag(u.round, x) \in outcome'.done
                      /\ g[x] = Given(U, x[2], u.round)

LEMMA FixedTracked ==
  ASSUME fixed' = fixed, \A k : ~Open(k) => ~Open(k)',
         NEW q, NEW s, NEW u, NEW U, NEW g, TrackedThen(q, s, u, U, g)
  PROVE  Tracked(q, s, u, U, g)'
<1>1. First(s)' = First(s)
  BY DEF First
<1>2. \A n : Base(n)' = Base(n)
  BY FixedSame DEF Base
<1>3. Rounds(s, u)'
  BY <1>1, <1>2, FixedSame DEF TrackedThen, Rounds
<1>4. Listed(s)'
  BY <1>1, FixedSame DEF TrackedThen, Listed
<1>5. Past(s)'
  BY <1>1 DEF TrackedThen, Past
<1>6. \A b, r : Slot(b, r)' = Slot(b, r)
  BY FixedSame, FixedBucketOf DEF Slot
<1>7. \A D, b, r : Held(D, b, r)' = Held(D, b, r)
  BY <1>6 DEF Held
<1>8. Unmarked(u, U)' = Unmarked(u, U)
  BY FixedSame DEF Unmarked
<1>9. Exactly(s, Unmarked(u, U)) => Exactly(s, Unmarked(u, U))'
  BY <1>7, <1>8, FixedSame DEF Exactly
<1>10. Exact(s, u, U, g)'
  BY <1>9, FixedSame DEF TrackedThen, Exact
<1>11. NotMarked(s, u, U)' = NotMarked(s, u, U)
  BY <1>8, FixedSame DEF NotMarked
<1>12. ASSUME ~u.strayed
       PROVE  Holds(q, u.round, s, U, NotMarked(s, u, U))'
  <2>1. HoldsThen(q, u.round, s, U, NotMarked(s, u, U))
    BY <1>12 DEF TrackedThen
  <2> QED
    BY <1>1, <1>11, <2>1, FixedSame, FixedBucketOf DEF HoldsThen, Holds, Owned
<1> QED
  BY <1>3, <1>4, <1>5, <1>10, <1>12 DEF Tracked, Data

LEMMA FixedGiven ==
  ASSUME fixed' = fixed, NEW U, NEW i, NEW n
  PROVE  Given(U, i, n)' = Given(U, i, n)
<1>1. Replicas' = Replicas
  BY FixedSame
<1> QED
  BY <1>1, Zenon DEF Given

LEMMA FixedTag ==
  ASSUME fixed' = fixed, NEW n, NEW x
  PROVE  Tag(n, x)' = Tag(n, x)
BY FixedSame, FixedBucketOf DEF Tag, Base

LEMMA FixedSums ==
  ASSUME fixed' = fixed, NEW s, NEW u, NEW g, NEW U
  PROVE  /\ SummedThen(s, u, U) => Summed(s, u, U)'
         /\ AveragedThen(u, g, U) => Averaged(u, g, U)'
<1>1. Params' = Params
  BY FixedSame
<1>2. SummedThen(s, u, U) => Summed(s, u, U)'
  BY <1>1, FixedBucketOf, FixedGiven, FixedTag DEF SummedThen, Summed
<1>3. AveragedThen(u, g, U) => Averaged(u, g, U)'
  BY <1>1, FixedBucketOf, FixedGiven, FixedTag DEF AveragedThen, Averaged
<1> QED
  BY <1>2, <1>3

After ==
  /\ used' \in UsedType
  /\ \A k \in outcome'.done, q \in Ranks : k <= Len(reducer'[q].posted)
  /\ \A q \in Ranks : TrackedThen(q, reducer'[q], user'[q],
                                  used'[q][user'[q].round], grad'[q])
  /\ (\A q \in Ranks : ~user'[q].strayed) =>
       \A q \in Ranks : /\ SummedThen(reducer'[q], user'[q], used')
                        /\ AveragedThen(user'[q], grad'[q], used')

LEMMA ProcessAfter ==
  ASSUME GradInv, ~Retry, Passes = 1, NEW p \in Ranks, ProcessStep(p)
  PROVE  After
<1>1. /\ used' \in UsedType /\ outcome' = outcome
      /\ \A q \in Ranks : q # p => used'[q] = used[q] /\ grad'[q] = grad[q]
  BY OthersKept
<1>2. \A q \in Ranks : q # p => reducer'[q] = reducer[q] /\ user'[q] = user[q]
  <2>1. ReducerInv
    BY GradParts
  <2>2. Moves(p)
    BY <2>1, ProcessMoves
  <2>3. PICK t : t = reducer'[p]
    OBVIOUS
  <2>4. PICK v : v = user'[p]
    OBVIOUS
  <2>5. reducer' = [reducer EXCEPT ![p] = t] /\ user' = [user EXCEPT ![p] = v]
    BY <2>2, <2>3, <2>4 DEF Moves
  <2>6. reducer \in [Ranks -> ReducerType] /\ user \in [Ranks -> UserType]
    BY <2>1 DEF ReducerInv, Types
  <2> QED
    BY <2>5, <2>6
<1>3. /\ Rounds(reducer'[p], user'[p]) /\ Listed(reducer'[p])
      /\ Past(reducer'[p]) /\ LocalInv(reducer'[p], user'[p])
      /\ LocalStep(reducer[p], user[p], reducer'[p], user'[p])
  BY StepRounds
<1>4. ASSUME NEW q \in Ranks
      PROVE  TrackedThen(q, reducer'[q], user'[q],
                         used'[q][user'[q].round], grad'[q])
  <2>1. Tracked(q, reducer'[q], user'[q], used'[q][user'[q].round], grad'[q])
    <3>1. CASE q = p
      BY <1>3, <3>1, StepData DEF Tracked
    <3>2. CASE q # p
      <4>1. Tracked(q, reducer[q], user[q], used[q][user[q].round], grad[q])
        BY GradParts
      <4> QED
        BY <1>1, <1>2, <3>2, <4>1
    <3> QED
      BY <3>1, <3>2
  <2> QED
    BY <1>1, <2>1 DEF Tracked, TrackedThen, Data, Holds, HoldsThen
<1>5. ASSUME NEW k \in outcome'.done, NEW q \in Ranks
      PROVE  k <= Len(reducer'[q].posted)
  <2>1. k \in Nat /\ k <= Len(reducer[q].posted)
    BY <1>1 DEF GradInv, DonePosted, RunInv, OutcomeType
  <2>2. CASE q # p
    BY <1>2, <2>1, <2>2
  <2>3. CASE q = p
    <3>1. PICK s \in ReducerType : s = reducer[p]
      BY GradParts
    <3>2. PICK t \in ReducerType : t = reducer'[p]
      BY <1>3 DEF LocalInv
    <3>3. Assigned /\ LocalInv(s, user[p])
      BY <3>1, GradParts
    <3>4. Posting(s, t)
      BY <1>3, <3>1, <3>2, <3>3, StepPosts
    <3>5. PICK l \in Nat : l = Len(s.posted)
      BY DEF ReducerType
    <3>6. PICK j \in Nat : j = Len(t.posted)
      BY DEF ReducerType
    <3>7. l <= j
      <4>1. CASE t.posted = s.posted
        BY <3>5, <3>6, <4>1
      <4>2. CASE LaunchedFrom(s, t)
        <5>1. PICK m \in Nat : m = s.next_bucket
          BY <3>3 DEF ReducerType, Assigned
        <5>2. PICK n \in Nat : n = t.next_bucket
          BY <3>3 DEF ReducerType, Assigned
        <5>3. j = l + (n - m)
          BY <3>3, <3>5, <3>6, <4>2, <5>1, <5>2, LaunchedElements
        <5>4. m <= n
          BY <4>2, <5>1, <5>2 DEF LaunchedFrom
        <5> QED
          BY <5>3, <5>4
      <4> QED
        BY <3>4, <4>1, <4>2 DEF Posting
    <3> QED
      BY <2>1, <2>3, <3>1, <3>2, <3>5, <3>6, <3>7
  <2> QED
    BY <2>2, <2>3
<1>6. ASSUME \A q \in Ranks : ~user'[q].strayed, NEW q \in Ranks
      PROVE  /\ SummedThen(reducer'[q], user'[q], used')
             /\ AveragedThen(user'[q], grad'[q], used')
  <2>1. Clean
    <3>1. ~user[p].strayed
      BY <1>3, <1>6, GradParts, StrayedStays
    <3> QED
      BY <1>2, <1>6, <3>1 DEF Clean
  <2>2. Summed(reducer'[q], user'[q], used') /\ Averaged(user'[q], grad'[q], used')
    <3>1. CASE q = p
      BY <1>6, <2>1, <3>1, StepSummed, StepAveraged DEF GradInv
    <3>2. CASE q # p
      <4>1. PICK n \in 0 .. MaxForwards : n = user[q].round /\ user'[q].round = n
        BY <1>2, <3>2, GradParts
      <4>2. ASSUME NEW x \in Params, Tag(n, x) \in outcome.done
            PROVE  Given(used', x[2], n) = Given(used, x[2], n)
        BY <1>6, <4>2, UsedKept
      <4>3. Summed(reducer[q], user[q], used) /\ Averaged(user[q], grad[q], used)
        BY <2>1 DEF GradInv
      <4>4. Summed(reducer'[q], user'[q], used')
        BY <1>2, <3>2, <4>1, <4>2, <4>3 DEF Summed
      <4>5. Averaged(user'[q], grad'[q], used')
        BY <1>1, <1>2, <3>2, <4>1, <4>2, <4>3 DEF Averaged
      <4> QED
        BY <4>4, <4>5
    <3> QED
      BY <3>1, <3>2
  <2> QED
    BY <1>1, <2>2 DEF Summed, SummedThen, Averaged, AveragedThen
<1> QED
  BY <1>1, <1>4, <1>5, <1>6 DEF After

LEMMA ReduceAfter ==
  ASSUME GradInv, NEW k \in Nat \ {0}, Reduce(k)
  PROVE  After
<1>1. /\ user' = user /\ grad' = grad /\ used' = used /\ Open(k)
      /\ outcome' = [outcome EXCEPT !.done = @ \cup {k}]
      /\ \A q \in Ranks : Posted(q, k)
  BY DEF Reduce
<1>2. ReducerInv /\ Assigned /\ outcome \in OutcomeType /\ used \in UsedType
  BY DEF GradInv, RunInv, ReducerInv
<1>3. outcome'.done = outcome.done \cup {k}
  BY <1>1, <1>2 DEF OutcomeType
<1>4. ASSUME NEW q \in Ranks
      PROVE  /\ Rewritten(reducer[q], reducer'[q])
             /\ \A x \in Params :
                  reducer'[q].contents[x] =
                    IF BucketOf(x) = BucketAt(q, k)
                    THEN SumAt(k, PlaceIn(BucketOf(x), x[2]))
                    ELSE reducer[q].contents[x]
  BY <1>2, ReduceRewrites
<1>5. ASSUME NEW q \in Ranks
      PROVE  TrackedThen(q, reducer'[q], user'[q],
                         used'[q][user'[q].round], grad'[q])
  <2>1. PICK s : s = reducer[q]
    OBVIOUS
  <2>2. PICK t : t = reducer'[q]
    OBVIOUS
  <2>3. PICK u : u = user[q]
    OBVIOUS
  <2>4. PICK U : U = used[q][u.round]
    OBVIOUS
  <2>5. Tracked(q, s, u, U, grad[q]) /\ Rewritten(s, t)
    BY <1>4, <2>1, <2>2, <2>3, <2>4, GradParts
  <2>6. First(t) = First(s) /\ NotMarked(t, u, U) = NotMarked(s, u, U)
    BY <2>5 DEF Rewritten, Kept, First, NotMarked
  <2>7. Rounds(t, u)
    BY <2>5, <2>6 DEF Tracked, Rewritten, Kept, Rounds
  <2>8. Listed(t) /\ Past(t)
    BY <2>5, <2>6 DEF Tracked, Rewritten, Listed, Past
  <2>9. Exact(t, u, U, grad[q])
    BY <2>5 DEF Tracked, Data, Rewritten, Kept, Exact, Exactly
  <2>10. ASSUME ~u.strayed
         PROVE  HoldsThen(q, u.round, t, U, NotMarked(t, u, U))
    <3>1. SUFFICES ASSUME NEW x \in Params,
                          \/ BucketOf(x) < t.next_bucket
                          \/ x \notin NotMarked(t, u, U),
                          First(t) + BucketOf(x) \notin outcome'.done
                   PROVE  t.contents[x] = Owned(q, u.round, U, x)
      BY DEF HoldsThen
    <3>2. BucketOf(x) # BucketAt(q, k)
      BY <1>1, <1>3, <2>1, <2>6, <3>1, TagPlace
    <3>3. t.contents[x] = s.contents[x]
      BY <1>4, <2>1, <2>2, <3>2
    <3>4. Holds(q, u.round, s, U, NotMarked(s, u, U))
      BY <2>5, <2>10 DEF Tracked, Data
    <3>5. /\ BucketOf(x) < s.next_bucket \/ x \notin NotMarked(s, u, U)
          /\ First(s) + BucketOf(x) \notin outcome.done
      BY <1>3, <2>5, <2>6, <3>1 DEF Rewritten
    <3> QED
      BY <3>3, <3>4, <3>5 DEF Holds
  <2>11. TrackedThen(q, t, u, U, grad[q])
    BY <2>7, <2>8, <2>9, <2>10 DEF TrackedThen
  <2> QED
    BY <1>1, <2>2, <2>3, <2>4, <2>11
<1>6. ASSUME NEW j \in outcome'.done, NEW q \in Ranks
      PROVE  j <= Len(reducer'[q].posted)
  <2>1. Len(reducer'[q].posted) = Len(reducer[q].posted)
    BY <1>4 DEF Rewritten
  <2>2. PICK l \in Nat : l = Len(reducer[q].posted)
    BY GradParts DEF ReducerType
  <2>3. CASE j = k
    BY <1>1, <2>1, <2>2, <2>3 DEF Posted
  <2>4. CASE j \in outcome.done
    BY <2>1, <2>4 DEF GradInv, DonePosted
  <2> QED
    BY <1>3, <2>3, <2>4
<1>7. ASSUME Clean, NEW q \in Ranks
      PROVE  SummedThen(reducer'[q], user[q], used)
  <2>1. SUFFICES ASSUME NEW x \in Params,
                        BucketOf(x) < reducer'[q].next_bucket,
                        Tag(user[q].round, x) \in outcome'.done
                 PROVE  reducer'[q].contents[x] =
                          Given(used, x[2], user[q].round)
    BY DEF SummedThen
  <2>2. BucketOf(x) < reducer[q].next_bucket
    BY <1>4, <2>1 DEF Rewritten
  <2>3. CASE BucketOf(x) = BucketAt(q, k)
    BY <1>4, <1>7, <2>3, ReduceSum
  <2>4. CASE BucketOf(x) # BucketAt(q, k)
    <3>1. Tag(user[q].round, x) # k
      <4>1. PICK b \in Nat : b = BucketOf(x)
        BY <1>2, BucketOfType DEF Buckets
      <4>2. PICK c \in Nat : c = BucketAt(q, k)
        BY <1>1, TagPlace DEF Buckets
      <4>3. PICK f \in Nat : f = First(reducer[q])
        BY GradParts DEF Lined
      <4>4. k = f + c /\ f = Base(user[q].round)
        BY <1>1, <4>2, <4>3, TagPlace
      <4>5. Tag(user[q].round, x) = f + b
        BY <4>1, <4>4 DEF Tag
      <4> QED
        BY <2>4, <4>1, <4>2, <4>4, <4>5
    <3>2. Tag(user[q].round, x) \in outcome.done
      BY <1>3, <2>1, <3>1
    <3>3. reducer[q].contents[x] = Given(used, x[2], user[q].round)
      BY <1>7, <2>2, <3>2 DEF GradInv, Summed
    <3> QED
      BY <1>4, <2>4, <3>3
  <2> QED
    BY <2>3, <2>4
<1>8. ASSUME Clean, NEW q \in Ranks
      PROVE  AveragedThen(user[q], grad[q], used)
  BY <1>3, <1>8 DEF GradInv, Averaged, AveragedThen
<1> QED
  BY <1>1, <1>2, <1>5, <1>6, <1>7, <1>8 DEF After, Clean

LEMMA SameAfter ==
  ASSUME GradInv, reducer' = reducer, user' = user, grad' = grad, used' = used,
         outcome'.done = outcome.done
  PROVE  After
<1>1. ASSUME NEW q \in Ranks
      PROVE  TrackedThen(q, reducer[q], user[q], used[q][user[q].round], grad[q])
  <2>1. Tracked(q, reducer[q], user[q], used[q][user[q].round], grad[q])
    BY GradParts
  <2> QED
    BY <2>1 DEF Tracked, TrackedThen, Data, Holds, HoldsThen
<1>2. ASSUME NEW k \in outcome'.done, NEW q \in Ranks
      PROVE  k <= Len(reducer'[q].posted)
  BY DEF GradInv, DonePosted
<1>3. ASSUME Clean, NEW q \in Ranks
      PROVE  /\ SummedThen(reducer[q], user[q], used)
             /\ AveragedThen(user[q], grad[q], used)
  BY <1>3 DEF GradInv, Summed, SummedThen, Averaged, AveragedThen
<1>4. used \in UsedType
  BY DEF GradInv
<1> QED
  BY <1>1, <1>2, <1>3, <1>4 DEF After, Clean

LEMMA GradInvStep ==
  ASSUME GradInv, ~Retry, Passes = 1, [Next]_vars
  PROVE  GradInv'
<1>1. RunInv /\ RunInv' /\ ReducerInv /\ outcome \in OutcomeType
  BY RunInvStep DEF GradInv, RunInv
<1>2. fixed' = fixed
  BY <1>1, FixedByNext DEF vars
<1>3. \A k : ~Open(k) => ~Open(k)'
  BY <1>1, EndedStaysEnded
<1>4. After
  <2>1. CASE UNCHANGED vars
    BY <2>1, SameAfter DEF vars
  <2>2. ASSUME NEW k \in Nat \ {0}, TimeOut(k)
        PROVE  After
    <3>1. /\ reducer' = reducer /\ user' = user /\ grad' = grad /\ used' = used
          /\ outcome' = [outcome EXCEPT !.failed = @ \cup {k}]
      BY <2>2 DEF TimeOut
    <3>2. outcome'.done = outcome.done
      BY <1>1, <3>1 DEF OutcomeType
    <3> QED
      BY <3>1, <3>2, SameAfter
  <2> QED
    BY <1>1, <2>1, <2>2, NextCases, ProcessAfter, ReduceAfter DEF GroupStep
<1>5. UsedType' = UsedType
  BY <1>2, FixedSame DEF UsedType
<1>6. DonePosted'
  BY <1>4 DEF After, DonePosted
<1>7. ASSUME NEW q \in Ranks
      PROVE  Tracked(q, reducer[q], user[q], used[q][user[q].round], grad[q])'
  <2>1. PICK s : s = reducer'[q]
    OBVIOUS
  <2>2. PICK u : u = user'[q]
    OBVIOUS
  <2>3. PICK U : U = used'[q][u.round]
    OBVIOUS
  <2>4. PICK g : g = grad'[q]
    OBVIOUS
  <2>5. TrackedThen(q, s, u, U, g)
    BY <1>4, <2>1, <2>2, <2>3, <2>4 DEF After
  <2>6. Tracked(q, s, u, U, g)'
    BY <1>2, <1>3, <2>5, FixedTracked
  <2> QED
    BY <2>1, <2>2, <2>3, <2>4, <2>6
<1>8. ASSUME Clean', NEW q \in Ranks
      PROVE  /\ Summed(reducer[q], user[q], used)'
             /\ Averaged(user[q], grad[q], used)'
  <2>1. PICK s : s = reducer'[q]
    OBVIOUS
  <2>2. PICK u : u = user'[q]
    OBVIOUS
  <2>3. PICK U : U = used'
    OBVIOUS
  <2>4. PICK g : g = grad'[q]
    OBVIOUS
  <2>5. SummedThen(s, u, U) /\ AveragedThen(u, g, U)
    BY <1>4, <1>8, <2>1, <2>2, <2>3, <2>4 DEF After, Clean
  <2>6. Summed(s, u, U)' /\ Averaged(u, g, U)'
    BY <1>2, <2>5, FixedSums
  <2> QED
    BY <2>1, <2>2, <2>3, <2>4, <2>6
<1>9. (used \in UsedType)'
  BY <1>4, <1>5 DEF After
<1> QED
  BY <1>1, <1>6, <1>7, <1>8, <1>9 DEF GradInv

LEMMA InitGrad ==
  ASSUME Init, AssignmentSound
  PROVE  GradInv
<1>1. RunInv /\ Assigned
  BY InitRun DEF RunInv, ReducerInv
<1>2. /\ used = [p \in Ranks |-> [n \in 0 .. MaxForwards |-> {}]]
      /\ outcome.done = {}
  BY DEF Init
<1>3. used \in UsedType
  BY <1>2 DEF UsedType
<1>4. MaxForwards \in Nat /\ BucketCount \in Nat \ {0}
  BY <1>1, ReducerAssumption DEF Assigned
<1>5. ASSUME NEW p \in Ranks
      PROVE  /\ Tracked(p, reducer[p], user[p], used[p][user[p].round], grad[p])
             /\ Summed(reducer[p], user[p], used)
             /\ Averaged(user[p], grad[p], used)
  <2>1. PICK s : s = reducer[p]
    OBVIOUS
  <2>2. PICK u : u = user[p]
    OBVIOUS
  <2>3. /\ s.next_bucket = 1 /\ s.posted = <<>>
        /\ ~s.expect_autograd_hooks /\ ~s.require_finalize
        /\ u.pc = "idle" /\ u.round = 0 /\ u.forwards = 0
    BY <2>1, <2>2, InitInv
  <2>4. Len(s.posted) = 0
    BY <2>3
  <2>5. First(s) = 0
    BY <2>3, <2>4 DEF First
  <2>6. Base(0) = 0
    BY <1>4 DEF Base
  <2>7. Rounds(s, u)
    BY <1>4, <2>3, <2>4, <2>6 DEF Rounds
  <2>8. Listed(s) /\ Past(s)
    BY <2>3, <2>5 DEF Listed, Past, Buckets
  <2>9. \A x \in Params : ~ (BucketOf(x) < 1)
    BY <1>1, BucketOfType DEF Buckets
  <2>10. NotMarked(s, u, used[p][u.round]) = Params
    BY <2>3 DEF NotMarked
  <2>11. Data(p, s, u, used[p][u.round], grad[p])
    BY <2>3, <2>9, <2>10 DEF Data, Exact, Holds
  <2>12. Summed(s, u, used) /\ Averaged(u, grad[p], used)
    BY <2>3, <2>9 DEF Summed, Averaged
  <2> QED
    BY <2>1, <2>2, <2>7, <2>8, <2>11, <2>12 DEF Tracked
<1>6. DonePosted
  BY <1>2 DEF DonePosted
<1> QED
  BY <1>1, <1>3, <1>5, <1>6 DEF GradInv

LEMMA AveragedIsGrad ==
  ASSUME GradInv
  PROVE  GradAveraged
<1> SUFFICES ASSUME NEW p \in Ranks, user[p].pc = "reduced", Clean,
                    NEW x \in Params
             PROVE  grad[p][x] = Contributions(x[2], user[p].round)
  BY DEF GradAveraged, Clean
<1>1. grad[p][x] = Given(used, x[2], user[p].round)
  BY DEF GradInv, Averaged
<1> QED
  BY <1>1, GivenIsContributions

(* GradientsAveraged: with one backward pass after a forward(), and a user *)
(* who stops when a reduction has timed out, a reduction finalized without *)
(* an error leaves in every gradient of every process exactly what all     *)
(* replicas of all processes computed for it: nothing of an earlier        *)
(* reduction that a bucket still held, nothing missing and nothing twice,  *)
(* for any number of processes, replicas, buckets and iterations, unless a *)
(* process has used parameters outside of forward().                       *)
THEOREM GradientsAveraged ==
  Spec /\ AssignmentSound /\ Passes = 1 /\ ~Retry => []GradAveraged
<1> SUFFICES ASSUME Passes = 1, ~Retry
             PROVE  Spec /\ AssignmentSound => []GradAveraged
  OBVIOUS
<1>1. Init /\ AssignmentSound => GradInv
  BY InitGrad
<1>2. GradInv /\ [Next]_vars => GradInv'
  BY GradInvStep
<1>3. GradInv => GradAveraged
  BY AveragedIsGrad
<1> QED
  BY <1>1, <1>2, <1>3, PTL DEF Spec

=============================================================================
