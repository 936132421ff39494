-------------------------- MODULE BucketAssignment --------------------------
(***************************************************************************)
(* compute_bucket_assignment_by_size() of the DistributedDataParallel      *)
(* reducer (torch/csrc/distributed/c10d/reducer.cpp): tensors of one type  *)
(* on one device are packed, in order, into buckets whose size limits are  *)
(* given.  A tensor is [key, bytes], key being its type and device.        *)
(***************************************************************************)
EXTENDS Naturals, Sequences, SequencesExt, FiniteSets, FiniteSetsExt

Accumulator == [indices |-> <<>>, size |-> 0]

(* The loop's state: the buckets closed so far, and for every key the      *)
(* bucket being filled and the index of its limit.                         *)
StartAssignment(keys) ==
  [result |-> <<>>,
   buckets |-> [k \in keys |-> Accumulator],
   limit |-> [k \in keys |-> 1]]

(* Mutant: what a closed bucket held goes into the next one, too. *)
AfterClose_kept(filled) == filled

(* The accumulator of a key whose bucket has been moved into the result. *)
AfterClose(filled) == Accumulator

(* The body of the loop over the tensors. *)
AddTensor(tensors, limits, a, i) ==
  LET k == tensors[i].key
      filled == [indices |-> Append(a.buckets[k].indices, i),
                 size |-> a.buckets[k].size + tensors[i].bytes]
  IN  IF filled.size >= limits[a.limit[k]]
      THEN [result |-> Append(a.result, filled.indices),
            buckets |-> [a.buckets EXCEPT ![k] = AfterClose(filled)],
            limit |-> [a.limit EXCEPT ![k] = Min({@ + 1, Len(limits)})]]
      ELSE [a EXCEPT !.buckets[k] = filled]

(* The loop, the buckets left over, and the sort by smallest index. *)
compute_bucket_assignment_by_size(tensors, limits) ==
  LET keys == {tensors[i].key : i \in DOMAIN tensors}
      a == FoldLeft(LAMBDA acc, i : AddTensor(tensors, limits, acc, i),
                    StartAssignment(keys), [i \in DOMAIN tensors |-> i])
      rest == {a.buckets[k].indices : k \in keys} \ {<<>>}
  IN  SetToSortSeq(ToSet(a.result) \cup rest,
                   LAMBDA s, t : Min(ToSet(s)) < Min(ToSet(t)))

-----------------------------------------------------------------------------
(* SoundAssignment: what the reducer takes for granted of the assignment   *)
(* ("Must be non-empty, unique, and unique across buckets"): the buckets   *)
(* partition the tensors, each holds tensors of one key in their order,    *)
(* the n-th bucket of a key is closed by the tensor that reaches the n-th  *)
(* limit, and the buckets are in the order of their first tensors.         *)
SoundAssignment(tensors, limits, buckets) ==
  LET size(s) == FoldLeft(LAMBDA n, i : n + tensors[i].bytes, 0, s)
      key(b) == tensors[buckets[b][1]].key
      nth(b) == Cardinality({c \in 1 .. b : key(c) = key(b)})
      limit(b) == limits[Min({nth(b), Len(limits)})]
  IN  /\ \A i \in DOMAIN tensors :
           Cardinality({b \in DOMAIN buckets : i \in ToSet(buckets[b])}) = 1
      /\ \A b \in DOMAIN buckets :
           LET s == buckets[b] IN
           /\ s # <<>>
           /\ \A n \in DOMAIN s : tensors[s[n]].key = key(b)
           /\ \A m, n \in DOMAIN s : m < n => s[m] < s[n]
           /\ size(Front(s)) < limit(b)
           /\ \A c \in DOMAIN buckets :
                c > b /\ key(c) = key(b) => size(s) >= limit(b)
      /\ \A b, c \in DOMAIN buckets : b < c => buckets[b][1] < buckets[c][1]
=============================================================================
