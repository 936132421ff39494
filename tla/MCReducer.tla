----------------------------- MODULE MCReducer ------------------------------
(* A bucket of one parameter behind a bucket of two; two types, the bucket *)
(* of one holding what the other surrounds; and one bucket, of two         *)
(* replicas with two parameters each.                                      *)
EXTENDS Reducer

Tensor(k, n) == [key |-> k, bytes |-> n]
OneType == [tensors |-> <<Tensor("float", 2), Tensor("float", 1), Tensor("float", 3)>>,
            replicas |-> {1}, graphs |-> {{1, 2, 3}, {3}, {}}]
TwoTypes == [tensors |-> <<Tensor("float", 1), Tensor("half", 1), Tensor("float", 1)>>,
             replicas |-> {1}, graphs |-> {{1, 2, 3}, {3}}]
TwoReplicas == [tensors |-> <<Tensor("float", 1), Tensor("float", 1)>>,
                replicas |-> {1, 2}, graphs |-> {{1, 2}, {2}}]
AllModels == {OneType, TwoTypes, TwoReplicas}
SmallThenLarge == <<2, 4>>
=============================================================================
