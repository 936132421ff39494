------------------------------- MODULE CudaIPC ------------------------------
(***************************************************************************)
(* The producer's side of sharing CUDA tensors between processes           *)
(* (torch/csrc/CudaIPCTypes.cpp, shareCuda() of                            *)
(* torch/csrc/generic/StorageSharing.cpp): tensors that were dropped while *)
(* a consumer uses them are kept in a list, the limbo, until the consumer  *)
(* has released them.                                                      *)
(*                                                                         *)
(* Sending a storage wraps its data pointer in a CudaIPCSentData, the      *)
(* record <<storage, n>> for the n-th time, whose original_ptr_ is the     *)
(* pointer it had before.  Functions call each other through the deleters  *)
(* of these pointers, so a thread has a stack of calls.                    *)
(***************************************************************************)
EXTENDS Naturals, Sequences

CONSTANTS
  Threads,   (* threads of the producer                                    *)
  Storages,  (* storages it has                                            *)
  MaxSends   (* bound on the times a storage is sent                       *)

VARIABLES
  sent,         (* how often a storage was sent                            *)
  held,         (* storages the program has a reference to                 *)
  counter,      (* the reference counter of a record, in shared memory     *)
  limbo,        (* shared_blocks_                                          *)
  limbo_mutex,  (* the thread that holds it                                *)
  mutex,        (* the threads that hold the allocator's recursive mutex,  *)
                (* one entry per level                                     *)
  stack         (* of every thread: its calls, the innermost first         *)

vars == <<sent, held, counter, limbo, limbo_mutex, mutex, stack>>
locks == <<limbo_mutex, mutex>>

Records == Storages \X (1 .. MaxSends)

Init ==
  /\ sent = [s \in Storages |-> 0]
  /\ held = Storages
  /\ counter = [r \in Records |-> 0]
  /\ limbo = <<>>
  /\ limbo_mutex = {}
  /\ mutex = <<>>
  /\ stack = [t \in Threads |-> <<>>]

Malloc == [f |-> "malloc", at |-> "lock"]
Collect == [f |-> "collect", at |-> "lock", left |-> <<>>]
Delete(r) == [f |-> "delete", at |-> "test", record |-> r]
Destroy(r) == [f |-> "destroy", at |-> "original", record |-> r]
Free == [f |-> "free", at |-> "lock"]

At(t, f, at) == stack[t] # <<>> /\ stack[t][1].f = f /\ stack[t][1].at = at
Return(t) == stack' = [stack EXCEPT ![t] = Tail(@)]
Call(t, call, at) ==
  stack' = [stack EXCEPT ![t] = <<call, [@[1] EXCEPT !.at = at]>> \o Tail(@)]
Goto(t, at) == stack' = [stack EXCEPT ![t][1].at = at]

MutexFree(t) == \A i \in DOMAIN mutex : mutex[i] = t

(* The call that the deleter of a data pointer with n wrappings makes. *)
Deleter(s, n) == IF n = 0 THEN Free ELSE Delete(<<s, n>>)

-----------------------------------------------------------------------------
(* The program.                                                            *)

(* shareCuda(): the counter of the new record is set to one. *)
Send(s) ==
  /\ s \in held /\ sent[s] < MaxSends
  /\ sent' = [sent EXCEPT ![s] = @ + 1]
  /\ counter' = [counter EXCEPT ![<<s, sent[s] + 1>>] = 1]
  /\ UNCHANGED <<held, limbo, locks, stack>>

(* The consumer's storage is destroyed (external to the process). *)
Release(r) ==
  /\ counter[r] > 0
  /\ counter' = [counter EXCEPT ![r] = @ - 1]
  /\ UNCHANGED <<sent, held, limbo, locks, stack>>

(* A thread allocates memory, calls ipc_collect(), or drops the last       *)
(* reference to a storage.                                                 *)
Enter(t) ==
  /\ stack[t] = <<>>
  /\ \/ \E call \in {Malloc, Collect} :
          stack' = [stack EXCEPT ![t] = <<call>>] /\ UNCHANGED held
     \/ \E s \in held :
          /\ held' = held \ {s}
          /\ stack' = [stack EXCEPT ![t] = <<Deleter(s, sent[s])>>]
  /\ UNCHANGED <<sent, counter, limbo, locks>>

-----------------------------------------------------------------------------
(* malloc() of the caching allocator: when no block fits, the callbacks    *)
(* are executed while the mutex is held.                                   *)
MallocLock(t) ==
  /\ At(t, "malloc", "lock") /\ MutexFree(t)
  /\ mutex' = <<t>> \o mutex
  /\ Goto(t, "search")
  /\ UNCHANGED <<sent, held, counter, limbo, limbo_mutex>>

MallocSearch(t) ==
  /\ At(t, "malloc", "search")
  /\ Goto(t, "return") \/ Call(t, Collect, "return")
  /\ UNCHANGED <<sent, held, counter, limbo, locks>>

MallocReturn(t) ==
  /\ At(t, "malloc", "return")
  /\ mutex' = Tail(mutex)
  /\ Return(t)
  /\ UNCHANGED <<sent, held, counter, limbo, limbo_mutex>>

(* free() of the caching allocator. *)
FreeBlock(t) ==
  /\ At(t, "free", "lock") /\ MutexFree(t)
  /\ Return(t)
  /\ UNCHANGED <<sent, held, counter, limbo, locks>>

(* CudaIPCSentDataLimbo::collect(): while limbo_mutex_ is held, records    *)
(* are looked at in turn, and those not in use any more destroyed.         *)
CollectLock(t) ==
  /\ At(t, "collect", "lock") /\ limbo_mutex = {}
  /\ limbo_mutex' = {t}
  /\ stack' = [stack EXCEPT ![t][1] = [@ EXCEPT !.at = "scan", !.left = limbo]]
  /\ UNCHANGED <<sent, held, counter, limbo, mutex>>

CollectScan(t) ==
  /\ At(t, "collect", "scan") /\ stack[t][1].left # <<>>
  /\ LET r == Head(stack[t][1].left)
         rest == [stack[t][1] EXCEPT !.left = Tail(@)]
         others(x) == x # r
     IN  IF counter[r] > 0
         THEN /\ stack' = [stack EXCEPT ![t][1] = rest]
              /\ UNCHANGED limbo
         ELSE /\ stack' = [stack EXCEPT ![t] = <<Destroy(r), rest>> \o Tail(@)]
              /\ limbo' = SelectSeq(limbo, others)
  /\ UNCHANGED <<sent, held, counter, locks>>

CollectReturn(t) ==
  /\ At(t, "collect", "scan") /\ stack[t][1].left = <<>>
  /\ limbo_mutex' = {}
  /\ Return(t)
  /\ UNCHANGED <<sent, held, counter, limbo, mutex>>

(* CudaIPCSentDataDelete(): a record in use goes to the limbo; the limbo   *)
(* is scanned; and a record not in use is destroyed on return.             *)
DeleteTest(t) ==
  /\ At(t, "delete", "test")
  /\ IF counter[stack[t][1].record] > 0 THEN Goto(t, "add")
                                        ELSE Call(t, Collect, "destroy")
  /\ UNCHANGED <<sent, held, counter, limbo, locks>>

DeleteAdd(t) ==
  /\ At(t, "delete", "add") /\ limbo_mutex = {}
  /\ limbo' = Append(limbo, stack[t][1].record)
  /\ Call(t, Collect, "return")
  /\ UNCHANGED <<sent, held, counter, locks>>

DeleteReturn(t) ==
  /\ At(t, "delete", "return")
  /\ Return(t)
  /\ UNCHANGED <<sent, held, counter, limbo, locks>>

(* ~CudaIPCSentData(): original_ptr_ is destroyed. *)
DestroyOriginal(t) ==
  /\ At(t, "destroy", "original") \/ At(t, "delete", "destroy")
  /\ LET r == stack[t][1].record
     IN  stack' = [stack EXCEPT ![t] = <<Deleter(r[1], r[2] - 1)>> \o Tail(@)]
  /\ UNCHANGED <<sent, held, counter, limbo, locks>>

-----------------------------------------------------------------------------
Next ==
  \/ \E s \in Storages : Send(s)
  \/ \E r \in Records : Release(r)
  \/ \E t \in Threads :
       \/ Enter(t)
       \/ MallocLock(t) \/ MallocSearch(t) \/ MallocReturn(t) \/ FreeBlock(t)
       \/ CollectLock(t) \/ CollectScan(t) \/ CollectReturn(t)
       \/ DeleteTest(t) \/ DeleteAdd(t) \/ DeleteReturn(t)
       \/ DestroyOriginal(t)

Spec == Init /\ [][Next]_vars

(* The threads that hold a lock thread t is about to take. *)
WaitsFor(t) ==
  (IF At(t, "collect", "lock") \/ At(t, "delete", "add")
   THEN limbo_mutex ELSE {})
  \cup (IF (At(t, "malloc", "lock") \/ At(t, "free", "lock")) /\ ~MutexFree(t)
        THEN {mutex[1]} ELSE {})

(* NoDeadlock: scanning the limbo "on various events such as CudaCaching   *)
(* allocator haven't found any suitable block for the next allocation, the *)
(* attempt of any shared block deletion, explicit call of                  *)
(* cuda_ipc_collect" ends: no thread waits for itself, and no two threads  *)
(* wait for each other.                                                    *)
NoDeadlock ==
  \A t \in Threads : \A u \in WaitsFor(t) : u # t /\ t \notin WaitsFor(u)
=============================================================================
