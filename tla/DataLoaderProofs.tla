-------------------------- MODULE DataLoaderProofs --------------------------
(***************************************************************************)
(* Safety of _DataLoaderIter for any number of workers and batches and any *)
(* number of killed processes: every batch that was asked for is at one    *)
(* place, and the counters of the iterator agree with each other.          *)
(***************************************************************************)
EXTENDS DataLoader, FiniteSetTheorems, TLAPS

Index == Nat \cup {None}
Batch == [idx : Nat, from : Workers]
NoBatch == [idx |-> None, from |-> Main]

Fields == [pc : {"priming", "user", "get", "done", "killed"} \cup Stopping,
           primed : Nat, worker_queue_idx : Workers, send_idx : Nat,
           rcvd_idx : Nat, batches_outstanding : Int,
           reorder_dict : SUBSET Nat, shutdown : BOOLEAN]

(* A worker sends batches; the main process sends None, to the thread that *)
(* pins memory and only when there is one.                                 *)
LoaderType ==
  /\ options \in [timeout : BOOLEAN, pin_memory : BOOLEAN, handler : BOOLEAN]
  /\ main \in Fields
  /\ done_event \in BOOLEAN
  /\ index_queue \in [Workers -> Seq(Index)]
  /\ worker \in [Workers -> {"runs", "exited", "killed"}]
  /\ DOMAIN buffer = Workers \cup {Main}
  /\ \A w \in Workers : buffer[w] \in Seq(Batch)
  /\ buffer[Main] \in Seq({NoBatch})
  /\ result_queue \in Seq(Batch \cup {NoBatch})
  /\ ~options.pin_memory => result_queue \in Seq(Batch) /\ buffer[Main] = <<>>
  /\ data_queue \in Seq(Batch)

(* The batches in a queue, and that none is there twice. *)
Indices(q) == {i \in Nat : \E n \in DOMAIN q : q[n] = i}
Batches(q) == {i \in Nat : \E n \in DOMAIN q : q[n].idx = i}

IndicesOnce(q) == \A n, k \in DOMAIN q : q[n] = q[k] /\ q[n] # None => n = k
BatchesOnce(q) ==
  \A n, k \in DOMAIN q : q[n].idx = q[k].idx /\ q[n].idx # None => n = k

(* Where batches are, and those that should be somewhere. *)
Asked == [w \in Workers |-> Indices(index_queue[w])]
Loaded == [w \in Workers |-> Batches(buffer[w])]
Sent == Batches(result_queue)
Pinned == Batches(data_queue)
Pending == main.rcvd_idx .. main.send_idx - 1

QueuesOnce ==
  /\ \A w \in Workers : IndicesOnce(index_queue[w]) /\ BatchesOnce(buffer[w])
  /\ BatchesOnce(result_queue) /\ BatchesOnce(data_queue)

Apart ==
  /\ \A v, w \in Workers :
       /\ v # w => Asked[v] \cap Asked[w] = {} /\ Loaded[v] \cap Loaded[w] = {}
       /\ Asked[v] \cap Loaded[w] = {}
  /\ \A w \in Workers :
       /\ Asked[w] \cap Sent = {} /\ Loaded[w] \cap Sent = {}
       /\ Asked[w] \cap Pinned = {} /\ Loaded[w] \cap Pinned = {}
       /\ Asked[w] \cap main.reorder_dict = {}
       /\ Loaded[w] \cap main.reorder_dict = {}
  /\ Sent \cap Pinned = {} /\ Sent \cap main.reorder_dict = {}
  /\ Pinned \cap main.reorder_dict = {}

OnlyPending ==
  /\ \A w \in Workers : Asked[w] \subseteq Pending /\ Loaded[w] \subseteq Pending
  /\ Sent \subseteq Pending /\ Pinned \subseteq Pending
  /\ main.reorder_dict \subseteq Pending

Somewhere(i) ==
  \/ i \in Sent \/ i \in Pinned \/ i \in main.reorder_dict
  \/ \E w \in Workers : i \in Asked[w] \/ i \in Loaded[w]

NoneLost == NoneKilled /\ ~done_event => \A i \in Pending : Somewhere(i)

(* The counters; during priming nothing has been received. *)
Counters ==
  LET m == main
  IN  /\ m.rcvd_idx <= m.send_idx /\ m.send_idx <= NumBatches
      /\ m.send_idx = m.rcvd_idx + m.batches_outstanding
                      + Cardinality(m.reorder_dict)
      /\ m.send_idx - m.rcvd_idx <= 2 * NumWorkers
      /\ m.pc = "priming" =>
           /\ m.rcvd_idx = 0 /\ m.reorder_dict = {}
           /\ m.send_idx <= m.primed /\ m.primed < 2 * NumWorkers
           /\ m.send_idx < NumBatches => m.send_idx = m.primed
      /\ m.pc \in {"user", "get"} /\ m.send_idx < NumBatches
           => m.send_idx - m.rcvd_idx = 2 * NumWorkers
      /\ m.pc = "get" => m.rcvd_idx \notin m.reorder_dict
                         /\ m.batches_outstanding > 0
      /\ m.pc \in {"priming", "user", "get"} => ~m.shutdown

PlacesInv == QueuesOnce /\ Apart /\ OnlyPending /\ NoneLost

LoaderInv == LoaderType /\ Counters /\ PlacesInv

-----------------------------------------------------------------------------
(* Workers is a set of numbers, and the main process is none of them. *)
LEMMA ProcessFacts ==
  /\ NumWorkers \in Nat \ {0} /\ NumBatches \in Nat
  /\ Workers \subseteq Nat /\ 0 \in Workers /\ Main \notin Workers
  /\ None \in Int /\ None \notin Nat
BY LoaderAssumption DEF Workers, Main, None

(* The workers take turns. *)
LEMMA NextTurn ==
  ASSUME NEW w \in Workers
  PROVE  (w + 1) % NumWorkers \in Workers
<1>1. NumWorkers \in Nat /\ NumWorkers > 0 /\ w + 1 \in Int
  BY LoaderAssumption DEF Workers
<1>2. (w + 1) % NumWorkers \in 0 .. NumWorkers - 1 BY <1>1
<1> QED BY <1>2 DEF Workers

(* Getting an index from a queue, and putting one there. *)
LEMMA TailIndices ==
  ASSUME NEW q \in Seq(Index), q # <<>>, IndicesOnce(q)
  PROVE  /\ Tail(q) \in Seq(Index) /\ IndicesOnce(Tail(q))
         /\ Head(q) \in Index
         /\ Head(q) # None => Head(q) \in Indices(q)
         /\ Indices(Tail(q)) = Indices(q) \ {Head(q)}
<1>1. /\ Len(q) \in Nat \ {0} /\ Head(q) = q[1] /\ q[1] \in Index
      /\ Tail(q) \in Seq(Index) /\ DOMAIN Tail(q) = 1 .. Len(q) - 1
      /\ DOMAIN q = 1 .. Len(q)
      /\ \A n \in 1 .. Len(q) - 1 : Tail(q)[n] = q[n + 1]
  OBVIOUS
<1>2. IndicesOnce(Tail(q)) BY <1>1 DEF IndicesOnce
<1>3. Head(q) # None => Head(q) \in Indices(q)
  BY <1>1 DEF Indices, Index
<1>4. ASSUME NEW i \in Indices(Tail(q)) PROVE i \in Indices(q) \ {Head(q)}
  <2>1. PICK n \in 1 .. Len(q) - 1 : Tail(q)[n] = i BY <1>1 DEF Indices
  <2>2. n + 1 \in DOMAIN q /\ q[n + 1] = i /\ 1 \in DOMAIN q /\ n + 1 # 1
    BY <1>1, <2>1
  <2>3. i \in Nat BY DEF Indices
  <2>4. i # q[1] BY <2>2, <2>3, ProcessFacts DEF IndicesOnce
  <2> QED BY <1>1, <2>2, <2>3, <2>4 DEF Indices
<1>5. ASSUME NEW i \in Indices(q), i # Head(q) PROVE i \in Indices(Tail(q))
  <2>1. PICK n \in DOMAIN q : q[n] = i BY DEF Indices
  <2>2. n \in 2 .. Len(q) BY <1>1, <1>5, <2>1
  <2>3. n - 1 \in 1 .. Len(q) - 1 /\ Tail(q)[n - 1] = i BY <1>1, <2>1, <2>2
  <2> QED BY <1>1, <2>3 DEF Indices
<1>6. Indices(Tail(q)) = Indices(q) \ {Head(q)} BY <1>4, <1>5
<1> QED BY <1>1, <1>2, <1>3, <1>6

LEMMA AppendIndices ==
  ASSUME NEW q \in Seq(Index), NEW i \in Index, IndicesOnce(q), i \notin Indices(q)
  PROVE  /\ Append(q, i) \in Seq(Index) /\ IndicesOnce(Append(q, i))
         /\ Indices(Append(q, i)) = Indices(q) \cup ({i} \ {None})
<1>1. /\ Len(q) \in Nat /\ Append(q, i) \in Seq(Index)
      /\ DOMAIN q = 1 .. Len(q)
      /\ DOMAIN Append(q, i) = 1 .. Len(q) + 1
      /\ \A n \in 1 .. Len(q) : Append(q, i)[n] = q[n]
      /\ Append(q, i)[Len(q) + 1] = i
  OBVIOUS
<1>2. \A n \in DOMAIN q : q[n] \in Index OBVIOUS
<1>3. \A n \in DOMAIN q : q[n] = i => i = None
  BY <1>2 DEF Indices, Index
<1>4. IndicesOnce(Append(q, i)) BY <1>1, <1>3 DEF IndicesOnce
<1>5. ASSUME NEW k \in Indices(Append(q, i))
      PROVE  k \in Indices(q) \cup ({i} \ {None})
  <2>1. PICK n \in 1 .. Len(q) + 1 : Append(q, i)[n] = k BY <1>1 DEF Indices
  <2>2. k \in Nat /\ k # None BY ProcessFacts DEF Indices
  <2>3. CASE n = Len(q) + 1 BY <1>1, <2>1, <2>2, <2>3
  <2>4. CASE n \in 1 .. Len(q) BY <1>1, <2>1, <2>2, <2>4 DEF Indices
  <2> QED BY <1>1, <2>1, <2>3, <2>4
<1>6. ASSUME NEW k \in Indices(q) \cup ({i} \ {None})
      PROVE  k \in Indices(Append(q, i))
  <2>1. CASE k \in Indices(q)
    <3>1. PICK n \in DOMAIN q : q[n] = k BY <2>1 DEF Indices
    <3> QED BY <1>1, <2>1, <3>1 DEF Indices
  <2>2. CASE k = i /\ k # None
    <3>1. k \in Nat BY <2>2 DEF Index
    <3>2. Len(q) + 1 \in DOMAIN Append(q, i) BY <1>1
    <3> QED BY <1>1, <2>2, <3>1, <3>2 DEF Indices
  <2> QED BY <1>6, <2>1, <2>2
<1>7. Indices(Append(q, i)) = Indices(q) \cup ({i} \ {None}) BY <1>5, <1>6
<1> QED BY <1>1, <1>4, <1>7

(* The same for a queue of batches. *)
LEMMA TailBatches ==
  ASSUME NEW S, NEW q \in Seq(S), q # <<>>, BatchesOnce(q),
         \A b \in S : b.idx \in Index
  PROVE  /\ Tail(q) \in Seq(S) /\ BatchesOnce(Tail(q))
         /\ Head(q) \in S /\ Head(q).idx \in Index
         /\ Head(q).idx # None => Head(q).idx \in Batches(q)
         /\ Batches(Tail(q)) = Batches(q) \ {Head(q).idx}
<1>1. /\ Len(q) \in Nat \ {0} /\ Head(q) = q[1] /\ q[1] \in S
      /\ Tail(q) \in Seq(S) /\ DOMAIN Tail(q) = 1 .. Len(q) - 1
      /\ DOMAIN q = 1 .. Len(q)
      /\ \A n \in 1 .. Len(q) - 1 : Tail(q)[n] = q[n + 1]
  OBVIOUS
<1>2. BatchesOnce(Tail(q)) BY <1>1 DEF BatchesOnce
<1>3. Head(q).idx # None => Head(q).idx \in Batches(q)
  BY <1>1 DEF Batches, Index
<1>4. ASSUME NEW i \in Batches(Tail(q)) PROVE i \in Batches(q) \ {Head(q).idx}
  <2>1. PICK n \in 1 .. Len(q) - 1 : Tail(q)[n].idx = i BY <1>1 DEF Batches
  <2>2. n + 1 \in DOMAIN q /\ q[n + 1].idx = i /\ 1 \in DOMAIN q /\ n + 1 # 1
    BY <1>1, <2>1
  <2>3. i \in Nat BY DEF Batches
  <2>4. i # q[1].idx BY <2>2, <2>3, ProcessFacts DEF BatchesOnce
  <2> QED BY <1>1, <2>2, <2>3, <2>4 DEF Batches
<1>5. ASSUME NEW i \in Batches(q), i # Head(q).idx PROVE i \in Batches(Tail(q))
  <2>1. PICK n \in DOMAIN q : q[n].idx = i BY DEF Batches
  <2>2. n \in 2 .. Len(q) BY <1>1, <1>5, <2>1
  <2>3. n - 1 \in 1 .. Len(q) - 1 /\ Tail(q)[n - 1].idx = i BY <1>1, <2>1, <2>2
  <2> QED BY <1>1, <2>3 DEF Batches
<1>6. Batches(Tail(q)) = Batches(q) \ {Head(q).idx} BY <1>4, <1>5
<1> QED BY <1>1, <1>2, <1>3, <1>6

LEMMA AppendBatches ==
  ASSUME NEW S, NEW q \in Seq(S), NEW b \in S, BatchesOnce(q),
         \A c \in S : c.idx \in Index, b.idx \notin Batches(q)
  PROVE  /\ Append(q, b) \in Seq(S) /\ BatchesOnce(Append(q, b))
         /\ Batches(Append(q, b)) = Batches(q) \cup ({b.idx} \ {None})
<1>1. /\ Len(q) \in Nat /\ Append(q, b) \in Seq(S)
      /\ DOMAIN q = 1 .. Len(q)
      /\ DOMAIN Append(q, b) = 1 .. Len(q) + 1
      /\ \A n \in 1 .. Len(q) : Append(q, b)[n] = q[n]
      /\ Append(q, b)[Len(q) + 1] = b
  OBVIOUS
<1>2. \A n \in DOMAIN q : q[n].idx \in Index OBVIOUS
<1>3. \A n \in DOMAIN q : q[n].idx = b.idx => b.idx = None
  BY <1>2 DEF Batches, Index
<1>4. BatchesOnce(Append(q, b)) BY <1>1, <1>3 DEF BatchesOnce
<1>5. ASSUME NEW k \in Batches(Append(q, b))
      PROVE  k \in Batches(q) \cup ({b.idx} \ {None})
  <2>1. PICK n \in 1 .. Len(q) + 1 : Append(q, b)[n].idx = k BY <1>1 DEF Batches
  <2>2. k \in Nat /\ k # None BY ProcessFacts DEF Batches
  <2>3. CASE n = Len(q) + 1 BY <1>1, <2>1, <2>2, <2>3
  <2>4. CASE n \in 1 .. Len(q) BY <1>1, <2>1, <2>2, <2>4 DEF Batches
  <2> QED BY <1>1, <2>1, <2>3, <2>4
<1>6. ASSUME NEW k \in Batches(q) \cup ({b.idx} \ {None})
      PROVE  k \in Batches(Append(q, b))
  <2>1. CASE k \in Batches(q)
    <3>1. PICK n \in DOMAIN q : q[n].idx = k BY <2>1 DEF Batches
    <3> QED BY <1>1, <2>1, <3>1 DEF Batches
  <2>2. CASE k = b.idx /\ k # None
    <3>1. k \in Nat BY <2>2 DEF Index
    <3>2. Len(q) + 1 \in DOMAIN Append(q, b) BY <1>1
    <3> QED BY <1>1, <2>2, <3>1, <3>2 DEF Batches
  <2> QED BY <1>6, <2>1, <2>2
<1>7. Batches(Append(q, b)) = Batches(q) \cup ({b.idx} \ {None}) BY <1>5, <1>6
<1> QED BY <1>1, <1>4, <1>7

-----------------------------------------------------------------------------
(* What _put_indices() does: if there is another batch its index is put    *)
(* into the queue of the worker whose turn it is.                          *)
Fresh(m, q) ==
  \A w \in Workers : IndicesOnce(q[w]) /\ m.send_idx \notin Indices(q[w])

PutResult(m, q, p) ==
  /\ p.m \in Fields /\ p.q \in [Workers -> Seq(Index)]
  /\ \A w \in Workers : IndicesOnce(p.q[w])
  /\ p.m.pc = m.pc /\ p.m.primed = m.primed /\ p.m.rcvd_idx = m.rcvd_idx
  /\ p.m.reorder_dict = m.reorder_dict /\ p.m.shutdown = m.shutdown
  /\ m.send_idx = NumBatches =>
       /\ p.q = q /\ p.m.send_idx = m.send_idx
       /\ p.m.batches_outstanding = m.batches_outstanding
  /\ m.send_idx # NumBatches =>
       /\ p.m.send_idx = m.send_idx + 1
       /\ p.m.batches_outstanding = m.batches_outstanding + 1
       /\ \A w \in Workers : w # m.worker_queue_idx => p.q[w] = q[w]
       /\ Indices(p.q[m.worker_queue_idx])
            = Indices(q[m.worker_queue_idx]) \cup {m.send_idx}

LEMMA PutFacts ==
  ASSUME NEW m \in Fields, NEW q \in [Workers -> Seq(Index)], Fresh(m, q)
  PROVE  PutResult(m, q, PutIndices(m, q))
<1> USE DEF Fresh, PutResult
<1>0. PICK p : p = PutIndices(m, q) OBVIOUS
<1>1. CASE m.send_idx = NumBatches
  <2>1. p = [m |-> m, q |-> q] BY <1>0, <1>1 DEF PutIndices
  <2> QED BY <1>0, <1>1, <2>1
<1>2. CASE m.send_idx # NumBatches
  <2> DEFINE v == m.worker_queue_idx
  <2>1. v \in Workers /\ m.send_idx \in Nat /\ m.batches_outstanding \in Int
    BY DEF Fields
  <2>2. (v + 1) % NumWorkers \in Workers BY <2>1, NextTurn
  <2>3. /\ p.m = [m EXCEPT !.worker_queue_idx = (v + 1) % NumWorkers,
                           !.batches_outstanding = m.batches_outstanding + 1,
                           !.send_idx = m.send_idx + 1]
        /\ p.q = [q EXCEPT ![v] = Append(q[v], m.send_idx)]
    BY <1>0, <1>2 DEF PutIndices
  <2>4. p.m \in Fields
    <3>1. PICK t \in Workers : t = (v + 1) % NumWorkers BY <2>2
    <3>2. PICK o \in Int : o = m.batches_outstanding + 1 BY <2>1
    <3>3. PICK n \in Nat : n = m.send_idx + 1 BY <2>1
    <3>4. p.m = [m EXCEPT !.worker_queue_idx = t, !.batches_outstanding = o,
                          !.send_idx = n]
      BY <2>3, <3>1, <3>2, <3>3
    <3> QED BY <3>4 DEF Fields
  <2>5. m.send_idx \in Index /\ m.send_idx # None BY <2>1, ProcessFacts DEF Index
  <2>6. /\ Append(q[v], m.send_idx) \in Seq(Index)
        /\ IndicesOnce(Append(q[v], m.send_idx))
        /\ Indices(Append(q[v], m.send_idx)) = Indices(q[v]) \cup {m.send_idx}
    <3>1. q[v] \in Seq(Index) BY <2>1
    <3>2. /\ Append(q[v], m.send_idx) \in Seq(Index)
          /\ IndicesOnce(Append(q[v], m.send_idx))
          /\ Indices(Append(q[v], m.send_idx))
               = Indices(q[v]) \cup ({m.send_idx} \ {None})
      BY <2>1, <2>5, <3>1, AppendIndices
    <3> QED BY <3>2, <2>5
  <2>7. /\ p.m.pc = m.pc /\ p.m.primed = m.primed /\ p.m.rcvd_idx = m.rcvd_idx
        /\ p.m.reorder_dict = m.reorder_dict /\ p.m.shutdown = m.shutdown
        /\ p.m.send_idx = m.send_idx + 1
        /\ p.m.batches_outstanding = m.batches_outstanding + 1
    BY <2>3 DEF Fields
  <2>8. /\ p.q \in [Workers -> Seq(Index)]
        /\ p.q[v] = Append(q[v], m.send_idx)
        /\ \A w \in Workers : w # v => p.q[w] = q[w]
    BY <2>1, <2>3, <2>6
  <2>9. \A w \in Workers : IndicesOnce(p.q[w]) BY <2>6, <2>8
  <2> QED BY <1>0, <1>2, <2>4, <2>6, <2>7, <2>8, <2>9
<1> QED BY <1>1, <1>2

(* The places depend on the queues only. *)
LEMMA SamePlaces ==
  /\ index_queue' = index_queue => Asked' = Asked
  /\ buffer' = buffer => Loaded' = Loaded
  /\ result_queue' = result_queue => Sent' = Sent
  /\ data_queue' = data_queue => Pinned' = Pinned
BY DEF Asked, Loaded, Sent, Pinned

(* Batches carry an index, and the messages of the main process do not. *)
LEMMA MessageFacts ==
  /\ \A b \in Batch : b.idx \in Index /\ b.idx \in Nat /\ b.idx # None
                       /\ b.from \in Workers
  /\ \A b \in {NoBatch} : b.idx = None /\ b.idx \in Index
  /\ \A b \in Batch \cup {NoBatch} :
       b.idx \in Index /\ (b.idx # None => b \in Batch)
BY ProcessFacts DEF Batch, NoBatch, Index

(* A step that moves no batch and changes no counter. *)
LEMMA NothingMoves ==
  ASSUME LoaderInv,
         UNCHANGED <<options, index_queue, buffer, result_queue, data_queue>>,
         main' \in Fields,
         main'.send_idx = main.send_idx, main'.rcvd_idx = main.rcvd_idx,
         main'.batches_outstanding = main.batches_outstanding,
         main'.reorder_dict = main.reorder_dict, main'.primed = main.primed,
         done_event' \in BOOLEAN,
         worker' \in [Workers -> {"runs", "exited", "killed"}],
         NoneKilled' /\ ~done_event' => NoneKilled /\ ~done_event,
         main'.pc = "priming" => main.pc = "priming",
         main'.pc \in {"user", "get"} => main.pc \in {"user", "get"},
         main'.pc = "get" => /\ main.rcvd_idx \notin main.reorder_dict
                             /\ main.batches_outstanding > 0,
         main'.pc \in {"priming", "user", "get"} => ~main'.shutdown
  PROVE  LoaderInv'
<1>1. LoaderType' BY DEF LoaderInv, LoaderType
<1>2. Counters' BY DEF LoaderInv, Counters
<1>3. /\ Asked' = Asked /\ Loaded' = Loaded /\ Sent' = Sent /\ Pinned' = Pinned
      /\ Pending' = Pending
  BY SamePlaces DEF Pending
<1>4. QueuesOnce' BY DEF LoaderInv, PlacesInv, QueuesOnce
<1>5. Apart' BY <1>3 DEF LoaderInv, PlacesInv, Apart
<1>6. OnlyPending' BY <1>3 DEF LoaderInv, PlacesInv, OnlyPending
<1>7. NoneLost' BY <1>3 DEF LoaderInv, PlacesInv, NoneLost, Somewhere
<1> QED BY <1>1, <1>2, <1>4, <1>5, <1>6, <1>7 DEF LoaderInv, PlacesInv

(* The program counter changes, and perhaps shutdown is set. *)
LEMMA PcFacts ==
  ASSUME main \in Fields, NEW where, NEW b \in BOOLEAN,
         where \in {"priming", "user", "get", "done", "killed"} \cup Stopping,
         main' = [main EXCEPT !.pc = where, !.shutdown = b]
  PROVE  /\ main' \in Fields /\ main'.pc = where /\ main'.shutdown = b
         /\ main'.send_idx = main.send_idx /\ main'.rcvd_idx = main.rcvd_idx
         /\ main'.batches_outstanding = main.batches_outstanding
         /\ main'.reorder_dict = main.reorder_dict /\ main'.primed = main.primed
BY DEF Fields

LEMMA GotoFacts ==
  ASSUME main \in Fields, NEW where,
         where \in {"priming", "user", "get", "done", "killed"} \cup Stopping,
         Goto(where)
  PROVE  /\ main' \in Fields /\ main'.pc = where /\ main'.shutdown = main.shutdown
         /\ main'.send_idx = main.send_idx /\ main'.rcvd_idx = main.rcvd_idx
         /\ main'.batches_outstanding = main.batches_outstanding
         /\ main'.reorder_dict = main.reorder_dict /\ main'.primed = main.primed
BY DEF Fields, Goto

(* __next__() stops, waits or gives up, and __del__(). *)
LEMMA CallerStep ==
  ASSUME LoaderInv, NextStops \/ NextWaits \/ TimeOut \/ Delete
  PROVE  LoaderInv'
<1>0. main \in Fields /\ main.batches_outstanding \in Int
  BY DEF LoaderInv, LoaderType, Fields
<1>1. /\ UNCHANGED <<options, index_queue, buffer, result_queue, data_queue>>
      /\ UNCHANGED <<done_event, worker>>
  BY DEF NextStops, NextWaits, TimeOut, Delete, processes, channels
<1>2. main.pc \in {"user", "get"} /\ ~main.shutdown
  BY DEF LoaderInv, Counters, NextStops, NextWaits, TimeOut, Delete
<1>3. /\ done_event' \in BOOLEAN
      /\ worker' \in [Workers -> {"runs", "exited", "killed"}]
      /\ NoneKilled' /\ ~done_event' => NoneKilled /\ ~done_event
  BY <1>1 DEF LoaderInv, LoaderType, NoneKilled
<1>4. CASE NextStops \/ Delete
  <2>1. Goto("shutdown") BY <1>4 DEF NextStops, Delete
  <2> QED BY <1>0, <1>1, <1>2, <1>3, <2>1, GotoFacts, NothingMoves DEF Stopping
<1>5. CASE NextWaits
  <2>1. /\ Goto("get") /\ main.rcvd_idx \notin main.reorder_dict
        /\ main.batches_outstanding > 0
    BY <1>5 DEF NextWaits
  <2> QED BY <1>0, <1>1, <1>2, <1>3, <2>1, GotoFacts, NothingMoves
<1>6. CASE TimeOut
  <2>1. Goto("user") BY <1>6 DEF TimeOut
  <2> QED BY <1>0, <1>1, <1>2, <1>3, <2>1, GotoFacts, NothingMoves
<1> QED BY <1>4, <1>5, <1>6

(* The end of _shutdown_workers(), and the SIGCHLD handler. *)
LEMMA InterruptStep ==
  ASSUME LoaderInv, Joined \/ Interrupt
  PROVE  LoaderInv'
<1>0. main \in Fields /\ main.shutdown \in BOOLEAN
  BY DEF LoaderInv, LoaderType, Fields
<1>1. /\ UNCHANGED <<options, index_queue, buffer, result_queue, data_queue>>
      /\ UNCHANGED <<done_event, worker>>
  BY DEF Joined, Interrupt, processes, channels
<1>3. /\ done_event' \in BOOLEAN
      /\ worker' \in [Workers -> {"runs", "exited", "killed"}]
      /\ NoneKilled' /\ ~done_event' => NoneKilled /\ ~done_event
  BY <1>1 DEF LoaderInv, LoaderType, NoneKilled
<1>4. CASE Goto("done") \/ Goto("shutdown")
  BY <1>0, <1>1, <1>3, <1>4, GotoFacts, NothingMoves DEF Stopping
<1>5. CASE main' = [main EXCEPT !.pc = "done", !.shutdown = TRUE]
  BY <1>0, <1>1, <1>3, <1>5, PcFacts, NothingMoves
<1>6. CASE main.pc \in {"user", "get"} /\ Goto("user")
  <2>1. ~main.shutdown BY <1>6 DEF LoaderInv, Counters
  <2> QED BY <1>0, <1>1, <1>3, <1>6, <2>1, GotoFacts, NothingMoves
<1> QED BY <1>4, <1>5, <1>6 DEF Joined, Interrupt

(* Processes are killed, and workers notice that the main process is. *)
LEMMA FaultStep ==
  ASSUME LoaderInv,
         KillMain \/ \E w \in Workers : WatchdogExit(w) \/ Kill(w)
  PROVE  LoaderInv'
<1>0. main \in Fields /\ main.shutdown \in BOOLEAN
  BY DEF LoaderInv, LoaderType, Fields
<1>1. UNCHANGED <<options, index_queue, buffer, result_queue, data_queue, done_event>>
  BY DEF KillMain, WatchdogExit, Kill, channels
<1>2. CASE KillMain
  <2>1. Goto("killed") /\ worker' = worker BY <1>2 DEF KillMain
  <2>2. /\ done_event' \in BOOLEAN
        /\ worker' \in [Workers -> {"runs", "exited", "killed"}]
        /\ NoneKilled' /\ ~done_event' => NoneKilled /\ ~done_event
    BY <1>1, <2>1 DEF LoaderInv, LoaderType, NoneKilled
  <2> QED BY <1>0, <1>1, <2>1, <2>2, GotoFacts, NothingMoves
<1>3. CASE \E w \in Workers : WatchdogExit(w) \/ Kill(w)
  <2>1. PICK w \in Workers : WatchdogExit(w) \/ Kill(w) BY <1>3
  <2>2. /\ worker[w] = "runs" /\ main' = main
        /\ \E d \in {"exited", "killed"} : worker' = [worker EXCEPT ![w] = d]
    BY <2>1 DEF WatchdogExit, Kill
  <2>3. /\ done_event' \in BOOLEAN
        /\ worker' \in [Workers -> {"runs", "exited", "killed"}]
        /\ NoneKilled' /\ ~done_event' => NoneKilled /\ ~done_event
    BY <1>1, <2>2 DEF LoaderInv, LoaderType, NoneKilled
  <2>4. /\ main.pc = "get" => /\ main.rcvd_idx \notin main.reorder_dict
                              /\ main.batches_outstanding > 0
        /\ main.pc \in {"priming", "user", "get"} => ~main.shutdown
    BY DEF LoaderInv, Counters
  <2> QED BY <1>0, <1>1, <2>2, <2>3, <2>4, NothingMoves
<1> QED BY <1>2, <1>3

-----------------------------------------------------------------------------
(* _worker_loop(): an index leaves the worker's queue, and its batch enters *)
(* the buffer unless the loop is ending.                                    *)
LEMMA WorkerGetsStep ==
  ASSUME LoaderInv, NEW w \in Workers, WorkerGets(w)
  PROVE  LoaderInv'
<1> USE DEF LoaderInv, PlacesInv
<1>1. PICK r : r = Head(index_queue[w]) OBVIOUS
<1>2. /\ worker[w] = "runs" /\ index_queue[w] # <<>>
      /\ index_queue' = [index_queue EXCEPT ![w] = Tail(index_queue[w])]
      /\ UNCHANGED <<options, main, done_event, result_queue, data_queue>>
  BY DEF WorkerGets
<1>3. \/ r = None /\ worker' = [worker EXCEPT ![w] = "exited"] /\ UNCHANGED buffer
      \/ r # None /\ done_event /\ UNCHANGED <<worker, buffer>>
      \/ /\ r # None /\ UNCHANGED worker
         /\ buffer' = [buffer EXCEPT ![w] =
                         Append(buffer[w], [idx |-> r, from |-> w])]
  BY <1>1 DEF WorkerGets
<1>4. index_queue[w] \in Seq(Index) /\ IndicesOnce(index_queue[w])
  BY DEF LoaderType, QueuesOnce
<1>5. /\ Tail(index_queue[w]) \in Seq(Index) /\ IndicesOnce(Tail(index_queue[w]))
      /\ r \in Index /\ (r # None => r \in Asked[w])
      /\ Indices(Tail(index_queue[w])) = Asked[w] \ {r}
  BY <1>1, <1>2, <1>4, TailIndices DEF Asked
<1>6. /\ index_queue' \in [Workers -> Seq(Index)]
      /\ \A v \in Workers : IndicesOnce(index_queue'[v])
      /\ \A v \in Workers : v # w => Asked'[v] = Asked[v]
      /\ Asked'[w] = Asked[w] \ {r}
  BY <1>2, <1>5 DEF LoaderType, QueuesOnce, Asked
<1>7. /\ NoneKilled' => NoneKilled
      /\ worker' \in [Workers -> {"runs", "exited", "killed"}]
  BY <1>2, <1>3 DEF LoaderType, NoneKilled
<1>8. Sent' = Sent /\ Pinned' = Pinned /\ Pending' = Pending /\ Counters'
  BY <1>2, SamePlaces DEF Counters, Pending
<1>9. None \notin Asked[w] BY ProcessFacts DEF Asked, Indices
<1>10. CASE UNCHANGED buffer
  <2>1. Loaded' = Loaded BY <1>10, SamePlaces
  <2>2. LoaderType' BY <1>2, <1>6, <1>7, <1>10 DEF LoaderType
  <2>3. QueuesOnce' BY <1>2, <1>6, <1>10 DEF QueuesOnce
  <2>4. Apart' BY <1>2, <1>6, <1>8, <2>1 DEF Apart
  <2>5. OnlyPending' BY <1>2, <1>6, <1>8, <2>1 DEF OnlyPending
  <2>6. NoneLost'
    <3>1. CASE done_event BY <3>1, <1>2 DEF NoneLost
    <3>2. CASE ~done_event
      <4>1. r = None \/ buffer' = [buffer EXCEPT ![w] =
                                    Append(buffer[w], [idx |-> r, from |-> w])]
        BY <1>3, <3>2
      <4>2. r = None
        <5>1. SUFFICES ASSUME r # None PROVE FALSE OBVIOUS
        <5>2. buffer[w] \in Seq(Batch) /\ r \in Nat /\ w \in DOMAIN buffer
          BY <1>5, <5>1 DEF LoaderType, Index
        <5>3. [idx |-> r, from |-> w] \in Batch BY <5>2 DEF Batch
        <5>4. Append(buffer[w], [idx |-> r, from |-> w]) # buffer[w]
          BY <5>2, <5>3
        <5> QED BY <4>1, <5>1, <5>2, <5>4, <1>10
      <4>3. Asked'[w] = Asked[w] BY <4>2, <1>6, <1>9
      <4> QED BY <1>2, <1>6, <1>7, <1>8, <2>1, <4>3 DEF NoneLost, Somewhere
    <3> QED BY <3>1, <3>2 DEF LoaderType
  <2> QED BY <1>8, <2>2, <2>3, <2>4, <2>5, <2>6
<1>11. CASE ~UNCHANGED buffer
  <2>1. /\ r # None /\ UNCHANGED worker
        /\ buffer' = [buffer EXCEPT ![w] =
                        Append(buffer[w], [idx |-> r, from |-> w])]
    BY <1>3, <1>11
  <2>2. PICK b \in Batch : b = [idx |-> r, from |-> w] /\ b.idx = r
    BY <1>5, <2>1 DEF Index, Batch
  <2>3. /\ buffer[w] \in Seq(Batch) /\ BatchesOnce(buffer[w])
        /\ r \notin Batches(buffer[w]) /\ r \notin {None}
    BY <1>5, <2>1 DEF LoaderType, QueuesOnce, Apart, Loaded
  <2>4. /\ Append(buffer[w], b) \in Seq(Batch) /\ BatchesOnce(Append(buffer[w], b))
        /\ Batches(Append(buffer[w], b)) = Batches(buffer[w]) \cup ({r} \ {None})
    BY <2>2, <2>3, MessageFacts, AppendBatches
  <2>5. /\ DOMAIN buffer' = Workers \cup {Main} /\ buffer'[Main] = buffer[Main]
        /\ buffer'[w] = Append(buffer[w], b)
        /\ \A v \in Workers : v # w => buffer'[v] = buffer[v]
    BY <2>1, <2>2, ProcessFacts DEF LoaderType
  <2>6. /\ \A v \in Workers : v # w => Loaded'[v] = Loaded[v]
        /\ Loaded'[w] = Loaded[w] \cup {r}
    BY <2>3, <2>4, <2>5 DEF Loaded
  <2>7. LoaderType' BY <1>2, <1>6, <1>7, <2>4, <2>5 DEF LoaderType
  <2>8. QueuesOnce' BY <1>2, <1>6, <2>4, <2>5 DEF QueuesOnce
  <2>9. Apart'
    <3>1. /\ r \in Asked[w] /\ r \notin Sent /\ r \notin Pinned
          /\ r \notin main.reorder_dict
          /\ \A v \in Workers : r \notin Loaded[v] /\ (v # w => r \notin Asked[v])
      BY <1>5, <2>1 DEF Apart
    <3>2. ASSUME NEW v \in Workers, NEW u \in Workers
          PROVE  /\ v # u => /\ Asked'[v] \cap Asked'[u] = {}
                             /\ Loaded'[v] \cap Loaded'[u] = {}
                 /\ Asked'[v] \cap Loaded'[u] = {}
      <4>1. /\ v # u => Asked[v] \cap Asked[u] = {} /\ Loaded[v] \cap Loaded[u] = {}
            /\ Asked[v] \cap Loaded[u] = {}
        BY DEF Apart
      <4>2. Asked'[v] \subseteq Asked[v] /\ Asked'[u] \subseteq Asked[u] BY <1>6
      <4>3. r \notin Asked'[v] BY <1>6, <3>1
      <4>4. v # w => Loaded'[v] = Loaded[v] BY <2>6
      <4>5. u # w => Loaded'[u] = Loaded[u] BY <2>6
      <4>6. Loaded'[v] \subseteq Loaded[v] \cup {r}
        BY <2>6, <4>4
      <4>7. Loaded'[u] \subseteq Loaded[u] \cup {r}
        BY <2>6, <4>5
      <4>8. v # u => Loaded'[v] = Loaded[v] \/ Loaded'[u] = Loaded[u]
        BY <4>4, <4>5
      <4> QED BY <3>1, <4>1, <4>2, <4>3, <4>6, <4>7, <4>8
    <3>3. ASSUME NEW v \in Workers
          PROVE  /\ Asked'[v] \cap Sent' = {} /\ Loaded'[v] \cap Sent' = {}
                 /\ Asked'[v] \cap Pinned' = {} /\ Loaded'[v] \cap Pinned' = {}
                 /\ Asked'[v] \cap main'.reorder_dict = {}
                 /\ Loaded'[v] \cap main'.reorder_dict = {}
      <4>1. Asked'[v] \subseteq Asked[v] /\ Loaded'[v] \subseteq Loaded[v] \cup {r}
        BY <1>6, <2>6
      <4> QED BY <1>2, <1>8, <3>1, <4>1 DEF Apart
    <3> QED BY <1>2, <1>8, <3>2, <3>3 DEF Apart
  <2>10. OnlyPending' BY <1>2, <1>5, <1>6, <1>8, <2>1, <2>6 DEF OnlyPending
  <2>11. NoneLost' BY <1>2, <1>6, <1>7, <1>8, <2>6 DEF NoneLost, Somewhere
  <2> QED BY <1>8, <2>7, <2>8, <2>9, <2>10, <2>11
<1> QED BY <1>10, <1>11

(* The feeder thread of a worker. *)
LEMMA WorkerFeederStep ==
  ASSUME LoaderInv, NEW w \in Workers, FeederWrites(w)
  PROVE  LoaderInv'
<1> USE DEF LoaderInv, PlacesInv
<1>1. /\ buffer[w] # <<>>
      /\ result_queue' = Append(result_queue, Head(buffer[w]))
      /\ buffer' = [buffer EXCEPT ![w] = Tail(buffer[w])]
      /\ UNCHANGED <<options, main, done_event, index_queue, worker, data_queue>>
  BY DEF FeederWrites, processes
<1>2. PICK b : b = Head(buffer[w]) OBVIOUS
<1>3. buffer[w] \in Seq(Batch) /\ BatchesOnce(buffer[w])
  BY DEF LoaderType, QueuesOnce
<1>4. /\ Tail(buffer[w]) \in Seq(Batch) /\ BatchesOnce(Tail(buffer[w]))
      /\ b \in Batch /\ b.idx \in Nat /\ b.idx # None /\ b.idx \in Loaded[w]
      /\ Batches(Tail(buffer[w])) = Loaded[w] \ {b.idx}
  BY <1>1, <1>2, <1>3, MessageFacts, TailBatches DEF Loaded
<1>5. b.idx \notin Batches(result_queue) BY <1>4 DEF Apart, Sent
<1>6. /\ BatchesOnce(result_queue')
      /\ result_queue' \in Seq(Batch \cup {NoBatch})
      /\ Sent' = Sent \cup {b.idx}
  <2>1. /\ result_queue \in Seq(Batch \cup {NoBatch}) /\ BatchesOnce(result_queue)
        /\ b \in Batch \cup {NoBatch}
    BY <1>4 DEF LoaderType, QueuesOnce
  <2>2. /\ Append(result_queue, b) \in Seq(Batch \cup {NoBatch})
        /\ BatchesOnce(Append(result_queue, b))
        /\ Batches(Append(result_queue, b))
             = Batches(result_queue) \cup ({b.idx} \ {None})
    BY <1>5, <2>1, MessageFacts, AppendBatches
  <2> QED BY <1>1, <1>2, <1>4, <2>2 DEF Sent
<1>7. result_queue \in Seq(Batch) => result_queue' \in Seq(Batch)
  BY <1>1, <1>2, <1>4
<1>8. /\ DOMAIN buffer' = Workers \cup {Main} /\ buffer'[Main] = buffer[Main]
      /\ buffer'[w] = Tail(buffer[w])
      /\ \A v \in Workers : v # w => buffer'[v] = buffer[v]
  BY <1>1, ProcessFacts DEF LoaderType
<1>9. /\ \A v \in Workers : v # w => Loaded'[v] = Loaded[v]
      /\ Loaded'[w] = Loaded[w] \ {b.idx}
  BY <1>4, <1>8 DEF Loaded
<1>10. Asked' = Asked /\ Pinned' = Pinned /\ Pending' = Pending /\ Counters'
  BY <1>1, SamePlaces DEF Counters, Pending
<1>11. LoaderType' BY <1>1, <1>4, <1>6, <1>7, <1>8 DEF LoaderType
<1>12. QueuesOnce' BY <1>1, <1>4, <1>6, <1>8 DEF QueuesOnce
<1>13. Apart'
  <2>1. /\ b.idx \notin Pinned /\ b.idx \notin main.reorder_dict
        /\ \A v \in Workers : /\ b.idx \notin Asked[v]
                               /\ b.idx \notin Loaded'[v]
                               /\ Loaded'[v] \subseteq Loaded[v]
    BY <1>4, <1>9 DEF Apart
  <2> QED BY <1>1, <1>6, <1>10, <2>1 DEF Apart
<1>14. OnlyPending' BY <1>1, <1>4, <1>6, <1>9, <1>10 DEF OnlyPending
<1>15. NoneLost' BY <1>1, <1>6, <1>9, <1>10 DEF NoneLost, NoneKilled, Somewhere
<1> QED BY <1>10, <1>11, <1>12, <1>13, <1>14, <1>15

(* The feeder thread of the main process sends None. *)
LEMMA MainFeederStep ==
  ASSUME LoaderInv, FeederWrites(Main)
  PROVE  LoaderInv'
<1> USE DEF LoaderInv, PlacesInv
<1>1. /\ buffer[Main] # <<>>
      /\ result_queue' = Append(result_queue, Head(buffer[Main]))
      /\ buffer' = [buffer EXCEPT ![Main] = Tail(buffer[Main])]
      /\ UNCHANGED <<options, main, done_event, index_queue, worker, data_queue>>
  BY DEF FeederWrites, processes
<1>2. /\ buffer[Main] \in Seq({NoBatch}) /\ options.pin_memory
      /\ Head(buffer[Main]) = NoBatch /\ Tail(buffer[Main]) \in Seq({NoBatch})
  BY <1>1 DEF LoaderType
<1>3. /\ BatchesOnce(result_queue')
      /\ result_queue' \in Seq(Batch \cup {NoBatch})
      /\ Sent' = Sent
  <2>1. /\ result_queue \in Seq(Batch \cup {NoBatch}) /\ BatchesOnce(result_queue)
        /\ NoBatch \in Batch \cup {NoBatch} /\ NoBatch.idx = None
    BY MessageFacts DEF LoaderType, QueuesOnce
  <2>2. None \notin Batches(result_queue) BY ProcessFacts DEF Batches
  <2>3. /\ Append(result_queue, NoBatch) \in Seq(Batch \cup {NoBatch})
        /\ BatchesOnce(Append(result_queue, NoBatch))
        /\ Batches(Append(result_queue, NoBatch))
             = Batches(result_queue) \cup ({NoBatch.idx} \ {None})
    BY <2>1, <2>2, MessageFacts, AppendBatches
  <2> QED BY <1>1, <1>2, <2>1, <2>3 DEF Sent
<1>4. /\ DOMAIN buffer' = Workers \cup {Main}
      /\ buffer'[Main] = Tail(buffer[Main])
      /\ \A v \in Workers : buffer'[v] = buffer[v]
  BY <1>1, ProcessFacts DEF LoaderType
<1>5. Loaded' = Loaded BY <1>4 DEF Loaded
<1>6. Asked' = Asked /\ Pinned' = Pinned /\ Pending' = Pending /\ Counters'
  BY <1>1, SamePlaces DEF Counters, Pending
<1>7. LoaderType' BY <1>1, <1>2, <1>3, <1>4 DEF LoaderType
<1>8. QueuesOnce' BY <1>1, <1>3, <1>4 DEF QueuesOnce
<1>9. Apart' BY <1>1, <1>3, <1>5, <1>6 DEF Apart
<1>10. OnlyPending' BY <1>1, <1>3, <1>5, <1>6 DEF OnlyPending
<1>11. NoneLost' BY <1>1, <1>3, <1>5, <1>6 DEF NoneLost, NoneKilled, Somewhere
<1> QED BY <1>6, <1>7, <1>8, <1>9, <1>10, <1>11

(* _pin_memory_loop(): a batch goes on to the data queue, unless the loop  *)
(* is ending or the batch cannot be rebuilt.                               *)
LEMMA PinThreadStep ==
  ASSUME LoaderInv, PinThreadGets
  PROVE  LoaderInv'
<1> USE DEF LoaderInv, PlacesInv
<1>1. PICK r : r = Head(result_queue) OBVIOUS
<1>2. /\ result_queue # <<>> /\ result_queue' = Tail(result_queue)
      /\ UNCHANGED <<options, main, done_event, index_queue, worker, buffer>>
  BY DEF PinThreadGets
<1>3. \/ UNCHANGED data_queue /\ (r.idx = None \/ done_event)
      \/ UNCHANGED data_queue /\ r.idx # None /\ worker[r.from] = "killed"
      \/ data_queue' = Append(data_queue, r) /\ r.idx # None
  BY <1>1 DEF PinThreadGets
<1>4. /\ result_queue \in Seq(Batch \cup {NoBatch}) /\ BatchesOnce(result_queue)
      /\ data_queue \in Seq(Batch) /\ BatchesOnce(data_queue)
  BY DEF LoaderType, QueuesOnce
<1>5. /\ result_queue' \in Seq(Batch \cup {NoBatch}) /\ BatchesOnce(result_queue')
      /\ r \in Batch \cup {NoBatch} /\ (r.idx # None => r.idx \in Sent)
      /\ Sent' = Sent \ {r.idx}
  BY <1>1, <1>2, <1>4, MessageFacts, TailBatches DEF Sent
<1>6. result_queue \in Seq(Batch) => result_queue' \in Seq(Batch) BY <1>2
<1>7. /\ Asked' = Asked /\ Loaded' = Loaded /\ Pending' = Pending /\ Counters'
      /\ NoneKilled' <=> NoneKilled
  BY <1>2, SamePlaces DEF Counters, Pending, NoneKilled
<1>8. r.idx # None => r \in Batch BY <1>5, MessageFacts
<1>9. CASE UNCHANGED data_queue
  <2>1. Pinned' = Pinned BY <1>9, SamePlaces
  <2>2. LoaderType' BY <1>2, <1>5, <1>6, <1>9 DEF LoaderType
  <2>3. QueuesOnce' BY <1>2, <1>5, <1>9 DEF QueuesOnce
  <2>4. Apart' BY <1>2, <1>5, <1>7, <2>1 DEF Apart
  <2>5. OnlyPending' BY <1>2, <1>5, <1>7, <2>1 DEF OnlyPending
  <2>6. NoneLost'
    <3>1. None \notin Sent BY ProcessFacts DEF Sent, Batches
    <3>2. CASE r.idx = None
      <4>1. Sent' = Sent BY <1>5, <3>1, <3>2
      <4> QED BY <1>2, <1>7, <2>1, <4>1 DEF NoneLost, Somewhere
    <3>3. CASE done_event BY <1>2, <3>3 DEF NoneLost
    <3>4. CASE r.idx # None /\ worker[r.from] = "killed"
      <4>1. r.from \in Workers BY <1>8, <3>4, MessageFacts
      <4>2. ~NoneKilled BY <3>4, <4>1 DEF NoneKilled
      <4> QED BY <1>7, <4>2 DEF NoneLost
    <3>5. CASE data_queue' = Append(data_queue, r) /\ r.idx # None
      BY <1>4, <1>8, <1>9, <3>5
    <3> QED BY <1>3, <3>2, <3>3, <3>4, <3>5
  <2> QED BY <1>7, <2>2, <2>3, <2>4, <2>5, <2>6
<1>10. CASE data_queue' = Append(data_queue, r) /\ r.idx # None
  <2>1. r.idx \in Sent /\ r \in Batch /\ r.idx \notin Batches(data_queue)
    BY <1>5, <1>8, <1>10 DEF Apart, Pinned
  <2>2. /\ data_queue' \in Seq(Batch) /\ BatchesOnce(data_queue')
        /\ Batches(data_queue') = Batches(data_queue) \cup ({r.idx} \ {None})
    BY <1>4, <1>10, <2>1, MessageFacts, AppendBatches
  <2>3. Pinned' = Pinned \cup {r.idx} BY <1>10, <2>2 DEF Pinned
  <2>4. LoaderType' BY <1>2, <1>5, <1>6, <2>2 DEF LoaderType
  <2>5. QueuesOnce' BY <1>2, <1>5, <2>2 DEF QueuesOnce
  <2>6. Apart'
    <3>1. /\ r.idx \notin Sent' /\ r.idx \notin main.reorder_dict
          /\ \A w \in Workers : r.idx \notin Asked[w] /\ r.idx \notin Loaded[w]
      BY <1>5, <2>1 DEF Apart
    <3> QED BY <1>2, <1>5, <1>7, <2>3, <3>1 DEF Apart
  <2>7. OnlyPending' BY <1>2, <1>5, <1>7, <2>1, <2>3 DEF OnlyPending
  <2>8. NoneLost' BY <1>2, <1>5, <1>7, <2>3 DEF NoneLost, Somewhere
  <2> QED BY <1>7, <2>4, <2>5, <2>6, <2>7, <2>8
<1> QED BY <1>3, <1>9, <1>10

-----------------------------------------------------------------------------
(* The main thread takes a batch from the queue it reads. *)
LEMMA TakeFacts ==
  ASSUME LoaderInv, Source # <<>>, TakeFromSource, UNCHANGED options
  PROVE  /\ Head(Source) \in Batch /\ Head(Source).idx \in Nat
         /\ Head(Source).idx \in Sent \cup Pinned
         /\ Sent' = Sent \ {Head(Source).idx}
         /\ Pinned' = Pinned \ {Head(Source).idx}
         /\ BatchesOnce(result_queue') /\ BatchesOnce(data_queue')
         /\ buffer' = buffer /\ data_queue' \in Seq(Batch)
         /\ result_queue' \in Seq(Batch \cup {NoBatch})
         /\ ~options.pin_memory => result_queue' \in Seq(Batch)
<1> USE DEF LoaderInv, PlacesInv
<1>1. PICK b : b = Head(Source) OBVIOUS
<1>2. /\ result_queue \in Seq(Batch \cup {NoBatch}) /\ BatchesOnce(result_queue)
      /\ data_queue \in Seq(Batch) /\ BatchesOnce(data_queue)
      /\ ~options.pin_memory => result_queue \in Seq(Batch)
      /\ Sent \cap Pinned = {}
  BY DEF LoaderType, QueuesOnce, Apart
<1>3. CASE options.pin_memory
  <2>1. /\ Source = data_queue /\ data_queue' = Tail(data_queue)
        /\ UNCHANGED <<buffer, result_queue>>
    BY <1>3 DEF Source, TakeFromSource, channels
  <2>2. /\ data_queue' \in Seq(Batch) /\ BatchesOnce(data_queue')
        /\ b \in Batch /\ b.idx \in Nat /\ b.idx \in Pinned
        /\ Pinned' = Pinned \ {b.idx}
    BY <1>1, <1>2, <2>1, MessageFacts, TailBatches DEF Pinned
  <2>3. Sent' = Sent \ {b.idx} BY <1>2, <2>1, <2>2, SamePlaces
  <2> QED BY <1>1, <1>2, <1>3, <2>1, <2>2, <2>3
<1>4. CASE ~options.pin_memory
  <2>1. /\ Source = result_queue /\ result_queue' = Tail(result_queue)
        /\ UNCHANGED <<buffer, data_queue>>
    BY <1>4 DEF Source, TakeFromSource
  <2>2. /\ result_queue' \in Seq(Batch) /\ BatchesOnce(result_queue')
        /\ b \in Batch /\ b.idx \in Nat /\ b.idx \in Sent
        /\ Sent' = Sent \ {b.idx}
    BY <1>1, <1>2, <1>4, <2>1, MessageFacts, TailBatches DEF Sent
  <2>3. Pinned' = Pinned \ {b.idx} BY <1>2, <2>1, <2>2, SamePlaces
  <2>4. result_queue' \in Seq(Batch \cup {NoBatch}) BY <1>2, <2>1
  <2> QED BY <1>1, <1>2, <1>4, <2>1, <2>2, <2>3, <2>4
<1> QED BY <1>3, <1>4

(* The batches of R leave, and _put_indices() asks for another one. *)
Leave(R, m) ==
  /\ m.send_idx = main.send_idx /\ m.rcvd_idx <= m.send_idx
  /\ m.rcvd_idx .. m.send_idx - 1 = Pending \ R
  /\ m.reorder_dict = main.reorder_dict \ R
  /\ \A w \in Workers : Asked[w] \cap R = {} /\ Loaded[w] \cap R = {}
  /\ Sent' = Sent \ R /\ Pinned' = Pinned \ R /\ Loaded' = Loaded
  /\ UNCHANGED <<worker, done_event>>

MainAfterPut(m) ==
  /\ main' \in Fields /\ main'.pc = m.pc /\ main'.primed = m.primed
  /\ main'.rcvd_idx = m.rcvd_idx /\ main'.shutdown = m.shutdown
  /\ main'.reorder_dict = m.reorder_dict
  /\ \/ /\ m.send_idx = NumBatches /\ main'.send_idx = m.send_idx
        /\ main'.batches_outstanding = m.batches_outstanding
     \/ /\ m.send_idx # NumBatches /\ main'.send_idx = m.send_idx + 1
        /\ main'.batches_outstanding = m.batches_outstanding + 1

LEMMA PutStep ==
  ASSUME LoaderInv, NEW R, NEW m \in Fields, Leave(R, m),
         main' = PutIndices(m, index_queue).m,
         index_queue' = PutIndices(m, index_queue).q
  PROVE  /\ Apart' /\ OnlyPending' /\ NoneLost'
         /\ index_queue' \in [Workers -> Seq(Index)]
         /\ \A w \in Workers : IndicesOnce(index_queue'[w])
         /\ MainAfterPut(m)
<1> USE DEF LoaderInv, PlacesInv, Leave, MainAfterPut
<1>1. PICK n : n = m.send_idx OBVIOUS
<1>2. n \in Nat /\ m.rcvd_idx \in Nat /\ n \notin Pending
  BY <1>1 DEF Fields, Pending
<1>3. /\ n \notin Sent /\ n \notin Pinned /\ n \notin main.reorder_dict
      /\ \A w \in Workers : n \notin Asked[w] /\ n \notin Loaded[w]
  BY <1>2 DEF OnlyPending
<1>4. /\ index_queue \in [Workers -> Seq(Index)]
      /\ \A w \in Workers :
           IndicesOnce(index_queue[w]) /\ m.send_idx \notin Indices(index_queue[w])
  BY <1>1, <1>3 DEF LoaderType, QueuesOnce, Asked
<1>5. PICK p : p = PutIndices(m, index_queue) OBVIOUS
<1>6. main' = p.m /\ index_queue' = p.q BY <1>5
<1>7. PICK v \in Workers : v = m.worker_queue_idx BY DEF Fields
<1>8. /\ main' \in Fields /\ index_queue' \in [Workers -> Seq(Index)]
      /\ \A w \in Workers : IndicesOnce(index_queue'[w])
      /\ main'.pc = m.pc /\ main'.primed = m.primed
      /\ main'.rcvd_idx = m.rcvd_idx /\ main'.shutdown = m.shutdown
      /\ main'.reorder_dict = m.reorder_dict
      /\ n = NumBatches =>
           /\ index_queue' = index_queue /\ main'.send_idx = n
           /\ main'.batches_outstanding = m.batches_outstanding
      /\ n # NumBatches =>
           /\ main'.send_idx = n + 1
           /\ main'.batches_outstanding = m.batches_outstanding + 1
           /\ \A w \in Workers : w # v => index_queue'[w] = index_queue[w]
           /\ Indices(index_queue'[v]) = Indices(index_queue[v]) \cup {n}
  <2>1. Fresh(m, index_queue) BY <1>4 DEF Fresh
  <2>2. PutResult(m, index_queue, p) BY <1>4, <1>5, <2>1, PutFacts
  <2> QED BY <1>1, <1>6, <1>7, <2>2 DEF PutResult
<1>9. NoneKilled' <=> NoneKilled BY DEF NoneKilled
<1>10. CASE n = NumBatches
  <2>1. Asked' = Asked /\ Pending' = Pending \ R
    BY <1>1, <1>8, <1>10, SamePlaces DEF Pending
  <2>2. Apart' BY <1>8, <2>1 DEF Apart
  <2>3. OnlyPending' BY <1>8, <2>1 DEF OnlyPending
  <2>4. NoneLost' BY <1>8, <1>9, <2>1 DEF NoneLost, Somewhere
  <2> QED BY <1>1, <1>8, <1>10, <2>2, <2>3, <2>4
<1>11. CASE n # NumBatches
  <2>1. /\ \A w \in Workers : w # v => Asked'[w] = Asked[w]
        /\ Asked'[v] = Asked[v] \cup {n}
    BY <1>8, <1>11 DEF Asked
  <2>2. Pending' = (Pending \ R) \cup {n}
    <3>1. Pending' = m.rcvd_idx .. n BY <1>2, <1>8, <1>11 DEF Pending
    <3>2. m.rcvd_idx .. n = (m.rcvd_idx .. n - 1) \cup {n} BY <1>1, <1>2
    <3> QED BY <1>1, <3>1, <3>2
  <2>3. Apart'
    <3>1. \A w, u \in Workers : Asked'[w] \cap Loaded[u] = {}
      BY <1>3, <2>1 DEF Apart
    <3>2. \A w, u \in Workers : w # u => Asked'[w] \cap Asked'[u] = {}
      <4>1. SUFFICES ASSUME NEW w \in Workers, NEW u \in Workers, w # u
                     PROVE  Asked'[w] \cap Asked'[u] = {}
        OBVIOUS
      <4>2. Asked[w] \cap Asked[u] = {} /\ n \notin Asked[w] /\ n \notin Asked[u]
        BY <1>3, <4>1 DEF Apart
      <4>3. \/ Asked'[w] = Asked[w] /\ Asked'[u] = Asked[u]
            \/ Asked'[w] = Asked[w] \cup {n} /\ Asked'[u] = Asked[u]
            \/ Asked'[w] = Asked[w] /\ Asked'[u] = Asked[u] \cup {n}
        BY <2>1, <4>1
      <4> QED BY <4>2, <4>3
    <3>3. \A w \in Workers :
            /\ Asked'[w] \cap Sent' = {} /\ Asked'[w] \cap Pinned' = {}
            /\ Asked'[w] \cap main'.reorder_dict = {}
      BY <1>3, <1>8, <2>1 DEF Apart
    <3>4. \A w \in Workers :
            /\ Loaded[w] \cap Sent' = {} /\ Loaded[w] \cap Pinned' = {}
            /\ Loaded[w] \cap main'.reorder_dict = {}
      BY <1>8 DEF Apart
    <3>5. /\ Sent' \cap Pinned' = {} /\ Sent' \cap main'.reorder_dict = {}
          /\ Pinned' \cap main'.reorder_dict = {}
      BY <1>8 DEF Apart
    <3>6. \A w, u \in Workers : w # u => Loaded[w] \cap Loaded[u] = {}
      BY DEF Apart
    <3> QED BY <3>1, <3>2, <3>3, <3>4, <3>5, <3>6 DEF Apart
  <2>4. OnlyPending' BY <1>8, <2>1, <2>2 DEF OnlyPending
  <2>5. NoneLost'
    <3>1. SUFFICES ASSUME NoneKilled', ~done_event', NEW i \in Pending'
                   PROVE  Somewhere(i)'
      BY DEF NoneLost
    <3>2. CASE i = n BY <2>1, <3>2 DEF Somewhere
    <3>3. CASE i \in Pending /\ i \notin R
      <4>1. Somewhere(i) BY <1>9, <3>1, <3>3 DEF NoneLost
      <4> QED BY <1>8, <2>1, <3>3, <4>1 DEF Somewhere
    <3> QED BY <2>2, <3>1, <3>2, <3>3
  <2> QED BY <1>1, <1>8, <1>11, <2>3, <2>4, <2>5
<1> QED BY <1>10, <1>11

(* An interval of indices. *)
LEMMA IntervalFacts ==
  ASSUME NEW a \in Nat, NEW b \in Nat, a <= b
  PROVE  /\ IsFiniteSet(a .. b - 1) /\ Cardinality(a .. b - 1) = b - a
         /\ a < b => (a + 1) .. b - 1 = (a .. b - 1) \ {a}
<1>1. /\ IsFiniteSet(a .. b - 1)
      /\ Cardinality(a .. b - 1) = IF a > b - 1 THEN 0 ELSE (b - 1) - a + 1
  <2>1. b - 1 \in Int /\ a \in Int OBVIOUS
  <2> QED BY <2>1, FS_Interval
<1>2. Cardinality(a .. b - 1) = b - a BY <1>1
<1>3. a < b => (a + 1) .. b - 1 = (a .. b - 1) \ {a} OBVIOUS
<1> QED BY <1>1, <1>2, <1>3

(* The batches received out of order are finitely many. *)
LEMMA DictFacts ==
  ASSUME LoaderInv
  PROVE  /\ IsFiniteSet(main.reorder_dict)
         /\ Cardinality(main.reorder_dict) \in Nat
         /\ main.batches_outstanding >= 0
         /\ main.rcvd_idx \in Nat /\ main.send_idx \in Nat
         /\ main.batches_outstanding \in Int
<1>1. /\ main.rcvd_idx \in Nat /\ main.send_idx \in Nat
      /\ main.batches_outstanding \in Int /\ main.rcvd_idx <= main.send_idx
      /\ main.send_idx = main.rcvd_idx + main.batches_outstanding
                         + Cardinality(main.reorder_dict)
  BY DEF LoaderInv, LoaderType, Counters, Fields
<1>2. main.reorder_dict \in SUBSET (main.rcvd_idx .. main.send_idx - 1)
  BY DEF LoaderInv, PlacesInv, OnlyPending, Pending
<1>3. /\ IsFiniteSet(main.rcvd_idx .. main.send_idx - 1)
      /\ Cardinality(main.rcvd_idx .. main.send_idx - 1)
           = main.send_idx - main.rcvd_idx
  BY <1>1, IntervalFacts
<1>4. /\ IsFiniteSet(main.reorder_dict)
      /\ Cardinality(main.reorder_dict) <= main.send_idx - main.rcvd_idx
  BY <1>2, <1>3, FS_Subset
<1>5. Cardinality(main.reorder_dict) \in Nat BY <1>4, FS_CardinalityType
<1> QED BY <1>1, <1>4, <1>5

(* The constructor asks for a batch. *)
LEMMA PrimeStep ==
  ASSUME LoaderInv, Prime
  PROVE  LoaderInv'
<1>1. /\ main \in Fields /\ main.primed \in Nat /\ main.send_idx \in Nat
      /\ main.batches_outstanding \in Int
  BY DEF LoaderInv, LoaderType, Fields
<1>2. /\ main.pc = "priming"
      /\ UNCHANGED <<options, done_event, worker, buffer, result_queue, data_queue>>
      /\ main' = PutIndices(Primed(main), index_queue).m
      /\ index_queue' = PutIndices(Primed(main), index_queue).q
  BY DEF Prime, processes, channels
<1>3. PICK where \in {"priming", "user"} :
        where = IF main.primed + 1 = 2 * NumWorkers THEN "user" ELSE "priming"
  OBVIOUS
<1>4. PICK n \in Nat : n = main.primed + 1 BY <1>1
<1>5. PICK m : m = Primed(main) OBVIOUS
<1>6. m = [main EXCEPT !.primed = n, !.pc = where]
  BY <1>2, <1>3, <1>4, <1>5 DEF Primed
<1>7. /\ m \in Fields /\ m.pc = where /\ m.primed = n
      /\ m.rcvd_idx = main.rcvd_idx /\ m.send_idx = main.send_idx
      /\ m.batches_outstanding = main.batches_outstanding
      /\ m.reorder_dict = main.reorder_dict /\ m.shutdown = main.shutdown
  BY <1>1, <1>6 DEF Fields
<1>8. /\ Sent' = Sent \ {} /\ Pinned' = Pinned \ {} /\ Loaded' = Loaded
      /\ m.reorder_dict = main.reorder_dict \ {}
      /\ m.rcvd_idx .. m.send_idx - 1 = Pending \ {}
      /\ \A w \in Workers : Asked[w] \cap {} = {} /\ Loaded[w] \cap {} = {}
  BY <1>2, <1>7, SamePlaces DEF Pending
<1>9. m.rcvd_idx <= m.send_idx BY <1>7 DEF LoaderInv, Counters
<1>10. /\ main' = PutIndices(m, index_queue).m
       /\ index_queue' = PutIndices(m, index_queue).q
       /\ UNCHANGED <<worker, done_event>>
  BY <1>2, <1>5
<1>11. /\ Apart' /\ OnlyPending' /\ NoneLost'
       /\ index_queue' \in [Workers -> Seq(Index)]
       /\ \A w \in Workers : IndicesOnce(index_queue'[w])
       /\ MainAfterPut(m)
  <2>1. Leave({}, m) BY <1>7, <1>8, <1>9, <1>10 DEF Leave
  <2> QED BY <1>7, <1>10, <2>1, PutStep
<1>12. Counters'
  <2>1. PICK b \in Nat, o \in Int, k \in Nat :
          b = main.send_idx /\ o = main.batches_outstanding /\ k = main.primed
    BY <1>1
  <2>2. /\ main.rcvd_idx = 0 /\ main.reorder_dict = {} /\ b <= k
        /\ k < 2 * NumWorkers /\ b <= NumBatches /\ ~main.shutdown
        /\ b < NumBatches => b = k
        /\ b = 0 + o + Cardinality(main.reorder_dict)
    BY <1>2, <2>1 DEF LoaderInv, Counters
  <2>3. Cardinality(main.reorder_dict) = 0 BY <2>2, FS_EmptySet
  <2>4. PICK b2 \in Nat, o2 \in Int :
          /\ b2 = main'.send_idx /\ o2 = main'.batches_outstanding
          /\ \/ b = NumBatches /\ b2 = b /\ o2 = o
             \/ b # NumBatches /\ b2 = b + 1 /\ o2 = o + 1
    BY <1>7, <1>11, <2>1 DEF MainAfterPut, Fields
  <2>5. n = k + 1 BY <1>4, <2>1
  <2>6. /\ 0 <= b2 /\ b2 <= NumBatches /\ b2 = 0 + o2 + 0
        /\ b2 - 0 <= 2 * NumWorkers /\ b2 <= n
        /\ n # 2 * NumWorkers => n < 2 * NumWorkers
        /\ b2 < NumBatches => b2 = n
    BY <2>2, <2>3, <2>4, <2>5, ProcessFacts
  <2>7. /\ main'.rcvd_idx = 0 /\ main'.reorder_dict = {} /\ ~main'.shutdown
        /\ main'.primed = n /\ main'.pc = where
        /\ Cardinality(main'.reorder_dict) = 0
    BY <1>7, <1>11, <2>2, <2>3 DEF MainAfterPut
  <2>8. where = IF n = 2 * NumWorkers THEN "user" ELSE "priming" BY <1>3, <1>4
  <2> QED BY <2>4, <2>6, <2>7, <2>8 DEF Counters
<1>13. LoaderType' BY <1>2, <1>11 DEF MainAfterPut, LoaderInv, LoaderType
<1>14. QueuesOnce' BY <1>2, <1>11 DEF LoaderInv, PlacesInv, QueuesOnce
<1> QED BY <1>11, <1>12, <1>13, <1>14 DEF LoaderInv, PlacesInv

(* _process_next_batch(): the batch that is next in order is handed out,   *)
(* wherever it was, and another one is asked for.                          *)
Taken(m) ==
  /\ main.pc \in {"user", "get"}
  /\ main.rcvd_idx \in Sent \cup Pinned \cup main.reorder_dict
  /\ m.rcvd_idx = main.rcvd_idx /\ m.send_idx = main.send_idx
  /\ m.primed = main.primed /\ m.shutdown = main.shutdown
  /\ m.reorder_dict = main.reorder_dict \ {main.rcvd_idx}
  /\ m.send_idx = m.rcvd_idx + 1 + m.batches_outstanding
                   + Cardinality(m.reorder_dict)
  /\ Sent' = Sent \ {main.rcvd_idx} /\ Pinned' = Pinned \ {main.rcvd_idx}

QueuesKept ==
  /\ BatchesOnce(result_queue') /\ BatchesOnce(data_queue')
  /\ data_queue' \in Seq(Batch) /\ result_queue' \in Seq(Batch \cup {NoBatch})
  /\ ~options.pin_memory => result_queue' \in Seq(Batch)

LEMMA HandOut ==
  ASSUME LoaderInv, NEW m \in Fields, Taken(m), ProcessNextBatch(m), QueuesKept,
         UNCHANGED <<options, buffer, worker, done_event>>
  PROVE  LoaderInv'
<1>1. /\ main.rcvd_idx \in Nat /\ main.send_idx \in Nat
      /\ main.batches_outstanding \in Int /\ m.batches_outstanding \in Int
      /\ main.reorder_dict \in SUBSET Nat
  BY DEF LoaderInv, LoaderType, Fields
<1>2. PICK n \in Nat : n = main.rcvd_idx + 1 BY <1>1
<1>3. PICK m1 : m1 = [m EXCEPT !.rcvd_idx = n, !.pc = "user"] OBVIOUS
<1>4. /\ m1 \in Fields /\ m1.pc = "user" /\ m1.primed = m.primed
      /\ m1.rcvd_idx = n /\ m1.send_idx = main.send_idx
      /\ m1.batches_outstanding = m.batches_outstanding
      /\ m1.reorder_dict = main.reorder_dict \ {main.rcvd_idx}
      /\ m1.shutdown = main.shutdown
  BY <1>3 DEF Fields, Taken
<1>5. /\ main' = PutIndices(m1, index_queue).m
      /\ index_queue' = PutIndices(m1, index_queue).q
  <2>1. m1 = [m EXCEPT !.rcvd_idx = m.rcvd_idx + 1, !.pc = "user"]
    BY <1>2, <1>3 DEF Taken
  <2> QED BY <2>1 DEF ProcessNextBatch
<1>6. PICK a \in Nat, b \in Nat : a = main.rcvd_idx /\ b = main.send_idx BY <1>1
<1>61. Pending = a .. b - 1 /\ n = a + 1 BY <1>2, <1>6 DEF Pending
<1>62. main.rcvd_idx \in Pending BY DEF LoaderInv, PlacesInv, OnlyPending, Taken
<1>63. a \in a .. b - 1 BY <1>6, <1>61, <1>62
<1>64. a < b /\ n <= b BY <1>61, <1>63
<1>65. (a + 1) .. b - 1 = (a .. b - 1) \ {a} BY <1>64, IntervalFacts
<1>7. m1.rcvd_idx <= m1.send_idx BY <1>4, <1>6, <1>64
<1>8. m1.rcvd_idx .. m1.send_idx - 1 = Pending \ {a}
  BY <1>4, <1>6, <1>61, <1>65
<1>9. \A w \in Workers : Asked[w] \cap {a} = {} /\ Loaded[w] \cap {a} = {}
  BY <1>6 DEF LoaderInv, PlacesInv, Apart, Taken
<1>10. /\ Loaded' = Loaded /\ Sent' = Sent \ {a} /\ Pinned' = Pinned \ {a}
       /\ m1.reorder_dict = main.reorder_dict \ {a}
       /\ UNCHANGED <<worker, done_event>>
  BY <1>4, <1>6, SamePlaces DEF Taken
<1>11. /\ Apart' /\ OnlyPending' /\ NoneLost'
       /\ index_queue' \in [Workers -> Seq(Index)]
       /\ \A w \in Workers : IndicesOnce(index_queue'[w])
       /\ MainAfterPut(m1)
  <2>1. Leave({a}, m1) BY <1>4, <1>7, <1>8, <1>9, <1>10 DEF Leave
  <2> QED BY <1>4, <1>5, <2>1, PutStep
<1>12. Counters'
  <2>1. PICK c : c = Cardinality(m.reorder_dict) OBVIOUS
  <2>2. c \in Nat
    BY <2>1, DictFacts, FS_RemoveElement, FS_CardinalityType DEF Taken
  <2>3. Cardinality(main'.reorder_dict) = c
    BY <1>4, <1>11, <2>1 DEF Taken, MainAfterPut
  <2>4. PICK o \in Int : o = m.batches_outstanding BY <1>1
  <2>5. b = a + 1 + o + c BY <1>6, <2>1, <2>4 DEF Taken
  <2>6. /\ ~main.shutdown /\ b <= NumBatches /\ b - a <= 2 * NumWorkers
        /\ b < NumBatches => b - a = 2 * NumWorkers
    BY <1>6 DEF LoaderInv, Counters, Taken
  <2>7. PICK b2 \in Nat, o2 \in Int :
          /\ b2 = main'.send_idx /\ o2 = main'.batches_outstanding
          /\ \/ b = NumBatches /\ b2 = b /\ o2 = o
             \/ b # NumBatches /\ b2 = b + 1 /\ o2 = o + 1
    BY <1>4, <1>6, <1>11, <2>4 DEF MainAfterPut, Fields
  <2>8. /\ a + 1 <= b2 /\ b2 <= NumBatches /\ b2 = a + 1 + o2 + c
        /\ b2 - (a + 1) <= 2 * NumWorkers
        /\ b2 < NumBatches => b2 - (a + 1) = 2 * NumWorkers
    <3>2. NumBatches \in Nat /\ NumWorkers \in Nat BY LoaderAssumption
    <3>3. CASE b = NumBatches /\ b2 = b /\ o2 = o
      BY <1>64, <2>2, <2>5, <2>6, <3>2, <3>3
    <3>4. CASE b # NumBatches /\ b2 = b + 1 /\ o2 = o + 1
      <4>1. b < NumBatches BY <2>6, <3>2, <3>4
      <4>2. b - a = 2 * NumWorkers BY <2>6, <4>1
      <4> QED BY <1>64, <2>2, <2>5, <3>2, <3>4, <4>1, <4>2
    <3> QED BY <2>7, <3>3, <3>4
  <2>9. /\ main'.pc = "user" /\ main'.rcvd_idx = a + 1 /\ ~main'.shutdown
    BY <1>4, <1>61, <1>11, <2>6 DEF MainAfterPut
  <2> QED BY <2>3, <2>7, <2>8, <2>9 DEF Counters
<1>13. LoaderType' BY <1>11 DEF LoaderInv, LoaderType, QueuesKept, MainAfterPut
<1>14. QueuesOnce' BY <1>11 DEF LoaderInv, PlacesInv, QueuesOnce, QueuesKept
<1> QED BY <1>11, <1>12, <1>13, <1>14 DEF LoaderInv, PlacesInv

(* __next__() finds the batch among those received out of order. *)
LEMMA NextReorderedStep ==
  ASSUME LoaderInv, NextReordered
  PROVE  LoaderInv'
<1>1. /\ main.pc = "user" /\ main.rcvd_idx \in main.reorder_dict
      /\ UNCHANGED <<options, buffer, worker, done_event, result_queue, data_queue>>
  BY DEF NextReordered, processes, channels
<1>2. main \in Fields /\ main.reorder_dict \in SUBSET Nat
  BY DEF LoaderInv, LoaderType, Fields
<1>3. PICK D \in SUBSET Nat : D = main.reorder_dict \ {main.rcvd_idx} BY <1>2
<1>4. PICK m : m = [main EXCEPT !.reorder_dict = D] OBVIOUS
<1>5. /\ m \in Fields /\ m.rcvd_idx = main.rcvd_idx /\ m.send_idx = main.send_idx
      /\ m.primed = main.primed /\ m.shutdown = main.shutdown
      /\ m.reorder_dict = D
      /\ m.batches_outstanding = main.batches_outstanding
  BY <1>2, <1>4 DEF Fields
<1>6. ProcessNextBatch(m) BY <1>3, <1>4 DEF NextReordered
<1>7. Cardinality(D) = Cardinality(main.reorder_dict) - 1
  BY <1>1, <1>3, DictFacts, FS_RemoveElement
<1>8. main.send_idx = main.rcvd_idx + 1 + main.batches_outstanding + Cardinality(D)
  <2>1. main.send_idx = main.rcvd_idx + main.batches_outstanding
                        + Cardinality(main.reorder_dict)
    BY DEF LoaderInv, Counters
  <2> QED BY <1>7, <2>1, DictFacts
<1>9. main.rcvd_idx \notin Sent /\ main.rcvd_idx \notin Pinned
  BY <1>1 DEF LoaderInv, PlacesInv, Apart
<1>10. Taken(m) BY <1>1, <1>3, <1>5, <1>8, <1>9, SamePlaces DEF Taken
<1>11. QueuesKept
  BY <1>1 DEF LoaderInv, LoaderType, PlacesInv, QueuesOnce, QueuesKept
<1> QED BY <1>1, <1>5, <1>6, <1>10, <1>11, HandOut

(* __next__() gets the batch it waits for. *)
LEMMA ReceiveNextStep ==
  ASSUME LoaderInv, Receive, Head(Source).idx = main.rcvd_idx
  PROVE  LoaderInv'
<1>1. /\ main.pc = "get" /\ Source # <<>> /\ TakeFromSource
      /\ UNCHANGED <<options, done_event, worker>>
  BY DEF Receive, processes
<1>2. /\ main.rcvd_idx \in Sent \cup Pinned
      /\ Sent' = Sent \ {main.rcvd_idx} /\ Pinned' = Pinned \ {main.rcvd_idx}
      /\ buffer' = buffer /\ QueuesKept
  BY <1>1, TakeFacts DEF QueuesKept
<1>3. main \in Fields /\ main.batches_outstanding \in Int
  BY DEF LoaderInv, LoaderType, Fields
<1>4. PICK o \in Int : o = main.batches_outstanding - 1 BY <1>3
<1>5. PICK m : m = [main EXCEPT !.batches_outstanding = o] OBVIOUS
<1>6. /\ m \in Fields /\ m.rcvd_idx = main.rcvd_idx /\ m.send_idx = main.send_idx
      /\ m.primed = main.primed /\ m.shutdown = main.shutdown
      /\ m.reorder_dict = main.reorder_dict /\ m.batches_outstanding = o
  BY <1>3, <1>4, <1>5 DEF Fields
<1>7. ProcessNextBatch(m)
  <2>1. InTurn(main, Head(Source).idx) BY DEF InTurn
  <2>2. Counted(main, Head(Source).idx) = m BY <1>4, <1>5 DEF Counted
  <2> QED BY <2>1, <2>2 DEF Receive
<1>8. m.reorder_dict = main.reorder_dict \ {main.rcvd_idx}
  BY <1>2, <1>6 DEF LoaderInv, PlacesInv, Apart
<1>9. m.send_idx = m.rcvd_idx + 1 + m.batches_outstanding
                   + Cardinality(m.reorder_dict)
  <2>1. main.send_idx = main.rcvd_idx + main.batches_outstanding
                        + Cardinality(main.reorder_dict)
    BY DEF LoaderInv, Counters
  <2> QED BY <1>4, <1>6, <2>1, DictFacts
<1>10. Taken(m) BY <1>1, <1>2, <1>6, <1>8, <1>9 DEF Taken
<1> QED BY <1>1, <1>2, <1>6, <1>7, <1>10, HandOut

(* __next__() gets another one, and keeps it. *)
LEMMA ReceiveLaterStep ==
  ASSUME LoaderInv, Receive, Head(Source).idx # main.rcvd_idx
  PROVE  LoaderInv'
<1>1. /\ main.pc = "get" /\ Source # <<>> /\ TakeFromSource
      /\ UNCHANGED <<options, done_event, worker>>
  BY DEF Receive, processes
<1>2. PICK i \in Nat : i = Head(Source).idx BY <1>1, TakeFacts
<1>3. /\ i \in Sent \cup Pinned /\ Sent' = Sent \ {i} /\ Pinned' = Pinned \ {i}
      /\ buffer' = buffer /\ QueuesKept
  BY <1>1, <1>2, TakeFacts DEF QueuesKept
<1>4. /\ main \in Fields /\ main.batches_outstanding \in Int
      /\ main.reorder_dict \in SUBSET Nat
  BY DEF LoaderInv, LoaderType, Fields
<1>5. PICK o \in Int : o = main.batches_outstanding - 1 BY <1>4
<1>6. PICK D \in SUBSET Nat : D = main.reorder_dict \cup {i} BY <1>2, <1>4
<1>7. PICK where \in {"user", "get"} :
        main' = [main EXCEPT !.batches_outstanding = o, !.reorder_dict = D,
                             !.pc = where]
  <2>1. ~InTurn(main, Head(Source).idx) BY DEF InTurn
  <2>2. PICK m : m = [main EXCEPT !.batches_outstanding = o] OBVIOUS
  <2>3. Counted(main, Head(Source).idx) = m BY <1>5, <2>2 DEF Counted
  <2>4. m.pc = "get" /\ m.reorder_dict = main.reorder_dict
    BY <1>1, <1>4, <2>2 DEF Fields
  <2>5. main' = [m EXCEPT !.reorder_dict = D,
                          !.pc = IF PinThreadDied THEN "user" ELSE "get"]
    BY <1>2, <1>6, <2>1, <2>3, <2>4 DEF Receive
  <2>6. CASE PinThreadDied BY <1>4, <2>2, <2>5, <2>6 DEF Fields
  <2>7. CASE ~PinThreadDied BY <1>4, <2>2, <2>5, <2>7 DEF Fields
  <2> QED BY <2>6, <2>7
<1>8. /\ main' \in Fields /\ main'.rcvd_idx = main.rcvd_idx
      /\ main'.send_idx = main.send_idx /\ main'.primed = main.primed
      /\ main'.shutdown = main.shutdown /\ main'.reorder_dict = D
      /\ main'.batches_outstanding = o /\ main'.pc = where
  BY <1>4, <1>7 DEF Fields
<1>9. index_queue' = index_queue BY DEF Receive, InTurn
<1>10. /\ Asked' = Asked /\ Loaded' = Loaded /\ Pending' = Pending
       /\ NoneKilled' <=> NoneKilled
  BY <1>1, <1>3, <1>8, <1>9, SamePlaces DEF Pending, NoneKilled
<1>11. /\ i \in Pending /\ i \notin main.reorder_dict
       /\ \A w \in Workers : i \notin Asked[w] /\ i \notin Loaded[w]
  BY <1>3 DEF LoaderInv, PlacesInv, OnlyPending, Apart
<1>12. Counters'
  <2>1. PICK a \in Nat, b \in Nat : a = main.rcvd_idx /\ b = main.send_idx
    BY DictFacts
  <2>2. PICK c \in Nat : c = Cardinality(main.reorder_dict) BY DictFacts
  <2>3. /\ a <= b /\ b <= NumBatches /\ b - a <= 2 * NumWorkers
        /\ b < NumBatches => b - a = 2 * NumWorkers
        /\ b = a + main.batches_outstanding + c
        /\ a \notin main.reorder_dict /\ ~main.shutdown
    BY <1>1, <2>1, <2>2 DEF LoaderInv, Counters
  <2>4. Cardinality(D) = c + 1 /\ IsFiniteSet(D)
    BY <1>6, <1>11, <2>2, DictFacts, FS_AddElement
  <2>5. b = a + o + (c + 1) BY <1>4, <1>5, <2>3
  <2>6. D \in SUBSET ((a .. b - 1) \ {a})
    <3>1. main.reorder_dict \subseteq a .. b - 1
      BY <2>1 DEF LoaderInv, PlacesInv, OnlyPending, Pending
    <3>2. i \in a .. b - 1 /\ i # a BY <1>2, <1>11, <2>1 DEF Pending
    <3> QED BY <1>6, <2>3, <3>1, <3>2
  <2>7. a < b BY <2>3, <1>11, <2>1 DEF Pending
  <2>8. PICK P : P = a .. b - 1 OBVIOUS
  <2>9. IsFiniteSet(P) /\ Cardinality(P) = b - a /\ a \in P
    BY <2>3, <2>7, <2>8, IntervalFacts
  <2>10. IsFiniteSet(P \ {a}) /\ Cardinality(P \ {a}) = Cardinality(P) - 1
    BY <2>9, FS_RemoveElement
  <2>11. Cardinality(D) <= b - a - 1
    <3>1. D \in SUBSET (P \ {a}) BY <2>6, <2>8
    <3>2. Cardinality(D) <= Cardinality(P \ {a}) BY <2>10, <3>1, FS_Subset
    <3> QED BY <2>9, <2>10, <3>2
  <2>12. o > 0 BY <2>4, <2>5, <2>11
  <2>13. a \notin D BY <2>6
  <2> QED BY <1>8, <2>1, <2>3, <2>4, <2>5, <2>12, <2>13 DEF Counters
<1>13. LoaderType'
  BY <1>1, <1>3, <1>8, <1>9 DEF LoaderInv, LoaderType, QueuesKept
<1>14. QueuesOnce'
  BY <1>1, <1>3, <1>9 DEF LoaderInv, PlacesInv, QueuesOnce, QueuesKept
<1>15. Apart' BY <1>3, <1>6, <1>8, <1>10, <1>11 DEF LoaderInv, PlacesInv, Apart
<1>16. OnlyPending'
  BY <1>3, <1>6, <1>8, <1>10, <1>11 DEF LoaderInv, PlacesInv, OnlyPending
<1>17. NoneLost'
  BY <1>1, <1>3, <1>6, <1>8, <1>10 DEF LoaderInv, PlacesInv, NoneLost, Somewhere
<1> QED BY <1>12, <1>13, <1>14, <1>15, <1>16, <1>17 DEF LoaderInv, PlacesInv

(* A batch of a killed worker cannot be rebuilt, and is lost. *)
LEMMA ReceiveFailsStep ==
  ASSUME LoaderInv, ReceiveFails
  PROVE  LoaderInv'
<1>1. /\ main.pc = "get" /\ Source # <<>> /\ TakeFromSource
      /\ worker[Head(Source).from] = "killed" /\ Goto("user")
      /\ UNCHANGED <<options, done_event, worker, index_queue>>
  BY DEF ReceiveFails, processes, Source
<1>2. PICK i \in Nat : i = Head(Source).idx BY <1>1, TakeFacts
<1>3. /\ Sent' = Sent \ {i} /\ Pinned' = Pinned \ {i}
      /\ buffer' = buffer /\ QueuesKept
  BY <1>1, <1>2, TakeFacts DEF QueuesKept
<1>4. ~NoneKilled'
  <2>1. Head(Source).from \in Workers BY <1>1, TakeFacts, MessageFacts
  <2> QED BY <1>1, <2>1 DEF NoneKilled
<1>5. main \in Fields BY DEF LoaderInv, LoaderType
<1>6. /\ main' \in Fields /\ main'.pc = "user" /\ main'.shutdown = main.shutdown
      /\ main'.send_idx = main.send_idx /\ main'.rcvd_idx = main.rcvd_idx
      /\ main'.batches_outstanding = main.batches_outstanding
      /\ main'.reorder_dict = main.reorder_dict
  BY <1>1, <1>5, GotoFacts
<1>7. Asked' = Asked /\ Loaded' = Loaded /\ Pending' = Pending
  BY <1>1, <1>3, <1>6, SamePlaces DEF Pending
<1>8. Counters' BY <1>1, <1>6 DEF LoaderInv, Counters
<1>9. LoaderType'
  BY <1>1, <1>3, <1>6 DEF LoaderInv, LoaderType, QueuesKept
<1>10. QueuesOnce'
  BY <1>1, <1>3 DEF LoaderInv, PlacesInv, QueuesOnce, QueuesKept
<1>11. Apart' BY <1>3, <1>6, <1>7 DEF LoaderInv, PlacesInv, Apart
<1>12. OnlyPending' BY <1>3, <1>6, <1>7 DEF LoaderInv, PlacesInv, OnlyPending
<1>13. NoneLost' BY <1>4 DEF NoneLost
<1> QED BY <1>8, <1>9, <1>10, <1>11, <1>12, <1>13 DEF LoaderInv, PlacesInv

-----------------------------------------------------------------------------
(* _shutdown_workers() sends None. *)
LEMMA NoneToPinThreadStep ==
  ASSUME LoaderInv, NoneToPinThread
  PROVE  LoaderInv'
<1>1. /\ options.pin_memory /\ done_event' = TRUE
      /\ main' = [main EXCEPT !.pc = "join_pin", !.shutdown = TRUE]
      /\ buffer' = [buffer EXCEPT ![Main] = <<NoBatch>>]
      /\ UNCHANGED <<options, index_queue, worker, result_queue, data_queue>>
  BY DEF NoneToPinThread, processes, NoBatch
<1>2. main \in Fields BY DEF LoaderInv, LoaderType
<1>3. /\ main' \in Fields /\ main'.pc = "join_pin"
      /\ main'.send_idx = main.send_idx /\ main'.rcvd_idx = main.rcvd_idx
      /\ main'.batches_outstanding = main.batches_outstanding
      /\ main'.reorder_dict = main.reorder_dict
  BY <1>1, <1>2, PcFacts DEF Stopping
<1>4. /\ DOMAIN buffer' = Workers \cup {Main} /\ buffer'[Main] \in Seq({NoBatch})
      /\ \A w \in Workers : buffer'[w] = buffer[w]
  BY <1>1, ProcessFacts DEF LoaderInv, LoaderType
<1>5. /\ Asked' = Asked /\ Loaded' = Loaded /\ Sent' = Sent /\ Pinned' = Pinned
      /\ Pending' = Pending
  BY <1>1, <1>3, <1>4, SamePlaces DEF Pending, Loaded
<1>6. Counters' BY <1>3 DEF LoaderInv, Counters
<1>7. LoaderType' BY <1>1, <1>3, <1>4 DEF LoaderInv, LoaderType
<1>8. QueuesOnce' BY <1>1, <1>4 DEF LoaderInv, PlacesInv, QueuesOnce
<1>9. Apart' BY <1>3, <1>5 DEF LoaderInv, PlacesInv, Apart
<1>10. OnlyPending' BY <1>3, <1>5 DEF LoaderInv, PlacesInv, OnlyPending
<1>11. NoneLost' BY <1>1 DEF NoneLost
<1> QED BY <1>6, <1>7, <1>8, <1>9, <1>10, <1>11 DEF LoaderInv, PlacesInv

LEMMA NoneToWorkersStep ==
  ASSUME LoaderInv, NoneToWorkers
  PROVE  LoaderInv'
<1>1. /\ done_event' = TRUE
      /\ main' = [main EXCEPT !.pc = "join", !.shutdown = TRUE]
      /\ index_queue' = [w \in Workers |-> Append(index_queue[w], None)]
      /\ UNCHANGED <<options, buffer, worker, result_queue, data_queue>>
  BY DEF NoneToWorkers, processes, channels, WithNone
<1>2. main \in Fields BY DEF LoaderInv, LoaderType
<1>3. /\ main' \in Fields /\ main'.pc = "join"
      /\ main'.send_idx = main.send_idx /\ main'.rcvd_idx = main.rcvd_idx
      /\ main'.batches_outstanding = main.batches_outstanding
      /\ main'.reorder_dict = main.reorder_dict
  BY <1>1, <1>2, PcFacts DEF Stopping
<1>4. ASSUME NEW w \in Workers
      PROVE  /\ Append(index_queue[w], None) \in Seq(Index)
             /\ IndicesOnce(Append(index_queue[w], None))
             /\ Indices(Append(index_queue[w], None)) = Indices(index_queue[w])
  <2>1. /\ index_queue[w] \in Seq(Index) /\ IndicesOnce(index_queue[w])
        /\ None \in Index /\ None \notin Indices(index_queue[w])
    BY ProcessFacts
       DEF LoaderInv, LoaderType, PlacesInv, QueuesOnce, Index, Indices
  <2>2. /\ Append(index_queue[w], None) \in Seq(Index)
        /\ IndicesOnce(Append(index_queue[w], None))
        /\ Indices(Append(index_queue[w], None))
             = Indices(index_queue[w]) \cup ({None} \ {None})
    BY <2>1, AppendIndices
  <2> QED BY <2>2
<1>5. /\ index_queue' \in [Workers -> Seq(Index)]
      /\ \A w \in Workers : IndicesOnce(index_queue'[w])
      /\ Asked' = Asked
  BY <1>1, <1>4 DEF Asked
<1>6. Loaded' = Loaded /\ Sent' = Sent /\ Pinned' = Pinned /\ Pending' = Pending
  BY <1>1, <1>3, SamePlaces DEF Pending
<1>7. Counters' BY <1>3 DEF LoaderInv, Counters
<1>8. LoaderType' BY <1>1, <1>3, <1>5 DEF LoaderInv, LoaderType
<1>9. QueuesOnce' BY <1>1, <1>5 DEF LoaderInv, PlacesInv, QueuesOnce
<1>10. Apart' BY <1>3, <1>5, <1>6 DEF LoaderInv, PlacesInv, Apart
<1>11. OnlyPending' BY <1>3, <1>5, <1>6 DEF LoaderInv, PlacesInv, OnlyPending
<1>12. NoneLost' BY <1>1 DEF NoneLost
<1> QED BY <1>7, <1>8, <1>9, <1>10, <1>11, <1>12 DEF LoaderInv, PlacesInv

-----------------------------------------------------------------------------
(* Nothing has been asked for when the constructor starts priming. *)
LEMMA InitLoader == Init => LoaderInv
<1> SUFFICES ASSUME Init PROVE LoaderInv OBVIOUS
<1>1. /\ main.pc = "priming" /\ main.primed = 0 /\ main.worker_queue_idx = 0
      /\ main.send_idx = 0 /\ main.rcvd_idx = 0 /\ main.batches_outstanding = 0
      /\ main.reorder_dict = {} /\ main.shutdown = FALSE
  BY DEF Init
<1>2. main \in Fields BY ProcessFacts DEF Init, Fields
<1>3. LoaderType
  <2>1. /\ options \in [timeout : BOOLEAN, pin_memory : BOOLEAN, handler : BOOLEAN]
        /\ done_event \in BOOLEAN
        /\ worker \in [Workers -> {"runs", "exited", "killed"}]
    BY DEF Init
  <2>11. index_queue \in [Workers -> Seq(Index)]
    <3>1. <<>> \in Seq(Index) OBVIOUS
    <3> QED BY <3>1 DEF Init
  <2>2. /\ DOMAIN buffer = Workers \cup {Main}
        /\ \A w \in Workers : buffer[w] \in Seq(Batch)
        /\ buffer[Main] = <<>> /\ buffer[Main] \in Seq({NoBatch})
    BY DEF Init
  <2>3. /\ result_queue \in Seq(Batch \cup {NoBatch}) /\ result_queue \in Seq(Batch)
        /\ data_queue \in Seq(Batch)
    BY DEF Init
  <2> QED BY <1>2, <2>1, <2>11, <2>2, <2>3 DEF LoaderType
<1>4. /\ \A w \in Workers : index_queue[w] = <<>> /\ buffer[w] = <<>>
      /\ result_queue = <<>> /\ data_queue = <<>>
  BY DEF Init
<1>5. Indices(<<>>) = {} /\ Batches(<<>>) = {} BY DEF Indices, Batches
<1>6. IndicesOnce(<<>>) /\ BatchesOnce(<<>>) BY DEF IndicesOnce, BatchesOnce
<1>7. /\ \A w \in Workers : Asked[w] = {} /\ Loaded[w] = {}
      /\ Sent = {} /\ Pinned = {}
  BY <1>4, <1>5 DEF Asked, Loaded, Sent, Pinned
<1>8. Pending = {} BY <1>1 DEF Pending
<1>9. Counters
  <2>1. Cardinality(main.reorder_dict) = 0 BY <1>1, FS_EmptySet
  <2>2. 0 < 2 * NumWorkers /\ 0 <= NumBatches BY LoaderAssumption
  <2> QED BY <1>1, <2>1, <2>2, LoaderAssumption DEF Counters
<1>10. QueuesOnce BY <1>4, <1>6 DEF QueuesOnce
<1>11. Apart BY <1>1, <1>7 DEF Apart
<1>12. OnlyPending BY <1>1, <1>7 DEF OnlyPending
<1>13. NoneLost BY <1>8 DEF NoneLost
<1> QED BY <1>3, <1>9, <1>10, <1>11, <1>12, <1>13 DEF LoaderInv, PlacesInv

LEMMA LoaderStep == LoaderInv /\ [Next]_vars => LoaderInv'
<1> SUFFICES ASSUME LoaderInv, [Next]_vars PROVE LoaderInv' OBVIOUS
<1>1. CASE User
  BY <1>1, NextReorderedStep, CallerStep DEF User
<1>2. CASE MainThread
  <2>1. CASE Receive BY <2>1, ReceiveNextStep, ReceiveLaterStep
  <2>2. CASE ~Receive
    BY <1>2, <2>2, PrimeStep, CallerStep, ReceiveFailsStep, NoneToPinThreadStep,
       NoneToWorkersStep, InterruptStep DEF MainThread
  <2> QED BY <2>1, <2>2
<1>3. CASE Interrupt BY <1>3, InterruptStep
<1>4. CASE PinThreadGets BY <1>4, PinThreadStep
<1>5. CASE KillMain BY <1>5, FaultStep
<1>6. CASE \E p \in Workers \cup {Main} : FeederWrites(p)
  BY <1>6, WorkerFeederStep, MainFeederStep
<1>7. CASE \E w \in Workers : WorkerLoop(w) \/ Kill(w)
  BY <1>7, WorkerGetsStep, FaultStep DEF WorkerLoop
<1>8. CASE UNCHANGED vars
  <2>1. UNCHANGED <<options, main, done_event, index_queue, worker, buffer,
                    result_queue, data_queue>>
    BY <1>8 DEF vars, processes, channels
  <2>2. main \in Fields /\ done_event \in BOOLEAN
        /\ worker \in [Workers -> {"runs", "exited", "killed"}]
    BY DEF LoaderInv, LoaderType
  <2>3. NoneKilled' <=> NoneKilled BY <2>1 DEF NoneKilled
  <2>4. /\ main.pc = "get" => /\ main.rcvd_idx \notin main.reorder_dict
                              /\ main.batches_outstanding > 0
        /\ main.pc \in {"priming", "user", "get"} => ~main.shutdown
    BY DEF LoaderInv, Counters
  <2> QED BY <2>1, <2>2, <2>3, <2>4, NothingMoves
<1> QED BY <1>1, <1>2, <1>3, <1>4, <1>5, <1>6, <1>7, <1>8 DEF Next

(* LoaderInvariant: every batch asked for and not handed out is at one     *)
(* place of the queues, buffers and reorder_dict of _DataLoaderIter, or    *)
(* was lost with a killed worker, and its counters describe that.          *)
THEOREM LoaderInvariant == Spec => []LoaderInv
<1>1. Init => LoaderInv BY InitLoader
<1>2. LoaderInv /\ [Next]_vars => LoaderInv' BY LoaderStep
<1> QED BY <1>1, <1>2, PTL DEF Spec

(* CountersAgree: Accounting, with the assertions of _put_indices() and    *)
(* __next__(), for any number of workers, batches and killed processes, if *)
(* the SIGCHLD handler does not raise inside of these two.                 *)
THEOREM CountersAgree == Spec => []Accounting
<1>1. LoaderInv => Accounting
  <2> SUFFICES ASSUME LoaderInv PROVE Accounting OBVIOUS
  <2>1. PICK a \in Nat, b \in Nat, o \in Int, c \in Nat :
          /\ a = main.rcvd_idx /\ b = main.send_idx
          /\ o = main.batches_outstanding /\ c = Cardinality(main.reorder_dict)
    BY DictFacts
  <2>2. /\ b = a + o + c /\ b - a <= 2 * NumWorkers /\ o >= 0
        /\ main.pc \in {"user", "get"} /\ b < NumBatches => b - a = 2 * NumWorkers
        /\ main.pc = "get" => o > 0 /\ ~main.shutdown
    BY <2>1, DictFacts DEF LoaderInv, Counters
  <2>3. /\ b = a + (o + c) /\ o + c <= 2 * NumWorkers
        /\ b - a = 2 * NumWorkers => o + c = 2 * NumWorkers
    BY <2>2, ProcessFacts
  <2> QED BY <2>1, <2>2, <2>3 DEF Accounting
<1> QED BY <1>1, LoaderInvariant, PTL

(* The places of batch i are those of the sets of the invariant, and there *)
(* is at most one.                                                         *)
LEMMA PlacesFacts ==
  ASSUME LoaderInv, NEW i \in Nat
  PROVE  /\ Places(i) # {} <=> Somewhere(i)
         /\ \A x, y \in Places(i) : x = y
<1> USE DEF LoaderInv, PlacesInv
<1> DEFINE IndexPlaces(w) == {<<"index", w, n>> : n \in
                               {n \in DOMAIN index_queue[w] : index_queue[w][n] = i}}
           BufferPlaces(w) == {<<"buffer", w, n>> : n \in At(buffer[w], i)}
           ResultPlaces == {<<"result", 0, n>> : n \in At(result_queue, i)}
           DataPlaces == {<<"data", 0, n>> : n \in At(data_queue, i)}
           DictPlaces == {<<"reordered", 0, n>> : n \in {i} \cap main.reorder_dict}
<1>1. \A x : x \in Places(i) <=>
        \/ \E w \in Workers : x \in IndexPlaces(w) \/ x \in BufferPlaces(w)
        \/ x \in ResultPlaces \/ x \in DataPlaces \/ x \in DictPlaces
  <2> DEFINE I == UNION {IndexPlaces(w) : w \in Workers}
             B == UNION {BufferPlaces(w) : w \in Workers}
  <2>1. Places(i) = I \cup B \cup ResultPlaces \cup DataPlaces \cup DictPlaces
    BY DEF Places
  <2>2. ASSUME NEW x PROVE x \in I <=> \E w \in Workers : x \in IndexPlaces(w)
    <3> HIDE DEF IndexPlaces
    <3> QED BY Zenon
  <2>3. ASSUME NEW x PROVE x \in B <=> \E w \in Workers : x \in BufferPlaces(w)
    <3> HIDE DEF BufferPlaces
    <3> QED BY Zenon
  <2> HIDE DEF I, B, IndexPlaces, BufferPlaces, ResultPlaces, DataPlaces, DictPlaces
  <2> QED BY <2>1, <2>2, <2>3
<1>0. i # None BY ProcessFacts
<1>2. ASSUME NEW w \in Workers
      PROVE  /\ IndexPlaces(w) # {} <=> i \in Asked[w]
             /\ \A x, y \in IndexPlaces(w) : x = y
  <2>1. IndicesOnce(index_queue[w]) BY DEF QueuesOnce
  <2>2. IndexPlaces(w) # {} <=> i \in Asked[w] BY DEF Asked, Indices
  <2>3. \A x, y \in IndexPlaces(w) : x = y BY <1>0, <2>1 DEF IndicesOnce
  <2> QED BY <2>2, <2>3
<1>3. ASSUME NEW w \in Workers
      PROVE  /\ BufferPlaces(w) # {} <=> i \in Loaded[w]
             /\ \A x, y \in BufferPlaces(w) : x = y
  <2>1. BatchesOnce(buffer[w]) BY DEF QueuesOnce
  <2>2. BufferPlaces(w) # {} <=> i \in Loaded[w] BY DEF Loaded, Batches, At
  <2>3. \A x, y \in BufferPlaces(w) : x = y BY <1>0, <2>1 DEF BatchesOnce, At
  <2> QED BY <2>2, <2>3
<1>4. /\ ResultPlaces # {} <=> i \in Sent
      /\ \A x, y \in ResultPlaces : x = y
  <2>1. BatchesOnce(result_queue) BY DEF QueuesOnce
  <2>2. ResultPlaces # {} <=> i \in Sent BY DEF Sent, Batches, At
  <2>3. \A x, y \in ResultPlaces : x = y BY <1>0, <2>1 DEF BatchesOnce, At
  <2> QED BY <2>2, <2>3
<1>5. /\ DataPlaces # {} <=> i \in Pinned
      /\ \A x, y \in DataPlaces : x = y
  <2>1. BatchesOnce(data_queue) BY DEF QueuesOnce
  <2>2. DataPlaces # {} <=> i \in Pinned BY DEF Pinned, Batches, At
  <2>3. \A x, y \in DataPlaces : x = y BY <1>0, <2>1 DEF BatchesOnce, At
  <2> QED BY <2>2, <2>3
<1>6. /\ DictPlaces # {} <=> i \in main.reorder_dict
      /\ \A x, y \in DictPlaces : x = y
  OBVIOUS
<1> HIDE DEF IndexPlaces, BufferPlaces, ResultPlaces, DataPlaces, DictPlaces
<1>7. Places(i) # {} <=> Somewhere(i)
  BY <1>1, <1>2, <1>3, <1>4, <1>5, <1>6 DEF Somewhere
<1>8. ASSUME NEW x \in Places(i), NEW y \in Places(i) PROVE x = y
  <2>1. \A v, w \in Workers : i \in Asked[v] /\ i \in Asked[w] => v = w
    BY DEF Apart
  <2>2. \A v, w \in Workers : i \in Loaded[v] /\ i \in Loaded[w] => v = w
    BY DEF Apart
  <2>3. /\ \A v, w \in Workers : ~(i \in Asked[v] /\ i \in Loaded[w])
        /\ \A w \in Workers : i \in Asked[w] \/ i \in Loaded[w] =>
             i \notin Sent /\ i \notin Pinned /\ i \notin main.reorder_dict
    BY DEF Apart
  <2>4. /\ i \in Sent => i \notin Pinned /\ i \notin main.reorder_dict
        /\ i \in Pinned => i \notin main.reorder_dict
    BY DEF Apart
  <2>5. CASE \E w \in Workers : x \in IndexPlaces(w)
    <3>1. PICK w \in Workers : x \in IndexPlaces(w) BY <2>5
    <3>2. i \in Asked[w] BY <1>2, <3>1
    <3>3. y \in IndexPlaces(w)
      BY <1>1, <1>2, <1>3, <1>4, <1>5, <1>6, <2>1, <2>3, <3>2
    <3> QED BY <1>2, <3>1, <3>3
  <2>6. CASE \E w \in Workers : x \in BufferPlaces(w)
    <3>1. PICK w \in Workers : x \in BufferPlaces(w) BY <2>6
    <3>2. i \in Loaded[w] BY <1>3, <3>1
    <3>3. y \in BufferPlaces(w)
      BY <1>1, <1>2, <1>3, <1>4, <1>5, <1>6, <2>2, <2>3, <3>2
    <3> QED BY <1>3, <3>1, <3>3
  <2>7. CASE x \in ResultPlaces
    <3>1. y \in ResultPlaces
      BY <1>1, <1>2, <1>3, <1>4, <1>5, <1>6, <2>3, <2>4, <2>7
    <3> QED BY <1>4, <2>7, <3>1
  <2>8. CASE x \in DataPlaces
    <3>1. y \in DataPlaces
      BY <1>1, <1>2, <1>3, <1>4, <1>5, <1>6, <2>3, <2>4, <2>8
    <3> QED BY <1>5, <2>8, <3>1
  <2>9. CASE x \in DictPlaces
    <3>1. y \in DictPlaces
      BY <1>1, <1>2, <1>3, <1>4, <1>5, <1>6, <2>3, <2>4, <2>9
    <3> QED BY <1>6, <2>9, <3>1
  <2> QED BY <1>1, <2>5, <2>6, <2>7, <2>8, <2>9
<1> QED BY <1>7, <1>8

(* BatchesAreHandedOutOnce: EachBatchOnce for any number of workers,       *)
(* batches and killed processes.                                           *)
THEOREM BatchesAreHandedOutOnce == Spec => []EachBatchOnce
<1>1. LoaderInv => EachBatchOnce
  <2> SUFFICES ASSUME LoaderInv, NEW i \in 0 .. NumBatches - 1
               PROVE  /\ i < main.rcvd_idx \/ i >= main.send_idx => InFlight(i) = 0
                      /\ InFlight(i) <= 1
                      /\ main.rcvd_idx <= i /\ i < main.send_idx /\ NoneKilled
                            /\ ~done_event => InFlight(i) = 1
    BY DEF EachBatchOnce
  <2>1. i \in Nat BY ProcessFacts
  <2>2. /\ Places(i) # {} <=> Somewhere(i)
        /\ \A x, y \in Places(i) : x = y
    BY <2>1, PlacesFacts
  <2>3. Somewhere(i) => i \in Pending
    BY DEF LoaderInv, PlacesInv, OnlyPending, Somewhere
  <2>4. NoneKilled /\ ~done_event /\ i \in Pending => Somewhere(i)
    BY DEF LoaderInv, PlacesInv, NoneLost
  <2>5. i \in Pending <=> ~(i < main.rcvd_idx \/ i >= main.send_idx)
    <3>1. main.rcvd_idx \in Nat /\ main.send_idx \in Nat BY DictFacts
    <3> QED BY <2>1, <3>1 DEF Pending
  <2>6. CASE Places(i) = {}
    <3>1. InFlight(i) = 0 BY <2>6, FS_EmptySet DEF InFlight
    <3>2. main.rcvd_idx \in Nat /\ main.send_idx \in Nat BY DictFacts
    <3> QED BY <2>1, <2>2, <2>4, <2>5, <2>6, <3>1, <3>2
  <2>7. CASE Places(i) # {}
    <3>1. PICK x : x \in Places(i) BY <2>7
    <3>2. Places(i) = {x} BY <2>2, <3>1
    <3>3. InFlight(i) = 1 BY <3>2, FS_Singleton DEF InFlight
    <3> QED BY <2>2, <2>3, <2>5, <2>7, <3>3
  <2> QED BY <2>6, <2>7
<1> QED BY <1>1, LoaderInvariant, PTL

=============================================================================
