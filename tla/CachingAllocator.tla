--------------------------- MODULE CachingAllocator -------------------------
(***************************************************************************)
(* THCCachingAllocator, the CUDA caching allocator                         *)
(* (c10/cuda/CUDACachingAllocator.cpp), with the driver and the streams it *)
(* uses.  Its mutex is held throughout every operation, so each of them is *)
(* one step; memory freed by the callbacks in the middle of malloc() is    *)
(* freed by the same thread, as part of that step.                         *)
(***************************************************************************)
EXTENDS Integers, Sequences, SequencesExt, FiniteSets, FiniteSetsExt

CONSTANTS
  Streams,    (* the streams                                               *)
  Programs,   (* [device, capacity, sizes]: the devices of the streams,    *)
              (* their memory in bytes, and the sizes the program asks for *)
  MaxLive,    (* bound on the blocks held by the program or by events      *)
  MaxKernels  (* bound on the kernels queued at a time                     *)

ASSUME AllocatorAssumption ==
  /\ IsFiniteSet(Streams) /\ Streams # {}
  /\ \A p \in Programs : /\ p.device \in [Streams -> STRING]
                          /\ p.capacity \in Nat /\ p.sizes \subseteq Nat \ {0}
  /\ MaxLive \in Nat /\ MaxKernels \in Nat

kMinBlockSize  == 512
kSmallSize     == 1048576
kSmallBuffer   == 2097152
kLargeBuffer   == 20971520
kMinLargeAlloc == 10485760
kRoundLarge    == 2097152

Sum(S, Op(_)) == FoldSet(LAMBDA x, n : n + Op(x), 0, S)

NoBlock == 0

VARIABLES
  program, (* the member of Programs                                        *)
  heap,   (* the fields of the allocator, and the streams' queues          *)
  result  (* how the last step ended: "done" or out of memory on a device  *)

vars == <<program, heap, result>>

DeviceOf == program.device
Devices == {DeviceOf[s] : s \in Streams}

(* A pointer is <<segment, offset>>.  A queue holds kernels, which use the *)
(* range [ptr, size], and the event of a block, which uses nothing.        *)
Kernel(b) == [event |-> NoBlock, ptr |-> b.ptr, size |-> b.size]
Event(b) == [event |-> b, ptr |-> <<0, 0>>, size |-> 0]
Kernels(h, s) == SelectSeq(h.queue[s], LAMBDA item : item.event = NoBlock)

Init ==
  /\ program \in Programs
  /\ heap = [blocks |-> <<>>,             (* Block, by its identity         *)
             small_blocks |-> {}, large_blocks |-> {},
             allocated_blocks |-> <<>>,   (* blocks by pointer              *)
             cuda_events |-> <<>>,        (* of [stream, block]             *)
             amount_allocated |-> [d \in Devices |-> 0],
             amount_cached |-> [d \in Devices |-> 0],
             queue |-> [s \in Streams |-> <<>>]]
  /\ result = "done"

Device(h, b) == DeviceOf[h.blocks[b].stream]

-----------------------------------------------------------------------------
(* Sizes.                                                                  *)
RoundUp(n, m) == m * ((n + m - 1) \div m)

round_size(size) ==
  IF size < kMinBlockSize THEN kMinBlockSize ELSE RoundUp(size, kMinBlockSize)

get_pool(size) == IF size <= kSmallSize THEN "small_blocks" ELSE "large_blocks"

get_allocation_size(size) ==
  IF size <= kSmallSize THEN kSmallBuffer
  ELSE IF size < kMinLargeAlloc THEN kLargeBuffer
  ELSE RoundUp(size, kRoundLarge)

should_split(block, size) ==
  IF block.pool = "small_blocks" THEN block.size - size >= kMinBlockSize
                                 ELSE block.size - size > kSmallSize

-----------------------------------------------------------------------------
(* Freeing a block.                                                        *)

Mergeable(block) == ~block.allocated /\ block.event_count = 0

try_merge_blocks(h, dst, src) ==
  IF src = NoBlock \/ ~Mergeable(h.blocks[src]) THEN h
  ELSE LET d == h.blocks[dst]
           s == h.blocks[src]
           before == d.prev = src
           merged == IF before
             THEN [d EXCEPT !.ptr = s.ptr, !.prev = s.prev, !.size = @ + s.size]
             ELSE [d EXCEPT !.next = s.next, !.size = @ + s.size]
       IN  [h EXCEPT
             !.blocks = [b \in DOMAIN @ \ {src} |->
                CASE b = dst -> merged
                  [] b # dst /\ before /\ b = s.prev -> [@[b] EXCEPT !.next = dst]
                  [] b # dst /\ ~before /\ b = s.next -> [@[b] EXCEPT !.prev = dst]
                  [] OTHER -> @[b]],
             ![d.pool] = @ \ {src}]

free_block(h, b) ==
  LET h1 == try_merge_blocks(h, b, h.blocks[b].prev)
      h2 == try_merge_blocks(h1, b, h1.blocks[b].next)
  IN  [h2 EXCEPT ![h.blocks[b].pool] = @ \cup {b}]

(* An event is destroyed, and its block freed if it was the last. *)
EventDone(h, e) ==
  LET h1 == [h EXCEPT !.blocks[e.block].event_count = @ - 1]
  IN  IF h1.blocks[e.block].event_count = 0 THEN free_block(h1, e.block) ELSE h1

(* Mutant: events are taken to have completed when they are looked at. *)
Completed_any(h, e) == TRUE

(* cudaEventQuery (external). *)
Completed(h, e) == ~\E i \in DOMAIN h.queue[e.stream] :
                      h.queue[e.stream][i].event = e.block

(* Events are taken off the front of the queue up to the first that has    *)
(* not completed.                                                          *)
process_events(h) ==
  LET n == Max({k \in 0 .. Len(h.cuda_events) :
                  \A i \in 1 .. k : Completed(h, h.cuda_events[i])})
  IN  [FoldLeft(EventDone, h, SubSeq(h.cuda_events, 1, n))
        EXCEPT !.cuda_events = SubSeq(@, n + 1, Len(@))]

(* The order in which an unordered_set yields the streams is arbitrary. *)
insert_events(h, b) ==
  LET uses == SetToSeq(h.blocks[b].stream_uses)
  IN  [h EXCEPT
        !.blocks[b].stream_uses = {},
        !.blocks[b].event_count = Len(uses),
        !.cuda_events = @ \o [i \in DOMAIN uses |->
                                [stream |-> uses[i], block |-> b]],
        !.queue = [s \in Streams |-> IF s \in ToSet(uses)
                                     THEN Append(@[s], Event(b)) ELSE @[s]]]

free(h, ptr) ==
  LET b == h.allocated_blocks[ptr]
      block == h.blocks[b]
      h1 == [h EXCEPT
              !.allocated_blocks = [p \in DOMAIN @ \ {ptr} |-> @[p]],
              !.blocks[b].allocated = FALSE,
              !.amount_allocated[Device(h, b)] = @ - block.size]
  IN  IF block.stream_uses # {} THEN insert_events(h1, b) ELSE free_block(h1, b)

-----------------------------------------------------------------------------
(* Returning memory to the driver.                                         *)

(* cudaEventSynchronize: the queue of a stream up to the last such event   *)
(* has been executed.                                                      *)
Synchronized(h, events) ==
  [h EXCEPT !.queue = [s \in Streams |->
     LET last == Max({i \in DOMAIN @[s] :
                        \E e \in events : e.stream = s /\ e.block = @[s][i].event}
                     \cup {0})
     IN  SubSeq(@[s], last + 1, Len(@[s]))]]

(* Mutant: blocks with outstanding events are left alone. *)
synchronize_and_free_events_none(h, devices) == h

synchronize_and_free_events(h, devices) ==
  LET here(e) == Device(h, e.block) \in devices
      there(e) == ~here(e)
      events == SelectSeq(h.cuda_events, here)
  IN  [FoldLeft(EventDone, Synchronized(h, ToSet(events)), events)
        EXCEPT !.cuda_events = SelectSeq(@, there)]

(* All blocks that are not split go back; cudaFree waits for the device. *)
free_blocks(h, devices) ==
  LET gone == {b \in h.small_blocks \cup h.large_blocks :
                 /\ Device(h, b) \in devices
                 /\ h.blocks[b].prev = NoBlock /\ h.blocks[b].next = NoBlock}
      on(d) == {b \in gone : Device(h, b) = d}
  IN  [h EXCEPT
        !.blocks = [b \in DOMAIN @ \ gone |-> @[b]],
        !.small_blocks = @ \ gone,
        !.large_blocks = @ \ gone,
        !.amount_cached = [d \in Devices |-> @[d] -
                             Sum(on(d), LAMBDA b : h.blocks[b].size)],
        !.queue = [s \in Streams |->
           IF on(DeviceOf[s]) = {} THEN @[s] ELSE <<>>]]

free_cached_blocks(h, devices) ==
  free_blocks(synchronize_and_free_events(h, devices), devices)

-----------------------------------------------------------------------------
(* Which Block object stands for which memory does not matter between two  *)
(* operations: after each, the blocks are numbered by address.             *)
Numbered(h) ==
  LET below(p, q) == p[1] < q[1] \/ (p[1] = q[1] /\ p[2] < q[2])
      number == [b \in DOMAIN h.blocks \cup {NoBlock} |->
        IF b = NoBlock THEN NoBlock
        ELSE 1 + Cardinality({c \in DOMAIN h.blocks :
                                below(h.blocks[c].ptr, h.blocks[b].ptr)})]
      numbers(S) == {number[b] : b \in S}
  IN  [h EXCEPT
        !.blocks = [n \in numbers(DOMAIN @) |->
           [@[CHOOSE b \in DOMAIN @ : number[b] = n]
             EXCEPT !.prev = number[@], !.next = number[@]]],
        !.small_blocks = numbers(@), !.large_blocks = numbers(@),
        !.allocated_blocks = [p \in DOMAIN @ |-> number[@[p]]],
        !.cuda_events = [i \in DOMAIN @ |-> [@[i] EXCEPT !.block = number[@]]],
        !.queue = [s \in Streams |-> [i \in DOMAIN @[s] |->
           [@[s][i] EXCEPT !.event = number[@]]]]]

-----------------------------------------------------------------------------
(* malloc().                                                               *)

(* lower_bound in the order of BlockComparator. *)
Before(h, a, b) ==
  LET x == h.blocks[a]
      y == h.blocks[b]
  IN  \/ x.size < y.size
      \/ x.size = y.size /\ x.ptr[1] < y.ptr[1]
      \/ x.size = y.size /\ x.ptr[1] = y.ptr[1] /\ x.ptr[2] <= y.ptr[2]

find_free_block(h, s, size) ==
  LET fit == {b \in h[get_pool(size)] :
                h.blocks[b].stream = s /\ h.blocks[b].size >= size}
  IN  IF fit = {} THEN NoBlock
      ELSE CHOOSE b \in fit : \A c \in fit : Before(h, b, c)

Fresh(used) == Min(1 .. (Cardinality(used) + 1) \ used)
Segments(h) == {h.blocks[b].ptr[1] : b \in DOMAIN h.blocks}

NewBlock(s, size, pool, ptr) ==
  [stream |-> s, stream_uses |-> {}, size |-> size, pool |-> pool, ptr |-> ptr,
   allocated |-> FALSE, prev |-> NoBlock, next |-> NoBlock, event_count |-> 0]

(* The driver has the memory (external); it may be where other memory was. *)
CudaMallocFits(h, s, size) ==
  h.amount_cached[DeviceOf[s]] + size <= program.capacity

AddSegment(h, s, size, pool) ==
  [h EXCEPT
    !.blocks = Fresh(DOMAIN @) :>
      NewBlock(s, size, pool, <<Fresh(Segments(h)), 0>>) @@ @,
    !.amount_cached[DeviceOf[s]] = @ + size]

(* Mutant: the left neighbour goes on pointing to the part that is cached. *)
Relinked_not(blocks, b, old, new) == blocks

(* block->prev->next = block. *)
Relinked(blocks, b, old, new) ==
  IF b = NoBlock THEN blocks ELSE [blocks EXCEPT ![b].next = new]

(* The front of a block that is too large becomes a block of its own. *)
Split(h, b, size) ==
  LET rest == h.blocks[b]
      new == Fresh(DOMAIN h.blocks)
      block == [NewBlock(rest.stream, size, rest.pool, rest.ptr)
                 EXCEPT !.prev = rest.prev, !.next = b]
      cut == [rest EXCEPT !.prev = new,
                          !.ptr = <<@[1], @[2] + size>>,
                          !.size = @ - size]
  IN  [h EXCEPT
        !.blocks = Relinked(new :> block @@ b :> cut @@ @, rest.prev, b, new),
        ![rest.pool] = @ \cup {b}]

(* Block b, which is in no pool, is handed out. *)
HandOut(h, b) ==
  [h EXCEPT
    !.blocks[b].allocated = TRUE,
    !.allocated_blocks = h.blocks[b].ptr :> b @@ @,
    !.amount_allocated[Device(h, b)] = @ + h.blocks[b].size]

Place(h, b, size) ==
  IF should_split(h.blocks[b], size)
  THEN HandOut(Split(h, b, size), Fresh(DOMAIN h.blocks))
  ELSE HandOut(h, b)

(* The callbacks (CudaIPCCollect) free the tensors in released: tensors    *)
(* the program has dropped after sending them to a process that has now    *)
(* released them, too.                                                     *)
Collected(h, released) == FoldLeft(free, h, SetToSeq(released))

Malloc(s, request, released) ==
  LET size == round_size(request)
      pool == get_pool(size)
      alloc_size == get_allocation_size(size)
      h0 == process_events(heap)
      hit == find_free_block(h0, s, size)
      h1 == Collected(h0, released)
      found == IF released = {} THEN hit ELSE find_free_block(h1, s, size)
      h2 == IF CudaMallocFits(h1, s, alloc_size) THEN h1
            ELSE free_cached_blocks(h1, {DeviceOf[s]})
  IN  /\ Cardinality(DOMAIN heap.allocated_blocks) < MaxLive
      /\ released # {} => hit = NoBlock
      /\ \/ /\ found # NoBlock
            /\ heap' = Numbered(Place([h1 EXCEPT ![pool] = @ \ {found}],
                                   found, size))
            /\ result' = "done"
         \/ /\ found = NoBlock /\ CudaMallocFits(h2, s, alloc_size)
            /\ heap' = Numbered(Place(AddSegment(h2, s, alloc_size, pool),
                                      Fresh(DOMAIN h2.blocks), size))
            /\ result' = "done"
         \/ /\ found = NoBlock /\ ~CudaMallocFits(h2, s, alloc_size)
            /\ heap' = Numbered(h2)
            /\ result' = DeviceOf[s]

Free(ptr) ==
  /\ heap' = Numbered(free(heap, ptr))
  /\ result' = "done"

emptyCache ==
  /\ heap' = Numbered(free_cached_blocks(heap, Devices))
  /\ result' = "done"

(* recordStream(), which ignores the stream of the allocation. *)
recordStream(h, ptr, s) ==
  LET b == h.allocated_blocks[ptr]
  IN  IF s = h.blocks[b].stream THEN h
      ELSE [h EXCEPT !.blocks[b].stream_uses = @ \cup {s}]

-----------------------------------------------------------------------------
(* The program queues a kernel that uses the memory, and records that; the *)
(* streams run (external).                                                 *)
Use(ptr, s) ==
  /\ Sum(Streams, LAMBDA t : Len(Kernels(heap, t))) < MaxKernels
  /\ LET block == heap.blocks[heap.allocated_blocks[ptr]]
         launched == [heap EXCEPT !.queue[s] = Append(@, Kernel(block))]
     IN  heap' = recordStream(launched, ptr, s)
  /\ result' = "done"

(* A stream executes what is at the front of its queue. *)
StreamStep(s) ==
  /\ heap.queue[s] # <<>>
  /\ heap' = [heap EXCEPT !.queue[s] = Tail(@)]
  /\ result' = "done"

Next ==
  /\ \/ \E s \in Streams, size \in program.sizes,
           released \in SUBSET DOMAIN heap.allocated_blocks :
          Malloc(s, size, released)
     \/ \E ptr \in DOMAIN heap.allocated_blocks :
          Free(ptr) \/ \E s \in Streams : Use(ptr, s)
     \/ emptyCache
     \/ \E s \in Streams : StreamStep(s)
  /\ UNCHANGED program

Spec == Init /\ [][Next]_vars

-----------------------------------------------------------------------------
Cached(d) == {b \in DOMAIN heap.blocks : Device(heap, b) = d}

(* The blocks of every segment are a list that covers it without a gap:    *)
(* they are linked both ways, adjacent, of one stream and one pool, and    *)
(* the sizes add up to what the driver was asked for.                      *)
ListsConsistent ==
  LET blk(b) == heap.blocks[b]
      first(b) == blk(b).prev = NoBlock
  IN  /\ \A b \in DOMAIN heap.blocks :
           /\ blk(b).size > 0
           /\ first(b) => blk(b).ptr[2] = 0
           /\ ~first(b) => blk(b).prev \in DOMAIN heap.blocks
                           /\ blk(blk(b).prev).next = b
           /\ blk(b).next # NoBlock =>
                /\ blk(b).next \in DOMAIN heap.blocks
                /\ LET n == blk(blk(b).next)
                   IN  /\ n.prev = b
                       /\ n.ptr = <<blk(b).ptr[1], blk(b).ptr[2] + blk(b).size>>
                       /\ n.stream = blk(b).stream /\ n.pool = blk(b).pool
                       /\ ~(Mergeable(n) /\ Mergeable(blk(b)))
      /\ \A b, c \in DOMAIN heap.blocks :
           first(b) /\ first(c) /\ blk(b).ptr[1] = blk(c).ptr[1] => b = c
      /\ \A d \in Devices :
           heap.amount_cached[d] = Sum(Cached(d), LAMBDA b : blk(b).size)

(* A block is handed out, or waits for exactly the events that are in the  *)
(* queue for it, or is in its pool.                                        *)
PoolsConsistent ==
  LET blk(b) == heap.blocks[b]
      used == {b \in DOMAIN heap.blocks : blk(b).allocated}
      events(b) == {i \in DOMAIN heap.cuda_events :
                      heap.cuda_events[i].block = b}
  IN  /\ \A ptr \in DOMAIN heap.allocated_blocks :
           /\ heap.allocated_blocks[ptr] \in used
           /\ blk(heap.allocated_blocks[ptr]).ptr = ptr
      /\ Cardinality(DOMAIN heap.allocated_blocks) = Cardinality(used)
      /\ \A b \in DOMAIN heap.blocks :
           /\ blk(b).event_count = Cardinality(events(b))
           /\ blk(b).allocated => events(b) = {}
           /\ blk(b).stream_uses # {} => blk(b).allocated
      /\ \A pool \in {"small_blocks", "large_blocks"} :
           heap[pool] = {b \in DOMAIN heap.blocks :
                           blk(b).pool = pool /\ ~blk(b).allocated
                           /\ events(b) = {}}
      /\ \A d \in Devices :
           heap.amount_allocated[d] =
             Sum(Cached(d) \cap used, LAMBDA b : blk(b).size)

(* HeapConsistent: after any sequence of operations the lists of           *)
(* neighbours, the pools, the table of pointers, the queue of events and   *)
(* the statistics agree, and no two adjacent blocks of a list are free.    *)
HeapConsistent == ListsConsistent /\ PoolsConsistent

(* OomSound: when malloc() reports that it is out of memory, "the only     *)
(* remaining cached memory is split from a larger block that is partially  *)
(* in-use": every segment of the device holds an allocation, and no block  *)
(* of the device still waits for an event.                                 *)
OomSound ==
  \A d \in Devices : result = d =>
    \A seg \in {heap.blocks[b].ptr[1] : b \in Cached(d)} :
      /\ \E ptr \in DOMAIN heap.allocated_blocks : ptr[1] = seg
      /\ \A b \in DOMAIN heap.blocks :
           heap.blocks[b].ptr[1] = seg => heap.blocks[b].event_count = 0

(* ReuseSafe: the allocator implements StreamMemory: memory that is part   *)
(* of an allocation, or that kernels of other streams will still use, is   *)
(* never handed out.                                                       *)
Memory == INSTANCE StreamMemory WITH
  live <- [ptr \in DOMAIN heap.allocated_blocks |->
            LET b == heap.blocks[heap.allocated_blocks[ptr]]
            IN  [size |-> b.size, stream |-> b.stream, users |-> b.stream_uses]],
  queued <- [s \in Streams |->
              [i \in DOMAIN Kernels(heap, s) |->
                 [ptr |-> Kernels(heap, s)[i].ptr,
                  size |-> Kernels(heap, s)[i].size]]]
ReuseSafe == Memory!Spec
=============================================================================
