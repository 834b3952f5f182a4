------------------------------- MODULE Malloc -------------------------------
(***************************************************************************)
(* The heap of the C library: malloc, free, realloc and aligned_alloc over *)
(* chunks obtained from the kernel (userspace/libc/malloc.c).              *)
(*                                                                         *)
(* Addresses and sizes count units of ALIGN = 16 bytes, which is also the  *)
(* size of a block header and of a chunk header: every address and size in *)
(* the heap is a multiple of it.  The heap lock covers each call except    *)
(* the slow paths of realloc and aligned_alloc, which drop it and take it  *)
(* again, so a call is one action and a slow path is two or three.         *)
(* Callers pass only pointers they own.  A header word is known until its  *)
(* address is handed out as data: from then on the program may have        *)
(* written anything there.                                                 *)
(***************************************************************************)
EXTENDS Integers, Sequences, SequencesExt, FiniteSets

CONSTANTS HeapThread,   \* threads of one process
          Requests,     \* sizes asked for, in units
          Alignments,   \* alignments above ALIGN asked for, in units
          ChunkUnits,   \* CHUNK_SZ
          PageUnits,    \* PAGE_SZ
          MaxChunks,    \* chunks the kernel grants before it refuses
          Programs      \* the sets of calls a program may make

BlkHdr == 1
ChunkHdr == 1
MinSplit == 2

VARIABLES chunks,    \* g_chunks, newest first: [at, size]
          header,    \* the header words known: address -> [size, free]
          freeList,  \* g_free_list: addresses of headers
          live,      \* data pointers the program owns
          request,   \* the slow path a thread is in
          calls      \* the calls this program makes

heapVars == <<chunks, header, freeList, live, request, calls>>

Idle == [op |-> "idle"]

HeapInit ==
  /\ chunks = <<>> /\ header = <<>> /\ freeList = <<>> /\ live = {}
  /\ request = [t \in HeapThread |-> Idle]
  /\ calls \in Programs

RoundTo(n, align) == ((n + align - 1) \div align) * align

-----------------------------------------------------------------------------
(* The heap as a value [h, f]: header words and free list. *)

SetHdr(h, b, size, isFree) ==
  [a \in DOMAIN h \cup {b} |-> IF a = b THEN [size |-> size, free |-> isFree] ELSE h[a]]

\* the header word of a block that was merged into another
Forget(h, b) == [a \in DOMAIN h \ {b} |-> h[a]]

\* free_list_insert: before the first block that is not below b
FreeListInsert(f, b) ==
  LET below == SelectSeq(f, LAMBDA x : x < b)
  IN  below \o <<b>> \o SubSeq(f, Len(below) + 1, Len(f))

\* free_list_remove
FreeListRemove(f, b) == SelectSeq(f, LAMBDA x : x # b)

\* split_block
SplitBlock(s, b, size) ==
  LET old  == s.h[b].size
      rest == b + BlkHdr + size
  IN  IF old - size < MinSplit THEN s
      ELSE [h |-> SetHdr(SetHdr(s.h, rest, old - size - BlkHdr, TRUE), b, size, FALSE),
            f |-> FreeListInsert(s.f, rest)]

\* the first block of the free list that is large enough, or 0
FirstFit(s, size) ==
  LET fit == SelectSeq(s.f, LAMBDA b : s.h[b].size >= size)
  IN  IF fit = <<>> THEN 0 ELSE fit[1]

\* the data of b belongs to the program: no header is known there
HandOut(s, b) ==
  [s EXCEPT !.h = [a \in DOMAIN @ \ (b + BlkHdr .. b + @[b].size) |-> @[a]]]

\* the search loop of malloc, once it has found b
TakeBlock(s, b, size) ==
  LET t == SplitBlock([h |-> s.h, f |-> FreeListRemove(s.f, b)], b, size)
  IN  HandOut([t EXCEPT !.h = SetHdr(@, b, @[b].size, FALSE)], b)

\* new_chunk: the units asked from the kernel
ChunkTotal(data) ==
  LET total == ChunkHdr + BlkHdr + data
  IN  RoundTo(IF total < ChunkUnits THEN ChunkUnits ELSE total, PageUnits)

\* new_chunk at address c
AddChunk(s, c, data) ==
  LET b == c + ChunkHdr
  IN  [h |-> SetHdr(s.h, b, ChunkTotal(data) - ChunkHdr - BlkHdr, TRUE),
       f |-> FreeListInsert(s.f, b)]

\* where the kernel maps the next chunk: right behind the last one
NextChunk == IF chunks = <<>> THEN PageUnits ELSE chunks[1].at + ChunkHdr + chunks[1].size

Heap == [h |-> header, f |-> freeList]

Become(s) == header' = s.h /\ freeList' = s.f

-----------------------------------------------------------------------------
(* malloc and free *)

\* malloc: the pointer it returns, 0 when there is no memory
MallocPointer(size) ==
  LET b == FirstFit(Heap, size)
  IN  IF b # 0 THEN b + BlkHdr
      ELSE IF Len(chunks) = MaxChunks THEN 0
      ELSE FirstFit(AddChunk(Heap, NextChunk, size), size) + BlkHdr

\* and what it does to the heap
MallocHeap(size) ==
  LET b == FirstFit(Heap, size)
      c == NextChunk
      grown == AddChunk(Heap, c, size)
      nb == FirstFit(grown, size)
  IN  \/ /\ b # 0
         /\ Become(TakeBlock(Heap, b, size)) /\ UNCHANGED chunks
      \/ /\ b = 0 /\ Len(chunks) < MaxChunks
         /\ Become(TakeBlock(grown, nb, size))
         /\ chunks' = <<[at |-> c, size |-> ChunkTotal(size) - ChunkHdr]>> \o chunks
      \/ /\ b = 0 /\ Len(chunks) = MaxChunks
         /\ UNCHANGED <<chunks, header, freeList>>

HeapMalloc(t, size) ==
  /\ request[t] = Idle
  /\ size # 0
  /\ MallocHeap(size)
  /\ live' = live \cup ({MallocPointer(size)} \ {0})
  /\ UNCHANGED <<request, calls>>


\* free, forward coalescing
CoalesceForward(s, b) ==
  LET next == SelectSeq(s.f, LAMBDA x : x > b)
  IN  IF next # <<>> /\ next[1] = b + BlkHdr + s.h[b].size
      THEN [h |-> Forget(SetHdr(s.h, b, s.h[b].size + BlkHdr + s.h[next[1]].size, TRUE), next[1]),
            f |-> FreeListRemove(s.f, next[1])]
      ELSE s

\* free, backward coalescing
CoalesceBackward(s, b) ==
  LET below == SelectSeq(s.f, LAMBDA x : x < b)
      prev  == below[Len(below)]
  IN  IF below # <<>> /\ prev + BlkHdr + s.h[prev].size = b
      THEN [h |-> Forget(SetHdr(s.h, prev, s.h[prev].size + BlkHdr + s.h[b].size, TRUE), b),
            f |-> FreeListRemove(s.f, b)]
      ELSE s

FreeBlock(s, b) ==
  LET marked == [h |-> SetHdr(s.h, b, s.h[b].size, TRUE), f |-> FreeListInsert(s.f, b)]
  IN  CoalesceBackward(CoalesceForward(marked, b), b)

HeapFree(t, p) ==
  /\ request[t] = Idle
  /\ p \in live
  /\ Become(FreeBlock(Heap, p - BlkHdr))
  /\ live' = live \ {p}
  /\ UNCHANGED <<chunks, request, calls>>

-----------------------------------------------------------------------------
(* realloc *)

\* find_chunk: the end of the chunk b is in
ChunkEnd(b) ==
  LET c == CHOOSE c \in ToSet(chunks) : b \in c.at + ChunkHdr .. c.at + ChunkHdr + c.size - 1
  IN  c.at + ChunkHdr + c.size

\* what a read of the header at address a may find
HeaderAt(a) ==
  IF a \in DOMAIN header THEN {header[a]}
  ELSE [size : 0 .. ChunkUnits, free : BOOLEAN]

\* no block is behind b, or w, the header found there, does not let b grow to size
Stuck(b, w, size) ==
  \/ b + BlkHdr + header[b].size + BlkHdr > ChunkEnd(b)
  \/ ~w.free
  \/ header[b].size + BlkHdr + w.size < size

\* realloc of a block that is large enough; split_block sees the new size only
Shrink(s, b, size) ==
  IF s.h[b].size - size >= MinSplit
  THEN SplitBlock([s EXCEPT !.h = SetHdr(@, b, size, FALSE)], b, size)
  ELSE s

\* realloc absorbing the block behind b, whose header is w
Absorb(s, b, w, size) ==
  HandOut(SplitBlock([h |-> SetHdr(s.h, b, s.h[b].size + BlkHdr + w.size, FALSE),
                      f |-> FreeListRemove(s.f, b + BlkHdr + s.h[b].size)], b, size), b)

HeapRealloc(t, p, size) ==
  LET b   == p - BlkHdr
      old == header[b].size
  IN  /\ request[t] = Idle
      /\ p \in live
      /\ size # 0
      /\ UNCHANGED <<chunks, calls>>
      /\ \/ /\ old >= size
            /\ Become(Shrink(Heap, b, size))
            /\ UNCHANGED <<live, request>>
         \/ /\ old < size
            /\ \E w \in HeaderAt(b + BlkHdr + old) :
                 \/ /\ ~Stuck(b, w, size)
                    /\ Become(Absorb(Heap, b, w, size))
                    /\ UNCHANGED <<live, request>>
                 \/ /\ Stuck(b, w, size)
                    /\ request' = [request EXCEPT ![t] = [op |-> "move", from |-> p, size |-> size]]
                    /\ live' = live \ {p}       \* owned by this call from now on
                    /\ UNCHANGED <<header, freeList>>

\* the slow path: malloc, then memcpy and free
HeapReallocMalloc(t) ==
  LET r == request[t]
      p == MallocPointer(r.size)
  IN  /\ r.op = "move"
      /\ MallocHeap(r.size)
      /\ request' = [request EXCEPT ![t] =
                       IF p = 0 THEN Idle ELSE [op |-> "drop", from |-> r.from, to |-> p]]
      /\ live' = IF p = 0 THEN live \cup {r.from} ELSE live
      /\ UNCHANGED calls

HeapReallocFree(t) ==
  LET r == request[t]
  IN  /\ r.op = "drop"
      /\ Become(FreeBlock(Heap, r.from - BlkHdr))
      /\ live' = live \cup {r.to}
      /\ request' = [request EXCEPT ![t] = Idle]
      /\ UNCHANGED <<chunks, calls>>

-----------------------------------------------------------------------------
(* aligned_alloc *)

AlignedData(b, align) == RoundTo(b + BlkHdr + BlkHdr, align)

AlignedFit(s, align, size) ==
  LET fit == SelectSeq(s.f, LAMBDA b :
               AlignedData(b, align) + size <= b + BlkHdr + s.h[b].size)
  IN  IF fit = <<>> THEN 0 ELSE fit[1]

\* block b is cut into a leading fragment, the aligned block and a trailing one
TakeAligned(s, b, align, size) ==
  LET data  == AlignedData(b, align)
      end   == b + BlkHdr + s.h[b].size
      lead  == data - BlkHdr - (b + BlkHdr)
      trail == end - data - size
      s1 == [h |-> s.h, f |-> FreeListRemove(s.f, b)]
      s2 == IF lead >= MinSplit
            THEN [h |-> SetHdr(s1.h, b, lead - BlkHdr, TRUE), f |-> FreeListInsert(s1.f, b)]
            ELSE s1
  IN  HandOut(IF trail >= MinSplit
              THEN [h |-> SetHdr(SetHdr(s2.h, data - BlkHdr, size, FALSE),
                                 data + size, trail - BlkHdr, TRUE),
                    f |-> FreeListInsert(s2.f, data + size)]
              ELSE [s2 EXCEPT !.h = SetHdr(@, data - BlkHdr, end - data, FALSE)],
              data - BlkHdr)

HeapAlignedAlloc(t, align, size) ==
  LET b == AlignedFit(Heap, align, size)
      c == NextChunk
      total == size + align
      again == [op |-> "aligned", align |-> align, size |-> size]
  IN  /\ request[t] \in {Idle, again}
      /\ UNCHANGED calls
      /\ \/ /\ b # 0
            /\ Become(TakeAligned(Heap, b, align, size))
            /\ live' = live \cup {AlignedData(b, align)}
            /\ request' = [request EXCEPT ![t] = Idle]
            /\ UNCHANGED chunks
         \/ /\ b = 0 /\ Len(chunks) < MaxChunks
            /\ Become(AddChunk(Heap, c, total))
            /\ chunks' = <<[at |-> c, size |-> ChunkTotal(total) - ChunkHdr]>> \o chunks
            /\ request' = [request EXCEPT ![t] = again]      \* lock dropped, then retried
            /\ UNCHANGED live
         \/ /\ b = 0 /\ Len(chunks) = MaxChunks
            /\ request' = [request EXCEPT ![t] = Idle]
            /\ UNCHANGED <<chunks, header, freeList, live>>

\* realloc(p, 0) is free(p) and realloc(NULL, n) is malloc(n)
HeapNext ==
  \E t \in HeapThread :
    \/ \E size \in Requests : HeapMalloc(t, size)
    \/ \E p \in live : HeapFree(t, p)
    \/ \E p \in live, size \in Requests :
         /\ "realloc" \in calls \/ ("grow" \in calls /\ size >= header[p - BlkHdr].size)
         /\ HeapRealloc(t, p, size)
    \/ HeapReallocMalloc(t)
    \/ HeapReallocFree(t)
    \/ /\ "aligned_alloc" \in calls
       /\ \E align \in Alignments, size \in Requests : HeapAlignedAlloc(t, align, size)

-----------------------------------------------------------------------------
(* Properties *)

\* data pointers in use: those the program owns and those a realloc holds
InUse == live \cup {request[t].from : t \in {x \in HeapThread : request[x].op \in {"move", "drop"}}}
              \cup {request[t].to : t \in {x \in HeapThread : request[x].op = "drop"}}

Blocks == ToSet(freeList) \cup {p - BlkHdr : p \in InUse}

Extent(b) == b .. b + header[b].size

\* No two blocks overlap, whether free or in use, each lies within one chunk, and
\* the free list is sorted: no sequence of malloc, free, realloc and
\* aligned_alloc calls hands out the same memory twice.
BlocksDisjoint ==
  /\ Blocks \subseteq DOMAIN header
  /\ \A b, d \in Blocks : b # d => Extent(b) \cap Extent(d) = {}
  /\ \A b \in Blocks : \E c \in ToSet(chunks) :
       Extent(b) \subseteq c.at + ChunkHdr .. c.at + ChunkHdr + c.size - 1
  /\ \A i, j \in 1 .. Len(freeList) : i < j => freeList[i] < freeList[j]
=============================================================================
