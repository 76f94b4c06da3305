----------------------------- MODULE MemoryPool -----------------------------
(***************************************************************************)
(* sgi_memory_pool_t, with a free list for each multiple of __ALIGN, and   *)
(* fixed_memory_pool_t, with blocks of one size (memory_pool/).  allocate  *)
(* and deallocate hold the mutex throughout, so each call is one step.     *)
(*                                                                         *)
(* Memory is a range of addresses.  Requests above __MAX_BYTES go to       *)
(* malloc and free on both sides and never meet the pool.  reallocate() is *)
(* an allocate and a deallocate, each with its own lock, unless the block  *)
(* can stay where it is.                                                   *)
(***************************************************************************)
EXTENDS Naturals, Sequences, FiniteSets

CONSTANTS
  Align,         \* __ALIGN
  MaxBytes,      \* __MAX_BYTES, or __BYTES of the fixed pool
  NumNode,       \* __NUM_NODE
  Requests,      \* the sizes callers ask for
  MaxLive,       \* bound: blocks the callers have at a time
  MaxMem         \* bound: memory of the system

\* The instances in the code have 256 bytes and lists every 8.
ASSUME PoolAssumption ==
  /\ Align \in Nat \ {0} /\ NumNode \in Nat \ {0}
  /\ MaxBytes \in Nat \ {0} /\ MaxBytes % Align = 0
  /\ Requests \subseteq 1..MaxBytes
  /\ MaxLive \in Nat /\ MaxMem \in Nat

VARIABLES
  kind,          \* "sgi" or "fixed"
  start, end,    \* start_free_, end_free_
  heapSize,      \* heap_size_
  chunks,        \* buffers_
  lists,         \* free_lists_
  live,          \* blocks the callers have: address and requested size
  brk            \* end of what the system has given away

vars == <<kind, start, end, heapSize, chunks, lists, live, brk>>

Indices == 0..((MaxBytes \div Align) - 1)

Init ==
  /\ kind \in {"sgi", "fixed"}
  /\ start = 0 /\ end = 0 /\ heapSize = 0
  /\ chunks = {}
  /\ lists = [i \in Indices |-> <<>>]
  /\ live = {}
  /\ brk = Align

\* ROUNDUP
RoundUp(n) == ((n + Align - 1) \div Align) * Align

\* FREELISTINDEX; the fixed pool has one list.
ListIndex(n) == IF kind = "fixed" THEN 0 ELSE ((n + Align - 1) \div Align) - 1

\* The size of the block for a request.
BlockSize(n) == RoundUp(IF kind = "fixed" THEN MaxBytes ELSE n)

\* szLeft
Left == end - start

\* re_fill: the first block is for the caller, the others become the list, which
\* is empty, in the order of their addresses.
Refill(ls, n, at, count) ==
  /\ lists' = [ls EXCEPT ![ListIndex(n)] = [k \in 1..(count - 1) |-> at + k * BlockSize(n)]]
  /\ live' = live \cup {[at |-> at, n |-> n]}

\* allocate() finds a block in the free list.
AllocateFromList ==
  \E n \in Requests :
    LET i == ListIndex(n) IN
    /\ Cardinality(live) < MaxLive
    /\ lists[i] # <<>>
    /\ live' = live \cup {[at |-> Head(lists[i]), n |-> n]}
    /\ lists' = [lists EXCEPT ![i] = Tail(@)]
    /\ UNCHANGED <<kind, start, end, heapSize, chunks, brk>>

\* How many blocks chunk_alloc cuts from the rest of the chunk.
Cut(n) == IF Left >= BlockSize(n) * NumNode THEN NumNode ELSE Left \div BlockSize(n)

\* The list is empty and chunk_alloc has room for one block at least.
AllocateFromChunk ==
  \E n \in Requests :
    /\ Cardinality(live) < MaxLive
    /\ lists[ListIndex(n)] = <<>>
    /\ Left >= BlockSize(n)
    /\ Refill(lists, n, start, Cut(n))
    /\ start' = start + Cut(n) * BlockSize(n)
    /\ UNCHANGED <<kind, end, heapSize, chunks, brk>>

\* The remainder of the old chunk goes to the list of its size; the fixed pool has
\* no list for it.
Leftover ==
  IF kind = "sgi" /\ Left > 0
    THEN [lists EXCEPT ![ListIndex(Left)] = <<start>> \o @]
    ELSE lists

\* Mutant: the addition is not rounded.
ChunkSizeUneven(n) == 2 * BlockSize(n) * NumNode + heapSize \div 16

\* szGet
ChunkSize(n) == 2 * BlockSize(n) * NumNode + RoundUp(heapSize \div 16)

\* The system has a new chunk, from AllocT or, when that has none, from malloc.
AllocateFromSystem ==
  \E n \in Requests :
    LET get == ChunkSize(n) IN
    /\ Cardinality(live) < MaxLive
    /\ lists[ListIndex(n)] = <<>>
    /\ Left < BlockSize(n)
    /\ brk + get <= MaxMem
    /\ Refill(Leftover, n, brk, NumNode)
    /\ chunks' = chunks \cup {[at |-> brk, size |-> get]}
    /\ heapSize' = heapSize + get
    /\ start' = brk + NumNode * BlockSize(n)
    /\ end' = brk + get
    /\ brk' = brk + get + Align
    /\ UNCHANGED kind

\* Neither has: bad_alloc, after the remainder was filed and both pointers cleared.
AllocateFails ==
  /\ \E n \in Requests : lists[ListIndex(n)] = <<>> /\ Left < BlockSize(n)
  /\ lists' = Leftover
  /\ start' = 0 /\ end' = 0
  /\ UNCHANGED <<kind, heapSize, chunks, live, brk>>

\* deallocate() puts the block at the front of the list of its size.
Deallocate ==
  \E b \in live :
    /\ lists' = [lists EXCEPT ![ListIndex(b.n)] = <<b.at>> \o @]
    /\ live' = live \ {b}
    /\ UNCHANGED <<kind, start, end, heapSize, chunks, brk>>

\* reallocate() leaves a block whose rounded size does not change.
Stays(n, m) == RoundUp(n) = RoundUp(m)

ReallocateInPlace ==
  /\ kind = "sgi"
  /\ \E b \in live, m \in Requests :
       /\ Stays(b.n, m)
       /\ live' = (live \ {b}) \cup {[b EXCEPT !.n = m]}
  /\ UNCHANGED <<kind, start, end, heapSize, chunks, lists, brk>>

Next ==
  \/ AllocateFromList \/ AllocateFromChunk \/ AllocateFromSystem \/ AllocateFails
  \/ Deallocate \/ ReallocateInPlace

Spec == Init /\ [][Next]_vars

-----------------------------------------------------------------------------
(* Properties                                                              *)

\* The memory of a block in list i, of a block the caller has, of the rest of the
\* current chunk, and of a chunk.
ListSize(i) == IF kind = "fixed" THEN RoundUp(MaxBytes) ELSE (i + 1) * Align
FreeBytes(i, k) == lists[i][k]..(lists[i][k] + ListSize(i) - 1)
LiveBytes(b) == b.at..(b.at + BlockSize(b.n) - 1)
RestBytes == {a \in start..end : a < end}
ChunkBytes(c) == c.at..(c.at + c.size - 1)

FreeSlots == UNION {{<<i, k>> : k \in DOMAIN lists[i]} : i \in Indices}

\* No byte is in two places: blocks in use, free blocks of all lists and the rest
\* of the chunk are disjoint, whatever was cut, filed and given back before.
NoOverlap ==
  /\ \A b, c \in live : b # c => LiveBytes(b) \cap LiveBytes(c) = {}
  /\ \A p, q \in FreeSlots : p # q => FreeBytes(p[1], p[2]) \cap FreeBytes(q[1], q[2]) = {}
  /\ \A b \in live, p \in FreeSlots : LiveBytes(b) \cap FreeBytes(p[1], p[2]) = {}
  /\ \A b \in live : LiveBytes(b) \cap RestBytes = {}
  /\ \A p \in FreeSlots : FreeBytes(p[1], p[2]) \cap RestBytes = {}

\* Every block lies inside one chunk and starts at a multiple of the alignment.
InChunks ==
  /\ \A b \in live : \E c \in chunks :
       LiveBytes(b) \subseteq ChunkBytes(c) /\ (b.at - c.at) % Align = 0
  /\ \A p \in FreeSlots : \E c \in chunks :
       /\ FreeBytes(p[1], p[2]) \subseteq ChunkBytes(c)
       /\ (lists[p[1]][p[2]] - c.at) % Align = 0
  /\ Left > 0 => \E c \in chunks : RestBytes \subseteq ChunkBytes(c)

\* No memory is lost: the sgi pool always accounts for every byte it has taken from
\* the system; the fixed pool loses less than a block of each chunk.
Accounted ==
  (UNION {LiveBytes(b) : b \in live}) \cup (UNION {FreeBytes(p[1], p[2]) : p \in FreeSlots}) \cup RestBytes
NothingLost ==
  \A c \in chunks :
    LET lost == ChunkBytes(c) \ Accounted IN
    IF kind = "sgi" THEN lost = {} ELSE Cardinality(lost) < RoundUp(MaxBytes)

\* All the memory the pool took is divided into blocks in use, free blocks and
\* the rest of the chunk, each byte in one of them and each block in one chunk.
MemoryDivided == NoOverlap /\ InChunks /\ NothingLost
=============================================================================
