------------------------------ MODULE SlabHeap ------------------------------
(***************************************************************************)
(* The kernel heap of src/src/memory/heap.rs: slab classes with stacks of  *)
(* free blocks, refilled a page at a time from a bump pointer that also    *)
(* serves the requests too large for a class.  Its callers free what they  *)
(* allocated, once, with the layout they allocated it with (the contract   *)
(* of GlobalAlloc).  The contents of the blocks are left out.              *)
(***************************************************************************)
EXTENDS Integers, Sequences, FiniteSets

CONSTANTS
  SLAB_MIN_SIZE,          \* 8
  SLAB_MAX_SIZE,          \* 4096
  SLAB_CLASSES,           \* 10
  MAX_BLOCKS_PER_CLASS,   \* 1024
  PAGE,                   \* 4096: what a class is refilled with
  start, size,            \* the arguments of init
  Layouts                 \* the layouts callers ask for, [size, align]

ASSUME HeapConstants ==
  /\ {SLAB_MIN_SIZE, SLAB_MAX_SIZE, SLAB_CLASSES, PAGE, start} \subseteq Nat \ {0}
  /\ MAX_BLOCKS_PER_CLASS \in Nat /\ size \in Nat
  /\ SLAB_CLASSES * PAGE <= size
  /\ \A l \in Layouts : l.size \in Nat /\ l.align \in Nat \ {0}

Null == 0
Classes == 0 .. SLAB_CLASSES - 1
BlockSize(c) == SLAB_MIN_SIZE * 2 ^ c

ASSUME BlockSizes == \A c \in Classes : BlockSize(c) \in Nat \ {0}

VARIABLES
  HEAP_INITIALIZED,
  bump_offset,
  free_list,      \* free_list[0 .. free_count - 1] of each class
  total_count,    \* blocks ever given to each class
  live,           \* what callers hold: [addr, layout]
  refused         \* the layout the last call refused with null, or NoLayout

vars == <<HEAP_INITIALIZED, bump_offset, free_list, total_count, live, refused>>

NoLayout == [size |-> 0, align |-> 0]
heap_size == IF HEAP_INITIALIZED THEN size ELSE 0

min(a, b) == IF a <= b THEN a ELSE b

\* The first n blocks of size b of the page at address p.
Blocks(p, b, n) == [j \in 1 .. n |-> p + (j - 1) * b]

Init ==
  /\ HEAP_INITIALIZED = FALSE
  /\ bump_offset = 0
  /\ free_list = [c \in Classes |-> <<>>]
  /\ total_count = [c \in Classes |-> 0]
  /\ live = {}
  /\ refused = NoLayout

\* KernelHeap::init: one page for every class; a second call returns at once.
init ==
  /\ ~ HEAP_INITIALIZED
  /\ HEAP_INITIALIZED' = TRUE
  /\ LET n(c) == min(PAGE \div BlockSize(c), MAX_BLOCKS_PER_CLASS)
     IN  /\ free_list' = [c \in Classes |-> Blocks(start + c * PAGE, BlockSize(c), n(c))]
         /\ total_count' = [c \in Classes |-> n(c)]
  /\ bump_offset' = SLAB_CLASSES * PAGE
  /\ refused' = NoLayout /\ UNCHANGED live

aligned_size(l) == IF l.size < l.align THEN l.align ELSE l.size

\* The first class that fits, none for zero and for more than SLAB_MAX_SIZE.
find_slab_class(n) ==
  {c \in Classes : /\ n <= SLAB_MAX_SIZE /\ n # 0
                   /\ n <= BlockSize(c)
                   /\ \A d \in Classes : n <= BlockSize(d) => c <= d}

Answer(l, addr) ==
  IF addr = Null
  THEN refused' = l /\ UNCHANGED live
  ELSE refused' = NoLayout /\ live' = live \cup {[addr |-> addr, layout |-> l]}

\* Fault: the page given to the class is not taken from the bump pointer.
alloc_from_slabSharesPage(c, l) ==
  LET refill == free_list[c] = <<>>
      room == bump_offset + PAGE <= heap_size
      added == min(PAGE \div BlockSize(c), MAX_BLOCKS_PER_CLASS - total_count[c])
      list == IF refill /\ room
              THEN Blocks(start + bump_offset, BlockSize(c), added) ELSE free_list[c]
      n == Len(list)
  IN  /\ total_count' = [total_count EXCEPT ![c] = IF refill /\ room THEN @ + added ELSE @]
      /\ free_list' = [free_list EXCEPT ![c] = IF n > 0 THEN SubSeq(list, 1, n - 1) ELSE list]
      /\ Answer(l, IF n > 0 THEN list[n] ELSE Null)
      /\ UNCHANGED bump_offset

\* alloc_from_slab pops a block; when the class has none it first takes a page
\* from the bump pointer, and gives the class as many of the page's blocks as
\* its limit still allows, possibly none.
alloc_from_slab(c, l) ==
  LET refill == free_list[c] = <<>>
      room == bump_offset + PAGE <= heap_size
      added == min(PAGE \div BlockSize(c), MAX_BLOCKS_PER_CLASS - total_count[c])
      list == IF refill /\ room
              THEN Blocks(start + bump_offset, BlockSize(c), added) ELSE free_list[c]
      n == Len(list)
  IN  /\ IF refill /\ room
         THEN /\ bump_offset' = bump_offset + PAGE
              /\ total_count' = [total_count EXCEPT ![c] = @ + added]
         ELSE UNCHANGED <<bump_offset, total_count>>
      /\ free_list' = [free_list EXCEPT ![c] = IF n > 0 THEN SubSeq(list, 1, n - 1) ELSE list]
      /\ Answer(l, IF n > 0 THEN list[n] ELSE Null)

\* alloc_bump; align is a power of two, so masking rounds down to a multiple.
alloc_bump(n, align, l) ==
  LET aligned_offset == ((bump_offset + align - 1) \div align) * align
      fits == aligned_offset + n <= heap_size
  IN  /\ bump_offset' = IF fits THEN aligned_offset + n ELSE bump_offset
      /\ Answer(l, IF fits THEN start + aligned_offset ELSE Null)
      /\ UNCHANGED <<free_list, total_count>>

alloc(l) ==
  /\ LET classes == {c \in find_slab_class(aligned_size(l)) : BlockSize(c) >= l.align}
     IN  \/ \E c \in classes : alloc_from_slab(c, l)
         \/ classes = {} /\ alloc_bump(aligned_size(l), l.align, l)
  /\ UNCHANGED HEAP_INITIALIZED

\* Fault: the last place of the array is never used.
deallocDropsLast(a) ==
  /\ a \in live
  /\ live' = live \ {a}
  /\ free_list' = [c \in Classes |->
       IF c \in find_slab_class(aligned_size(a.layout)) /\ Len(free_list[c]) + 1 < MAX_BLOCKS_PER_CLASS
       THEN Append(free_list[c], a.addr) ELSE free_list[c]]
  /\ refused' = NoLayout
  /\ UNCHANGED <<HEAP_INITIALIZED, bump_offset, total_count>>

\* dealloc: free_to_slab pushes the block if the array has room, and memory
\* from the bump pointer is not reused.
dealloc(a) ==
  /\ a \in live
  /\ live' = live \ {a}
  /\ free_list' = [c \in Classes |->
       IF c \in find_slab_class(aligned_size(a.layout)) /\ Len(free_list[c]) < MAX_BLOCKS_PER_CLASS
       THEN Append(free_list[c], a.addr) ELSE free_list[c]]
  /\ refused' = NoLayout
  /\ UNCHANGED <<HEAP_INITIALIZED, bump_offset, total_count>>

Next ==
  \/ init
  \/ \E l \in Layouts : alloc(l)
  \/ \E a \in live : dealloc(a)

Spec == Init /\ [][Next]_vars

-----------------------------------------------------------------------------
(* Properties *)

\* Offsets and counts stay within the heap and the free_list arrays.
TypeOK ==
  /\ HEAP_INITIALIZED \in BOOLEAN
  /\ bump_offset \in 0 .. heap_size
  /\ \A c \in Classes : /\ free_list[c] \in Seq(start .. start + size - 1)
                        /\ Len(free_list[c]) <= total_count[c]
                        /\ total_count[c] \in 0 .. MAX_BLOCKS_PER_CLASS
  /\ \A a \in live : a.layout \in Layouts

SlabLive(c) == {a \in live : c \in find_slab_class(aligned_size(a.layout))}

\* The memory areas in use, with their owners: what callers hold, and what
\* waits at each place of the lists.
Caller == <<>>
Areas ==
  {[addr |-> a.addr, len |-> aligned_size(a.layout), of |-> Caller] : a \in live}
    \cup UNION {{[addr |-> free_list[c][k], len |-> BlockSize(c), of |-> <<c, k>>]
                   : k \in 1 .. Len(free_list[c])} : c \in Classes}

\* No two callers share a byte, no free block lies in memory a caller holds,
\* and everything lies between the start of the heap and the bump pointer,
\* however allocations, frees and refills follow each other.
NoOverlap ==
  /\ \A a \in Areas : start <= a.addr /\ a.addr + a.len <= start + bump_offset
  /\ \A a, b \in Areas : a # b => a.addr + a.len <= b.addr \/ b.addr + b.len <= a.addr

\* The slabs lose no block: every block a class was given is in its list, once,
\* or held by a caller.  (In particular the test free_count < MAX in
\* free_to_slab never drops a block.)
BlocksConserved ==
  \A c \in Classes :
    /\ Len(free_list[c]) + Cardinality(SlabLive(c)) = total_count[c]
    /\ \A j, k \in 1 .. Len(free_list[c]) : free_list[c][j] = free_list[c][k] => j = k

-----------------------------------------------------------------------------
(* What the documentation says and the code does not do; each is violated. *)

\* "GlobalAlloc implementation for alloc crate": the address answered is a
\* multiple of the alignment asked for.
AlignmentHonoured == \A a \in live : a.addr % a.layout.align = 0

\* "10 slab classes (8 B - 4 KB) + bump pointer fallback": a request is refused
\* only when the bump pointer has no room for it either.
FallsBackToBump ==
  (HEAP_INITIALIZED /\ refused # NoLayout) =>
    bump_offset + refused.align - 1 + aligned_size(refused) > size
=============================================================================
