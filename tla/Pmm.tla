-------------------------------- MODULE Pmm --------------------------------
(***************************************************************************)
(* The physical memory manager, src/src/memory/pmm.rs: one bit per page,   *)
(* a cached count of the clear bits, first-fit allocation of one page or   *)
(* of a contiguous run, release by address, and reservation of ranges.     *)
(*                                                                         *)
(* The bitmap is the set of the page indices whose bit is 1.  Addresses    *)
(* keep their byte granularity, because alignment and the rounding of a    *)
(* reserved range to whole pages are decisions of the code.  Zeroing the   *)
(* pages handed out is left out.                                           *)
(***************************************************************************)
EXTENDS Integers, FiniteSets

CONSTANTS
  PAGE_SIZE,    \* bytes per page
  MAX_PAGES,    \* bits in the bitmap
  BITMAP_BASE,  \* where the bitmap itself lives
  base_addr,    \* first managed byte
  memory_size,  \* bytes managed
  MaxCount,     \* bound: most pages named in one call
  Addresses,    \* bound: addresses passed to free_page and reserve_range
  Sizes         \* bound: sizes passed to reserve_range

MAX_PHYS_MEMORY == MAX_PAGES * PAGE_SIZE

\* kernel_main passes KERNEL_BASE, which is page aligned and below the
\* bitmap, and exactly MAX_PHYS_MEMORY bytes.
ASSUME PmmConstants ==
  /\ PAGE_SIZE \in Nat \ {0}
  /\ MAX_PAGES \in Nat /\ MAX_PAGES % 8 = 0
  /\ base_addr \in Nat /\ base_addr % PAGE_SIZE = 0
  /\ BITMAP_BASE \in Nat /\ base_addr <= BITMAP_BASE
  /\ memory_size \in Nat /\ memory_size <= MAX_PHYS_MEMORY
  /\ MaxCount \in Nat \ {0}
  /\ Addresses \subseteq Nat
  /\ Sizes \subseteq Nat

BITMAP_SIZE == MAX_PAGES \div 8

total_pages == memory_size \div PAGE_SIZE
end_addr == base_addr + memory_size

Pages == 0 .. total_pages - 1

VARIABLES bitmap,           \* indices of the bits that are 1
          free_page_count,  \* cached number of free pages
          reply             \* the outcome of the last call

vars == <<bitmap, free_page_count, reply>>

\* Fault: the index is turned into an address without base_addr.
PageAddrWithoutBase(i) == i * PAGE_SIZE

PageAddr(i) == base_addr + i * PAGE_SIZE
Index(addr) == (addr - base_addr) \div PAGE_SIZE

Granted(addr, n) == [kind |-> "granted", addr |-> addr, count |-> n]
Failed(e, n) == [kind |-> e, addr |-> 0, count |-> n]
Reserved(addr, n) == [kind |-> "reserved", addr |-> addr, count |-> n]
Done == [kind |-> "done", addr |-> 0, count |-> 0]

-----------------------------------------------------------------------------
(* Bits *)

get_bit(i) == i >= MAX_PAGES \/ i \in bitmap

\* set_bit and clear_bit do nothing past the end of the bitmap.
InBitmap(S) == {i \in S : i < MAX_PAGES}

saturating_sub(a, b) == IF a >= b THEN a - b ELSE 0

-----------------------------------------------------------------------------
(* Pmm::new: everything is free except the pages that hold the bitmap. *)

bitmap_start_page == (BITMAP_BASE - base_addr) \div PAGE_SIZE
bitmap_pages == (BITMAP_SIZE + PAGE_SIZE - 1) \div PAGE_SIZE

OwnPages ==
  {i \in Pages : bitmap_start_page <= i /\ i < bitmap_start_page + bitmap_pages}

Init ==
  /\ bitmap = InBitmap(OwnPages)
  /\ free_page_count = saturating_sub(total_pages, Cardinality(OwnPages))
  /\ reply = Done

-----------------------------------------------------------------------------
(* Allocation.  Both calls scan upwards and take the first fit; that the   *)
(* loop of alloc_pages computes FirstFit is the subject of PmmScan.        *)

\* The runs of n pages whose bits are all clear, by their first index.
FreeRuns(n) ==
  {s \in Pages : s + n <= total_pages /\ \A i \in s .. s + n - 1 : ~ get_bit(i)}

\* Neither scan settles on an empty run: the counter of alloc_pages is at
\* least 1 whenever it is compared with count.
FirstFit(n) == IF n = 0 THEN {} ELSE {s \in FreeRuns(n) : \A r \in FreeRuns(n) : s <= r}

Take(s, n) ==
  /\ bitmap' = bitmap \cup InBitmap(s .. s + n - 1)
  /\ free_page_count' = free_page_count - n
  /\ reply' = Granted(PageAddr(s), n)

OutOfMemory(n) ==
  /\ reply' = Failed("OutOfMemory", n)
  /\ UNCHANGED <<bitmap, free_page_count>>

alloc_page ==
  \/ /\ free_page_count = 0 \/ FirstFit(1) = {}
     /\ OutOfMemory(1)
  \/ /\ free_page_count # 0
     /\ \E i \in FirstFit(1) : Take(i, 1)

alloc_pages(count) ==
  \/ /\ free_page_count < count \/ FirstFit(count) = {}
     /\ OutOfMemory(count)
  \/ /\ free_page_count >= count
     /\ \E start \in FirstFit(count) : Take(start, count)

-----------------------------------------------------------------------------
(* Release *)

\* Fault: a page that is free already is freed again.
FreeOutcomeUnchecked(addr) ==
  CASE addr < base_addr \/ addr >= end_addr -> "InvalidAddress"
    [] addr % PAGE_SIZE # 0                 -> "InvalidArgument"
    [] OTHER                                -> "done"

\* The outcome of free_page: its checks in the order of the code.
FreeOutcome(addr) ==
  CASE addr < base_addr \/ addr >= end_addr -> "InvalidAddress"
    [] addr % PAGE_SIZE # 0                 -> "InvalidArgument"
    [] ~ get_bit(Index(addr))               -> "PageNotMapped"
    [] OTHER                                -> "done"

\* The iterations of free_pages_range that succeed: `?` leaves the loop at the
\* first page free_page refuses and keeps the earlier ones free.  The pages
\* are distinct, so no iteration changes the outcome of another.
FreedPrefix(addr, count) ==
  {k \in 0 .. count - 1 : \A j \in 0 .. k : FreeOutcome(addr + j * PAGE_SIZE) = "done"}

free_pages_range(addr, count) ==
  LET prefix == FreedPrefix(addr, count)
      freed == {Index(addr + k * PAGE_SIZE) : k \in prefix}
      stop == Cardinality(prefix)
  IN  /\ bitmap' = bitmap \ InBitmap(freed)
      /\ free_page_count' = free_page_count + stop
      /\ reply' = IF stop = count
                  THEN Done
                  ELSE Failed(FreeOutcome(addr + stop * PAGE_SIZE), 0)

free_page(addr) ==
  \/ /\ FreeOutcome(addr) = "done"
     /\ bitmap' = bitmap \ InBitmap({Index(addr)})
     /\ free_page_count' = free_page_count + 1
     /\ reply' = Done
  \/ /\ FreeOutcome(addr) # "done"
     /\ reply' = Failed(FreeOutcome(addr), 0)
     /\ UNCHANGED <<bitmap, free_page_count>>

-----------------------------------------------------------------------------
(* Reservation *)

\* Fault: the end of the range is rounded down to a whole page.
ReservedPagesRoundsDown(start, size) ==
  LET end_page == IF start + size > end_addr
                  THEN total_pages
                  ELSE (start + size - base_addr) \div PAGE_SIZE
  IN  {i \in Pages : Index(start) <= i /\ i < end_page}

\* Fault: the page behind the range is taken too.
ReservedPagesOneMore(start, size) ==
  LET end_page == IF start + size > end_addr
                  THEN total_pages
                  ELSE (start + size - base_addr + PAGE_SIZE - 1) \div PAGE_SIZE
  IN  {i \in Pages : Index(start) <= i /\ i <= end_page}

\* The pages reserve_range walks: from the page of start up to the page of the
\* last byte, cut at the end of the managed memory.
ReservedPages(start, size) ==
  LET end_page == IF start + size > end_addr
                  THEN total_pages
                  ELSE (start + size - base_addr + PAGE_SIZE - 1) \div PAGE_SIZE
  IN  {i \in Pages : Index(start) <= i /\ i < end_page}

reserve_range(start, size) ==
  LET taken == IF start < base_addr
               THEN {}
               ELSE {i \in ReservedPages(start, size) : ~ get_bit(i)}
  IN  /\ bitmap' = bitmap \cup InBitmap(taken)
      /\ free_page_count' = saturating_sub(free_page_count, Cardinality(taken))
      /\ reply' = Reserved(start, size)

-----------------------------------------------------------------------------

Next ==
  \/ alloc_page
  \/ \E count \in 0 .. MaxCount : alloc_pages(count)
  \/ \E addr \in Addresses : free_page(addr)
  \/ \E addr \in Addresses, count \in 0 .. MaxCount : free_pages_range(addr, count)
  \/ \E start \in Addresses, size \in Sizes : reserve_range(start, size)

Spec == Init /\ [][Next]_vars

-----------------------------------------------------------------------------
(* Properties *)

Replies ==
  [kind : {"granted", "reserved", "done", "OutOfMemory", "InvalidAddress", "InvalidArgument",
           "PageNotMapped"},
   addr : Nat, count : Nat]

\* Only bits of managed pages are ever set, and the counter is a natural number.
TypeOK ==
  /\ bitmap \in SUBSET Pages
  /\ free_page_count \in Nat
  /\ reply \in Replies

\* The cached counter, which alloc_page and alloc_pages trust as an early exit
\* and free_page_count()/used_pages() report, never drifts from the bitmap:
\* over any mixture of allocations, double frees, partial range frees and
\* overlapping reservations it is the number of clear bits.
CountMatchesBitmap == free_page_count = Cardinality(Pages \ bitmap)

\* OutOfMemory is never a false alarm: when alloc_page or alloc_pages refuses
\* n > 0 pages, the bitmap holds no run of n clear bits, so neither the early
\* exit on the counter nor the scan gave up too soon.
RefusalIsGenuine ==
  (reply.kind = "OutOfMemory" /\ reply.count > 0) => FreeRuns(reply.count) = {}

\* What an allocation returns is what a release accepts: the address granted
\* names count managed pages, each of which free_page would now take back.
GrantCanBeFreed ==
  reply.kind = "granted" =>
    \A k \in 0 .. reply.count - 1 :
      /\ FreeOutcome(reply.addr + k * PAGE_SIZE) = "done"
      /\ Index(reply.addr + k * PAGE_SIZE) \in Pages

\* No byte of a range that was just reserved is left on an allocatable page:
\* reserve_range leaves no clear bit on any page that overlaps
\* [start, start + size), although neither end need be page aligned.
ReserveCoversRange ==
  (reply.kind = "reserved" /\ reply.addr >= base_addr) =>
    \A i \in Pages :
      (PageAddr(i) < reply.addr + reply.count /\ reply.addr < PageAddr(i) + PAGE_SIZE)
        => i \in bitmap

\* The bitmap allocator implements the abstract one: grants are runs of free
\* pages, refusals are genuine, a failed range release has freed exactly the
\* pages before the failing one, and a reservation takes exactly the pages its
\* range overlaps.
Abstract ==
  INSTANCE PageAllocator WITH
    Frames <- {PageAddr(pg) : pg \in Pages},
    PageBytes <- PAGE_SIZE,
    MaxRequest <- MaxCount,
    Named <- Addresses,
    Lengths <- Sizes,
    Errors <- {"InvalidAddress", "InvalidArgument", "PageNotMapped"},
    free <- {PageAddr(pg) : pg \in Pages \ bitmap},
    answer <- reply

Refinement == Abstract!Spec
=============================================================================
