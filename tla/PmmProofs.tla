----------------------------- MODULE PmmProofs -----------------------------
(***************************************************************************)
(* Proofs about the physical memory manager, for every page size, memory   *)
(* size and set of calls.  The inductive invariant is PmmInv below: the    *)
(* counter is accurate, and that alone makes the early exits of the two    *)
(* allocation calls sound.                                                 *)
(***************************************************************************)
EXTENDS PmmScan, FiniteSetTheorems, TLAPS

-----------------------------------------------------------------------------
(* Division by the page size *)

LEMMA DivAdd ==
  ASSUME NEW P \in Nat \ {0}, NEW a \in Nat, NEW k \in Nat
  PROVE  (a + k * P) \div P = (a \div P) + k
  BY SMT

LEMMA DivMod ==
  ASSUME NEW P \in Nat \ {0}, NEW a \in Nat
  PROVE  a = (a \div P) * P + (a % P) /\ a \div P \in Nat /\ a % P \in 0 .. P - 1
  BY SMT

LEMMA DivLess ==
  ASSUME NEW P \in Nat \ {0}, NEW a \in Nat, NEW m \in Nat, a < m * P
  PROVE  a \div P < m
  BY SMT

LEMMA DivAtMost ==
  ASSUME NEW P \in Nat \ {0}, NEW a \in Nat, NEW m \in Nat, a <= m * P
  PROVE  a \div P <= m
  BY SMT

LEMMA DivAtLeast ==
  ASSUME NEW P \in Nat \ {0}, NEW a \in Nat, NEW m \in Nat, m * P <= a
  PROVE  m <= a \div P
  BY SMT

\* Moving by whole pages keeps an address aligned.
LEMMA ModAdd ==
  ASSUME NEW P \in Nat \ {0}, NEW a \in Nat, NEW k \in Nat, a % P = 0
  PROVE  (a + k * P) % P = 0
<1>1. a + k * P \in Nat
  BY SMT
<1>2. a = (a \div P) * P + 0
  BY DivMod
<1>3. a + k * P = ((a \div P) + k) * P + ((a + k * P) % P)
  BY <1>1, DivMod, DivAdd, ZenonT(30)
<1>4. ((a \div P) + k) * P = (a \div P) * P + k * P
  BY DivMod, SMT
<1>5. (a + k * P) % P \in Nat
  BY <1>1, DivMod
<1> QED
  BY <1>2, <1>3, <1>4, <1>5, DivMod, SMT

-----------------------------------------------------------------------------
(* The constants *)

\* The bitmap has a bit for every managed page.
LEMMA BitmapCoversPages ==
  /\ total_pages \in Nat
  /\ total_pages <= MAX_PAGES
  /\ IsFiniteSet(Pages)
  /\ Pages \subseteq Nat
  /\ Cardinality(Pages) = total_pages
<1>1. total_pages \in Nat
  BY PmmConstants, DivMod, Zenon DEF total_pages
<1>2. total_pages <= MAX_PAGES
  BY PmmConstants, DivAtMost DEF total_pages, MAX_PHYS_MEMORY
<1>3. IsFiniteSet(Pages) /\ Cardinality(Pages) = total_pages
  BY <1>1, FS_Interval DEF Pages
<1> QED
  BY <1>1, <1>2, <1>3 DEF Pages

\* Setting or clearing the bits of managed pages is never cut short.
LEMMA InBitmapPages ==
  ASSUME NEW S \in SUBSET Pages
  PROVE  InBitmap(S) = S
<1>1. \A x \in Pages : x < MAX_PAGES
  BY BitmapCoversPages, PmmConstants DEF Pages
<1> QED
  BY <1>1 DEF InBitmap

\* How many free pages remain when some are taken, and when some come back.
LEMMA TakeCount ==
  ASSUME NEW B \in SUBSET Pages, NEW T \in SUBSET (Pages \ B)
  PROVE  /\ Cardinality(Pages \ B) \in Nat
         /\ Cardinality(T) \in Nat
         /\ Cardinality(T) <= Cardinality(Pages \ B)
         /\ Cardinality(Pages \ (B \cup T)) = Cardinality(Pages \ B) - Cardinality(T)
<1>1. IsFiniteSet(Pages \ B)
  BY BitmapCoversPages, FS_Difference, Zenon
<1>2. /\ IsFiniteSet(T)
      /\ Cardinality(T) <= Cardinality(Pages \ B)
  BY <1>1, FS_Subset
<1>3. Cardinality((Pages \ B) \ T) = Cardinality(Pages \ B) - Cardinality((Pages \ B) \cap T)
  BY <1>1, FS_Difference, Zenon
<1>4. (Pages \ B) \cap T = T /\ (Pages \ B) \ T = Pages \ (B \cup T)
  OBVIOUS
<1> QED
  BY <1>1, <1>2, <1>3, <1>4, FS_CardinalityType, Zenon

LEMMA ReleaseCount ==
  ASSUME NEW B \in SUBSET Pages, NEW R \in SUBSET B
  PROVE  Cardinality(Pages \ (B \ R)) = Cardinality(Pages \ B) + Cardinality(R)
<1>1. R \in SUBSET (Pages \ (B \ R)) /\ B \ R \in SUBSET Pages /\ (B \ R) \cup R = B
  OBVIOUS
<1>2. /\ Cardinality(Pages \ (B \ R)) \in Nat
      /\ Cardinality(R) \in Nat
      /\ Cardinality(Pages \ ((B \ R) \cup R)) = Cardinality(Pages \ (B \ R)) - Cardinality(R)
  BY <1>1, TakeCount, Zenon
<1>3. Cardinality(Pages \ B) = Cardinality(Pages \ (B \ R)) - Cardinality(R)
  BY <1>1, <1>2, Zenon
<1> QED
  BY <1>2, <1>3

-----------------------------------------------------------------------------
(* Addresses *)

\* Index undoes PageAddr, and stepping by whole pages steps the index.
LEMMA IndexOfPageAddr ==
  ASSUME NEW pg \in Nat
  PROVE  PageAddr(pg) \in Nat /\ Index(PageAddr(pg)) = pg
<1>1. pg * PAGE_SIZE \in Nat /\ PageAddr(pg) - base_addr = 0 + pg * PAGE_SIZE
  BY PmmConstants DEF PageAddr
<1>2. (0 + pg * PAGE_SIZE) \div PAGE_SIZE = (0 \div PAGE_SIZE) + pg /\ 0 \div PAGE_SIZE = 0
  BY PmmConstants, DivAdd
<1> QED
  BY <1>1, <1>2, PmmConstants DEF Index, PageAddr

LEMMA IndexStep ==
  ASSUME NEW a \in Nat, NEW k \in Nat, a >= base_addr
  PROVE  /\ a + k * PAGE_SIZE \in Nat
         /\ Index(a) \in Nat
         /\ Index(a + k * PAGE_SIZE) = Index(a) + k
<1>1. a - base_addr \in Nat /\ k * PAGE_SIZE \in Nat
  BY PmmConstants
<1>2. (a + k * PAGE_SIZE) - base_addr = (a - base_addr) + k * PAGE_SIZE
  BY <1>1, PmmConstants
<1>3. ((a - base_addr) + k * PAGE_SIZE) \div PAGE_SIZE = ((a - base_addr) \div PAGE_SIZE) + k
  BY <1>1, PmmConstants, DivAdd, Zenon
<1>4. (a - base_addr) \div PAGE_SIZE \in Nat
  BY <1>1, PmmConstants, DivMod
<1>5. a + k * PAGE_SIZE \in Nat
  BY <1>1
<1> QED
  BY <1>2, <1>3, <1>4, <1>5 DEF Index

\* An address free_page accepts names a managed page whose bit is set.
LEMMA FreeableIsUsed ==
  ASSUME bitmap \in SUBSET Pages, NEW a \in Nat, FreeOutcome(a) = "done"
  PROVE  a >= base_addr /\ Index(a) \in bitmap
<1>1. /\ ~ (a < base_addr \/ a >= end_addr)
      /\ get_bit(Index(a))
  BY DEF FreeOutcome
<1>2. a >= base_addr /\ a < base_addr + memory_size
  BY <1>1, PmmConstants DEF end_addr
<1>3. a - base_addr \in Nat /\ a - base_addr < MAX_PAGES * PAGE_SIZE
  BY <1>2, PmmConstants DEF MAX_PHYS_MEMORY
<1>4. Index(a) < MAX_PAGES /\ Index(a) \in Nat
  BY <1>3, PmmConstants, DivLess, DivMod, Zenon DEF Index
<1> QED
  BY <1>1, <1>2, <1>4, PmmConstants DEF get_bit

\* The pages a range release gets through are distinct used pages, one for
\* each iteration that succeeded.
LEMMA FreedPrefixPages ==
  ASSUME bitmap \in SUBSET Pages, NEW a \in Nat, NEW n \in Nat
  PROVE  LET prefix == FreedPrefix(a, n)
             freed == {Index(a + k * PAGE_SIZE) : k \in prefix}
         IN  /\ freed \subseteq bitmap
             /\ Cardinality(freed) = Cardinality(prefix)
             /\ Cardinality(prefix) \in Nat
<1> DEFINE prefix == FreedPrefix(a, n)
           freed == {Index(a + k * PAGE_SIZE) : k \in prefix}
           f == [k \in prefix |-> Index(a + k * PAGE_SIZE)]
<1>1. prefix \subseteq 0 .. n - 1 /\ IsFiniteSet(prefix)
  <2>1. prefix \subseteq 0 .. n - 1
    BY DEF FreedPrefix
  <2>2. IsFiniteSet(0 .. n - 1)
    BY FS_Interval
  <2> QED
    BY <2>1, <2>2, FS_Subset
<1>2. \A k \in prefix : k \in Nat /\ FreeOutcome(a + k * PAGE_SIZE) = "done" /\ FreeOutcome(a + 0 * PAGE_SIZE) = "done"
  BY DEF FreedPrefix
<1>3. \A k \in prefix : a >= base_addr
  BY <1>2, FreeableIsUsed, PmmConstants
<1>4. \A k \in prefix : Index(a + k * PAGE_SIZE) = Index(a) + k /\ Index(a) \in Nat /\ a + k * PAGE_SIZE \in Nat
  BY <1>2, <1>3, IndexStep
<1>5. freed \subseteq bitmap
  BY <1>2, <1>4, FreeableIsUsed
<1>6. f \in Bijection(prefix, freed)
  <2>1. f \in [prefix -> freed]
    OBVIOUS
  <2>2. \A j, k \in prefix : f[j] = f[k] => j = k
    BY <1>1, <1>4
  <2>3. \A y \in freed : \E k \in prefix : f[k] = y
    OBVIOUS
  <2> HIDE DEF f, prefix, freed
  <2> QED
    BY <2>1, <2>2, <2>3 DEF Bijection, Injection, Surjection, IsInjective
<1>7. ExistsBijection(prefix, freed)
  BY <1>6 DEF ExistsBijection
<1>8. Cardinality(freed) = Cardinality(prefix) /\ Cardinality(prefix) \in Nat
  <2> HIDE DEF prefix, freed
  <2> QED
    BY <1>1, <1>7, FS_Bijection, FS_CardinalityType
<1> QED
  BY <1>5, <1>8

-----------------------------------------------------------------------------
(* The inductive invariant *)

PmmInv == TypeOK /\ CountMatchesBitmap

\* A fit is a run of managed pages that are all free.
LEMMA FirstFitIsFree ==
  ASSUME TypeOK, NEW n \in Nat, NEW s \in FirstFit(n)
  PROVE  /\ n > 0 /\ s \in Pages
         /\ s .. s + n - 1 \in SUBSET (Pages \ bitmap)
         /\ Cardinality(s .. s + n - 1) = n
<1>1. n # 0 /\ s \in Pages /\ s + n <= total_pages /\ \A pg \in s .. s + n - 1 : ~ get_bit(pg)
  BY DEF FirstFit, FreeRuns
<1>2. s \in Nat
  BY <1>1, BitmapCoversPages
<1>3. s .. s + n - 1 \in SUBSET (Pages \ bitmap)
  BY <1>1, <1>2, BitmapCoversPages DEF Pages, get_bit
<1>4. Cardinality(s .. s + n - 1) = n
  BY <1>1, <1>2, FS_Interval
<1> QED
  BY <1>1, <1>3, <1>4

LEMMA TakeInv ==
  ASSUME PmmInv, NEW n \in Nat, NEW s \in FirstFit(n), Take(s, n)
  PROVE  PmmInv'
<1> DEFINE run == s .. s + n - 1
<1>1. run \in SUBSET (Pages \ bitmap) /\ Cardinality(run) = n /\ s \in Pages
  BY FirstFitIsFree DEF PmmInv
<1>2. InBitmap(run) = run
  BY <1>1, InBitmapPages, Zenon
<1>3. bitmap' = bitmap \cup run /\ free_page_count' = free_page_count - n
  BY <1>2, Zenon DEF Take
<1>4. /\ Cardinality(Pages \ bitmap) \in Nat
      /\ n <= Cardinality(Pages \ bitmap)
      /\ Cardinality(Pages \ (bitmap \cup run)) = Cardinality(Pages \ bitmap) - n
  <2> HIDE DEF run
  <2> QED
    BY <1>1, TakeCount, Zenon DEF PmmInv, TypeOK
<1>5. CountMatchesBitmap' /\ free_page_count' \in Nat
  BY <1>3, <1>4 DEF PmmInv, CountMatchesBitmap
<1>6. reply' \in Replies
  BY <1>1, IndexOfPageAddr, BitmapCoversPages DEF Take, Granted, Replies
<1> QED
  BY <1>1, <1>3, <1>5, <1>6 DEF PmmInv, TypeOK

LEMMA OutOfMemoryInv ==
  ASSUME PmmInv, NEW n \in Nat, OutOfMemory(n)
  PROVE  PmmInv'
  BY DEF PmmInv, TypeOK, CountMatchesBitmap, OutOfMemory, Failed, Replies

\* The kinds a release reports are those of Replies.
LEMMA FreeOutcomeType ==
  ASSUME NEW a
  PROVE  FreeOutcome(a) \in {"InvalidAddress", "InvalidArgument", "PageNotMapped", "done"}
  BY DEF FreeOutcome

LEMMA FreePageInv ==
  ASSUME PmmInv, NEW a \in Nat, free_page(a)
  PROVE  PmmInv'
<1>1. CASE FreeOutcome(a) = "done"
  <2>1. Index(a) \in bitmap /\ bitmap \in SUBSET Pages
    BY <1>1, FreeableIsUsed DEF PmmInv, TypeOK
  <2>2. InBitmap({Index(a)}) = {Index(a)}
    BY <2>1, InBitmapPages
  <2>3. bitmap' = bitmap \ {Index(a)} /\ free_page_count' = free_page_count + 1 /\ reply' = Done
    BY <1>1, <2>2 DEF free_page
  <2>4. Cardinality(Pages \ (bitmap \ {Index(a)})) = Cardinality(Pages \ bitmap) + 1
    <3>1. {Index(a)} \in SUBSET bitmap /\ Cardinality({Index(a)}) = 1
      BY <2>1, FS_Singleton
    <3>2. Cardinality(Pages \ (bitmap \ {Index(a)})) = Cardinality(Pages \ bitmap) + Cardinality({Index(a)})
      BY <2>1, <3>1, ReleaseCount, Zenon
    <3> QED
      BY <3>1, <3>2
  <2> QED
    BY <2>1, <2>3, <2>4 DEF PmmInv, TypeOK, CountMatchesBitmap, Done, Replies
<1>2. CASE FreeOutcome(a) # "done"
  BY <1>2, FreeOutcomeType DEF free_page, PmmInv, TypeOK, CountMatchesBitmap, Failed, Replies
<1> QED
  BY <1>1, <1>2

LEMMA FreePagesRangeInv ==
  ASSUME PmmInv, NEW a \in Nat, NEW n \in Nat, free_pages_range(a, n)
  PROVE  PmmInv'
<1> DEFINE prefix == FreedPrefix(a, n)
           freed == {Index(a + k * PAGE_SIZE) : k \in prefix}
<1>1. freed \in SUBSET bitmap /\ Cardinality(freed) = Cardinality(prefix) /\ Cardinality(prefix) \in Nat
  BY FreedPrefixPages, Zenon DEF PmmInv, TypeOK
<1>2. bitmap \in SUBSET Pages
  BY DEF PmmInv, TypeOK
<1>3. InBitmap(freed) = freed
  BY <1>1, <1>2, InBitmapPages
<1>4. /\ bitmap' = bitmap \ freed
      /\ free_page_count' = free_page_count + Cardinality(prefix)
      /\ reply' = IF Cardinality(prefix) = n THEN Done
                  ELSE Failed(FreeOutcome(a + Cardinality(prefix) * PAGE_SIZE), 0)
  BY <1>3 DEF free_pages_range
<1>5. Cardinality(Pages \ (bitmap \ freed)) = Cardinality(Pages \ bitmap) + Cardinality(freed)
  <2> HIDE DEF freed
  <2> QED
    BY <1>1, <1>2, ReleaseCount, Zenon
<1>6. reply' \in Replies
  BY <1>4, FreeOutcomeType DEF Done, Failed, Replies
<1> HIDE DEF prefix, freed
<1>7. free_page_count' \in Nat /\ CountMatchesBitmap'
  BY <1>1, <1>4, <1>5 DEF PmmInv, TypeOK, CountMatchesBitmap
<1> QED
  BY <1>2, <1>4, <1>6, <1>7 DEF PmmInv, TypeOK

LEMMA ReserveRangeInv ==
  ASSUME PmmInv, NEW a \in Nat, NEW n \in Nat, reserve_range(a, n)
  PROVE  PmmInv'
<1> DEFINE taken == IF a < base_addr THEN {}
                    ELSE {pg \in ReservedPages(a, n) : ~ get_bit(pg)}
<1>1. taken \in SUBSET (Pages \ bitmap) /\ bitmap \in SUBSET Pages
  BY DEF ReservedPages, get_bit, PmmInv, TypeOK
<1>2. InBitmap(taken) = taken
  BY <1>1, InBitmapPages
<1>3. /\ bitmap' = bitmap \cup taken
      /\ free_page_count' = saturating_sub(free_page_count, Cardinality(taken))
      /\ reply' = Reserved(a, n)
  BY <1>2 DEF reserve_range
<1> HIDE DEF taken
<1>4. /\ Cardinality(taken) \in Nat
      /\ Cardinality(taken) <= Cardinality(Pages \ bitmap)
      /\ Cardinality(Pages \ (bitmap \cup taken)) = Cardinality(Pages \ bitmap) - Cardinality(taken)
  BY <1>1, TakeCount, Zenon
<1>5. free_page_count' \in Nat /\ CountMatchesBitmap'
  BY <1>3, <1>4 DEF PmmInv, TypeOK, CountMatchesBitmap, saturating_sub
<1>6. reply' \in Replies
  BY <1>3 DEF Reserved, Replies
<1> QED
  BY <1>1, <1>3, <1>5, <1>6 DEF PmmInv, TypeOK

LEMMA InitInv == Init => PmmInv
<1> SUFFICES ASSUME Init PROVE PmmInv
  OBVIOUS
<1>1. OwnPages \in SUBSET Pages /\ InBitmap(OwnPages) = OwnPages
  BY InBitmapPages DEF OwnPages
<1>2. bitmap = OwnPages
  BY <1>1 DEF Init
<1>3. /\ Cardinality(OwnPages) \in Nat /\ Cardinality(OwnPages) <= total_pages
      /\ Cardinality(Pages \ OwnPages) = total_pages - Cardinality(OwnPages)
  <2>1. {} \in SUBSET Pages /\ OwnPages \in SUBSET (Pages \ {}) /\ Pages \ {} = Pages /\ {} \cup OwnPages = OwnPages
    BY <1>1
  <2> QED
    BY <2>1, TakeCount, BitmapCoversPages, Zenon
<1>4. free_page_count = total_pages - Cardinality(OwnPages)
  BY <1>3, BitmapCoversPages DEF Init, saturating_sub
<1>5. reply \in Replies
  BY DEF Init, Done, Replies
<1> QED
  BY <1>1, <1>2, <1>3, <1>4, <1>5, BitmapCoversPages DEF PmmInv, TypeOK, CountMatchesBitmap

LEMMA NextInv == PmmInv /\ [Next]_vars => PmmInv'
<1> SUFFICES ASSUME PmmInv, [Next]_vars PROVE PmmInv'
  OBVIOUS
<1>1. CASE alloc_page
  BY <1>1, TakeInv, OutOfMemoryInv DEF alloc_page
<1>2. ASSUME NEW num \in 0 .. MaxCount, alloc_pages(num) PROVE PmmInv'
  BY <1>2, PmmConstants, TakeInv, OutOfMemoryInv DEF alloc_pages
<1>3. ASSUME NEW addr \in Addresses, free_page(addr) PROVE PmmInv'
  BY <1>3, PmmConstants, FreePageInv
<1>4. ASSUME NEW addr \in Addresses, NEW num \in 0 .. MaxCount, free_pages_range(addr, num)
      PROVE  PmmInv'
  BY <1>4, PmmConstants, FreePagesRangeInv
<1>5. ASSUME NEW start \in Addresses, NEW size \in Sizes, reserve_range(start, size)
      PROVE  PmmInv'
  BY <1>5, PmmConstants, ReserveRangeInv
<1>6. CASE UNCHANGED vars
  BY <1>6 DEF PmmInv, TypeOK, CountMatchesBitmap, vars
<1> QED
  BY <1>1, <1>2, <1>3, <1>4, <1>5, <1>6 DEF Next

LEMMA PmmInvariant == Spec => []PmmInv
  BY InitInv, NextInv, PTL DEF Spec

\* Only bits of managed pages are ever set and the counter never goes below
\* zero, in particular in the unchecked subtractions of the allocation calls.
THEOREM TypeCorrect == Spec => []TypeOK
<1>1. PmmInv => TypeOK
  BY DEF PmmInv
<1> QED
  BY <1>1, PmmInvariant, PTL

\* The cached counter of pmm.rs always equals the number of clear bits.
THEOREM CounterIsAccurate == Spec => []CountMatchesBitmap
<1>1. PmmInv => CountMatchesBitmap
  BY DEF PmmInv
<1> QED
  BY <1>1, PmmInvariant, PTL

-----------------------------------------------------------------------------
(* Refusals *)

\* A run of n free pages is n of the pages the counter counts.
LEMMA RunFitsCount ==
  ASSUME PmmInv, NEW n \in Nat, n > 0, NEW s \in FreeRuns(n)
  PROVE  free_page_count >= n
<1>1. s \in Nat /\ s + n <= total_pages /\ \A pg \in s .. s + n - 1 : ~ get_bit(pg)
  BY BitmapCoversPages DEF FreeRuns
<1>2. s .. s + n - 1 \in SUBSET (Pages \ bitmap)
  BY <1>1, BitmapCoversPages DEF Pages, get_bit
<1>3. Cardinality(s .. s + n - 1) = n
  BY <1>1, FS_Interval
<1>4. n <= Cardinality(Pages \ bitmap)
  BY <1>2, <1>3, TakeCount, Zenon DEF PmmInv, TypeOK
<1> QED
  BY <1>4, TakeCount DEF PmmInv, TypeOK, CountMatchesBitmap

\* A non-empty finite set of numbers has a least element: a minimal one of its
\* initial segments, ordered by strict inclusion, belongs to it.
LEMMA LeastOfFinite ==
  ASSUME NEW F \in SUBSET Nat, IsFiniteSet(F), F # {}
  PROVE  \E s \in F : \A r \in F : s <= r
<1> DEFINE Below(s) == {r \in F : r <= s}
           T == {Below(s) : s \in F}
           R == StrictSubsetOrdering(F)
<1>1. IsWellFoundedOn(R, SUBSET F)
  BY FS_StrictSubsetOrderingWellFounded, FS_FiniteSubsetsOfFinite, Zenon
<1>2. T \subseteq SUBSET F /\ T # {}
  BY Zenon
<1>3. PICK B \in T : \A C \in T : ~ (<<C, B>> \in R)
  <2> HIDE DEF T, R
  <2> QED
    BY <1>1, <1>2, WFMin, Zenon
<1>4. PICK s \in F : B = Below(s)
  OBVIOUS
<1>5. ASSUME NEW r \in F, r < s PROVE FALSE
  <2>1. Below(r) \subseteq Below(s)
    <3>1. SUFFICES ASSUME NEW x \in Below(r) PROVE x \in Below(s)
      BY Zenon
    <3>2. x \in Nat /\ r \in Nat /\ s \in Nat /\ x <= r
      OBVIOUS
    <3> QED
      BY <1>5, <3>2
  <2>2. s \in Below(s) /\ s \notin Below(r)
    BY <1>5
  <2>3. Below(r) \in SUBSET F /\ Below(s) \in SUBSET F /\ Below(r) # Below(s)
    BY <2>2
  <2> HIDE DEF Below
  <2>4. <<Below(r), Below(s)>> \in R
    BY <2>1, <2>3 DEF StrictSubsetOrdering
  <2>5. Below(r) \in T
    OBVIOUS
  <2> QED
    BY <1>3, <1>4, <2>4, <2>5
<1> QED
  BY <1>5

\* If any run is long enough, one of them is the first.
LEMMA FirstFitExists ==
  ASSUME NEW n \in Nat, n > 0, FreeRuns(n) # {}
  PROVE  FirstFit(n) # {}
<1>1. FreeRuns(n) \in SUBSET Nat /\ IsFiniteSet(FreeRuns(n))
  BY BitmapCoversPages, FS_Subset, Zenon DEF FreeRuns
<1>2. \E s \in FreeRuns(n) : \A r \in FreeRuns(n) : s <= r
  BY <1>1, LeastOfFinite
<1> QED
  BY <1>2 DEF FirstFit

LEMMA OutOfMemoryGenuine ==
  ASSUME PmmInv, NEW n \in Nat, OutOfMemory(n),
         free_page_count < n \/ FirstFit(n) = {}
  PROVE  RefusalIsGenuine'
<1>1. n > 0 => FreeRuns(n) = {}
  BY RunFitsCount, FirstFitExists DEF PmmInv, TypeOK
<1>2. reply' = Failed("OutOfMemory", n) /\ bitmap' = bitmap
  BY DEF OutOfMemory
<1>3. FreeRuns(n)' = FreeRuns(n)
  BY <1>2 DEF FreeRuns, get_bit
<1> QED
  BY <1>1, <1>2, <1>3 DEF RefusalIsGenuine, Failed, FreeRuns, get_bit

LEMMA RefusalStep == PmmInv /\ RefusalIsGenuine /\ [Next]_vars => RefusalIsGenuine'
<1> SUFFICES ASSUME PmmInv, RefusalIsGenuine, [Next]_vars PROVE RefusalIsGenuine'
  OBVIOUS
<1>1. CASE alloc_page
  <2>1. CASE OutOfMemory(1) /\ (free_page_count = 0 \/ FirstFit(1) = {})
    BY <2>1, OutOfMemoryGenuine DEF PmmInv, TypeOK
  <2>2. ASSUME NEW s \in FirstFit(1), Take(s, 1) PROVE RefusalIsGenuine'
    BY <2>2 DEF Take, Granted, RefusalIsGenuine
  <2> QED
    BY <1>1, <2>1, <2>2 DEF alloc_page
<1>2. ASSUME NEW num \in 0 .. MaxCount, alloc_pages(num) PROVE RefusalIsGenuine'
  <2>1. CASE OutOfMemory(num) /\ (free_page_count < num \/ FirstFit(num) = {})
    BY <2>1, PmmConstants, OutOfMemoryGenuine
  <2>2. ASSUME NEW s \in FirstFit(num), Take(s, num) PROVE RefusalIsGenuine'
    BY <2>2 DEF Take, Granted, RefusalIsGenuine
  <2> QED
    BY <1>2, <2>1, <2>2 DEF alloc_pages
<1>3. ASSUME NEW addr \in Addresses, free_page(addr) PROVE RefusalIsGenuine'
  BY <1>3, FreeOutcomeType DEF free_page, Done, Failed, RefusalIsGenuine
<1>4. ASSUME NEW addr \in Addresses, NEW num \in 0 .. MaxCount, free_pages_range(addr, num)
      PROVE  RefusalIsGenuine'
  BY <1>4, FreeOutcomeType DEF free_pages_range, Done, Failed, RefusalIsGenuine
<1>5. ASSUME NEW start \in Addresses, NEW size \in Sizes, reserve_range(start, size)
      PROVE  RefusalIsGenuine'
  BY <1>5 DEF reserve_range, Reserved, RefusalIsGenuine
<1>6. CASE UNCHANGED vars
  BY <1>6 DEF vars, RefusalIsGenuine, FreeRuns, get_bit
<1> QED
  BY <1>1, <1>2, <1>3, <1>4, <1>5, <1>6 DEF Next

\* alloc_page and alloc_pages refuse a request only when no run of free pages
\* could have met it.
THEOREM RefusalsAreGenuine == Spec => []RefusalIsGenuine
<1>1. Init => RefusalIsGenuine
  BY DEF Init, Done, RefusalIsGenuine
<1> QED
  BY <1>1, RefusalStep, PmmInvariant, PTL DEF Spec

-----------------------------------------------------------------------------
(* Grants and reservations *)

\* The address of a managed page passes the checks of free_page that do not
\* look at the bitmap.
LEMMA PageAddrValid ==
  ASSUME NEW j \in Pages
  PROVE  /\ ~ (PageAddr(j) < base_addr \/ PageAddr(j) >= end_addr)
         /\ PageAddr(j) % PAGE_SIZE = 0
         /\ Index(PageAddr(j)) = j
<1>1. j \in Nat /\ j + 1 <= total_pages /\ PageAddr(j) \in Nat /\ Index(PageAddr(j)) = j
  BY BitmapCoversPages, IndexOfPageAddr DEF Pages
<1>2. j * PAGE_SIZE \in Nat /\ PageAddr(j) >= base_addr
  BY <1>1, PmmConstants DEF PageAddr
<1>3. total_pages * PAGE_SIZE <= memory_size
  BY PmmConstants, DivMod DEF total_pages
<1>4. (j + 1) * PAGE_SIZE <= total_pages * PAGE_SIZE /\ j * PAGE_SIZE < (j + 1) * PAGE_SIZE
  BY <1>1, PmmConstants, BitmapCoversPages
<1>5. total_pages * PAGE_SIZE \in Nat /\ (j + 1) * PAGE_SIZE \in Nat
  BY <1>1, PmmConstants, BitmapCoversPages
<1>6. PageAddr(j) < end_addr
  BY <1>2, <1>3, <1>4, <1>5, PmmConstants DEF PageAddr, end_addr
<1>7. PageAddr(j) % PAGE_SIZE = 0
  BY <1>1, PmmConstants, ModAdd, Zenon DEF PageAddr
<1>8. ~ (PageAddr(j) < base_addr)
  BY <1>1, <1>2, PmmConstants
<1>9. ~ (PageAddr(j) >= end_addr)
  BY <1>1, <1>6, PmmConstants DEF end_addr
<1> QED
  BY <1>1, <1>7, <1>8, <1>9

LEMMA TakeCanBeFreed ==
  ASSUME TypeOK, NEW n \in Nat, NEW s \in FirstFit(n), Take(s, n)
  PROVE  GrantCanBeFreed'
<1>1. s .. s + n - 1 \in SUBSET (Pages \ bitmap) /\ s \in Nat
  BY FirstFitIsFree, BitmapCoversPages, Zenon
<1>2. reply' = Granted(PageAddr(s), n) /\ bitmap' = bitmap \cup (s .. s + n - 1)
  BY <1>1, InBitmapPages DEF Take
<1>3. ASSUME NEW k \in 0 .. n - 1
      PROVE  /\ FreeOutcome(PageAddr(s) + k * PAGE_SIZE)' = "done"
             /\ Index(PageAddr(s) + k * PAGE_SIZE) \in Pages
  <2>1. k \in Nat /\ s + k \in s .. s + n - 1
    BY <1>1
  <2>2. PageAddr(s) + k * PAGE_SIZE = PageAddr(s + k)
    <3>1. (s + k) * PAGE_SIZE = s * PAGE_SIZE + k * PAGE_SIZE
      BY <1>1, <2>1, PmmConstants
    <3>2. s * PAGE_SIZE \in Nat /\ k * PAGE_SIZE \in Nat
      BY <1>1, <2>1, PmmConstants
    <3> QED
      BY <3>1, <3>2, PmmConstants DEF PageAddr
  <2>3. s + k \in Pages /\ get_bit(s + k)' /\ Index(PageAddr(s + k)) = s + k
    BY <1>1, <1>2, <2>1, IndexOfPageAddr DEF get_bit
  <2>4. FreeOutcome(PageAddr(s + k))' = "done"
    BY <2>3, PageAddrValid DEF FreeOutcome
  <2> QED
    BY <2>2, <2>3, <2>4
<1> QED
  BY <1>2, <1>3 DEF GrantCanBeFreed, Granted

LEMMA TimesMonotone ==
  ASSUME NEW x \in Nat, NEW y \in Nat, NEW m \in Nat, x <= y
  PROVE  x * m <= y * m /\ x * m \in Nat /\ y * m \in Nat
<1>1. PICK k \in Nat : y = x + k
  <2>1. y - x \in Nat /\ y = x + (y - x)
    OBVIOUS
  <2> QED
    BY <2>1
<1>2. y * m = x * m + k * m
  BY <1>1
<1>3. x * m \in Nat /\ k * m \in Nat
  BY <1>1
<1> QED
  BY <1>2, <1>3

\* The pages reserve_range walks are those that overlap the range.
LEMMA ReservedPagesOverlap ==
  ASSUME NEW a \in Nat, NEW n \in Nat, a >= base_addr, NEW pg \in Pages
  PROVE  pg \in ReservedPages(a, n) <=> PageAddr(pg) < a + n /\ a < PageAddr(pg) + PAGE_SIZE
<1>1. PAGE_SIZE \in Nat \ {0} /\ base_addr \in Nat /\ a - base_addr \in Nat
  BY PmmConstants
<1>2. pg \in Nat /\ pg < total_pages /\ pg * PAGE_SIZE \in Nat /\ PageAddr(pg) = base_addr + pg * PAGE_SIZE
  BY <1>1, BitmapCoversPages DEF Pages, PageAddr
<1>3. (pg + 1) * PAGE_SIZE = pg * PAGE_SIZE + PAGE_SIZE /\ pg + 1 \in Nat
  BY <1>1, <1>2
<1>4. Index(a) <= pg <=> a < PageAddr(pg) + PAGE_SIZE
  <2> DEFINE d == a - base_addr
             q == d \div PAGE_SIZE
  <2>1. d \in Nat /\ q \in Nat /\ d = q * PAGE_SIZE + (d % PAGE_SIZE) /\ d % PAGE_SIZE \in 0 .. PAGE_SIZE - 1
    BY <1>1, DivMod, Zenon
  <2>2. ASSUME d < (pg + 1) * PAGE_SIZE PROVE q <= pg
    <3>1. q < pg + 1
      BY <2>1, <2>2, <1>1, <1>3, DivLess
    <3> QED
      BY <3>1, <2>1, <1>2
  <2>3. ASSUME q <= pg PROVE d < (pg + 1) * PAGE_SIZE
    <3> HIDE DEF q
    <3>1. q * PAGE_SIZE <= pg * PAGE_SIZE /\ q * PAGE_SIZE \in Nat
      BY <2>1, <2>3, <1>1, <1>2, TimesMonotone
    <3> QED
      BY <3>1, <2>1, <1>1, <1>2, <1>3
  <2>4. d < (pg + 1) * PAGE_SIZE <=> a < PageAddr(pg) + PAGE_SIZE
    BY <1>1, <1>2, <1>3
  <2> QED
    BY <2>2, <2>3, <2>4 DEF Index
<1> DEFINE top == a + n - base_addr + PAGE_SIZE - 1
<1>5. top \in Nat
  BY <1>1
<1>6. pg < top \div PAGE_SIZE <=> PageAddr(pg) < a + n
  <2>1. (pg + 1) * PAGE_SIZE <= top <=> PageAddr(pg) < a + n
    BY <1>1, <1>2, <1>3
  <2> HIDE DEF top
  <2>2. top \div PAGE_SIZE \in Nat /\ (top \div PAGE_SIZE) * PAGE_SIZE <= top
    BY <1>1, <1>5, DivMod
  <2>3. ASSUME (pg + 1) * PAGE_SIZE <= top PROVE pg < top \div PAGE_SIZE
    <3>1. pg + 1 <= top \div PAGE_SIZE
      BY <2>3, <1>1, <1>3, <1>5, DivAtLeast
    <3> QED
      BY <3>1, <2>2, <1>2
  <2>4. ASSUME pg < top \div PAGE_SIZE PROVE (pg + 1) * PAGE_SIZE <= top
    <3> DEFINE t == top \div PAGE_SIZE
    <3>1. t \in Nat /\ pg + 1 <= t
      BY <2>2, <2>4, <1>2
    <3> HIDE DEF t
    <3>2. (pg + 1) * PAGE_SIZE <= t * PAGE_SIZE /\ t * PAGE_SIZE \in Nat /\ (pg + 1) * PAGE_SIZE \in Nat
      BY <3>1, <1>1, <1>3, TimesMonotone
    <3>3. t * PAGE_SIZE <= top
      BY <2>2 DEF t
    <3> QED
      BY <3>2, <3>3, <1>5
  <2> QED
    BY <2>1, <2>3, <2>4
<1>7. CASE a + n > end_addr
  <2>1. PageAddr(pg) < a + n
    <3>1. ~ (PageAddr(pg) >= end_addr)
      BY PageAddrValid
    <3> QED
      BY <3>1, <1>1, <1>2, <1>7, PmmConstants DEF end_addr
  <2> QED
    BY <2>1, <1>2, <1>4, <1>7 DEF ReservedPages
<1>8. CASE ~ (a + n > end_addr)
  <2> HIDE DEF top
  <2>1. ReservedPages(a, n) = {j \in Pages : Index(a) <= j /\ j < top \div PAGE_SIZE}
    BY <1>8 DEF ReservedPages, top
  <2> QED
    BY <2>1, <1>4, <1>6
<1> QED
  BY <1>7, <1>8

LEMMA ReserveCoversStep ==
  ASSUME TypeOK, NEW a \in Nat, NEW n \in Nat, reserve_range(a, n)
  PROVE  ReserveCoversRange'
<1>1. SUFFICES ASSUME a >= base_addr, NEW pg \in Pages,
                      PageAddr(pg) < a + n, a < PageAddr(pg) + PAGE_SIZE
               PROVE  pg \in bitmap'
  BY DEF reserve_range, Reserved, ReserveCoversRange
<1>2. pg \in ReservedPages(a, n)
  BY <1>1, ReservedPagesOverlap
<1>3. pg \in bitmap \/ (~ get_bit(pg) /\ pg < MAX_PAGES)
  BY BitmapCoversPages, PmmConstants DEF get_bit, Pages
<1>4. ~ (a < base_addr)
  BY <1>1, PmmConstants
<1> QED
  BY <1>2, <1>3, <1>4 DEF reserve_range, InBitmap

GrantInv == GrantCanBeFreed /\ ReserveCoversRange

LEMMA GrantStep == PmmInv /\ GrantInv /\ [Next]_vars => GrantInv'
<1> SUFFICES ASSUME PmmInv, GrantInv, [Next]_vars PROVE GrantInv'
  OBVIOUS
<1>t. TypeOK
  BY DEF PmmInv
<1>1. ASSUME NEW n \in Nat, NEW s \in FirstFit(n), Take(s, n) PROVE GrantInv'
  <2>1. GrantCanBeFreed'
    BY <1>t, <1>1, TakeCanBeFreed
  <2>2. ReserveCoversRange'
    BY <1>1 DEF Take, Granted, ReserveCoversRange
  <2> QED
    BY <2>1, <2>2 DEF GrantInv
<1>2. ASSUME NEW n \in Nat, OutOfMemory(n) PROVE GrantInv'
  BY <1>2 DEF OutOfMemory, Failed, GrantInv, GrantCanBeFreed, ReserveCoversRange
<1>3. CASE alloc_page
  BY <1>1, <1>2, <1>3 DEF alloc_page
<1>4. ASSUME NEW num \in 0 .. MaxCount, alloc_pages(num) PROVE GrantInv'
  BY <1>1, <1>2, <1>4, PmmConstants DEF alloc_pages
<1>5. ASSUME NEW addr \in Addresses, free_page(addr) PROVE GrantInv'
  BY <1>5, FreeOutcomeType DEF free_page, Done, Failed, GrantInv, GrantCanBeFreed, ReserveCoversRange
<1>6. ASSUME NEW addr \in Addresses, NEW num \in 0 .. MaxCount, free_pages_range(addr, num)
      PROVE  GrantInv'
  BY <1>6, FreeOutcomeType DEF free_pages_range, Done, Failed, GrantInv, GrantCanBeFreed, ReserveCoversRange
<1>7. ASSUME NEW start \in Addresses, NEW size \in Sizes, reserve_range(start, size)
      PROVE  GrantInv'
  <2>1. ReserveCoversRange'
    BY <1>t, <1>7, PmmConstants, ReserveCoversStep
  <2>2. GrantCanBeFreed'
    BY <1>7 DEF reserve_range, Reserved, GrantCanBeFreed
  <2> QED
    BY <2>1, <2>2 DEF GrantInv
<1>8. CASE UNCHANGED vars
  BY <1>8 DEF vars, GrantInv, GrantCanBeFreed, ReserveCoversRange, FreeOutcome, get_bit
<1> QED
  BY <1>3, <1>4, <1>5, <1>6, <1>7, <1>8 DEF Next

LEMMA GrantInvariant == Spec => []GrantInv
<1>1. Init => GrantInv
  BY DEF Init, Done, GrantInv, GrantCanBeFreed, ReserveCoversRange
<1> QED
  BY <1>1, GrantStep, PmmInvariant, PTL DEF Spec

\* Every page of a run that alloc_page or alloc_pages returned is one that
\* free_page takes back.
THEOREM GrantsCanBeFreed == Spec => []GrantCanBeFreed
<1>1. GrantInv => GrantCanBeFreed
  BY DEF GrantInv
<1> QED
  BY <1>1, GrantInvariant, PTL

\* reserve_range rounds outwards: no page that overlaps the range stays free,
\* whatever the alignment of its two ends.
THEOREM ReservationsCover == Spec => []ReserveCoversRange
<1>1. GrantInv => ReserveCoversRange
  BY DEF GrantInv
<1> QED
  BY <1>1, GrantInvariant, PTL

-----------------------------------------------------------------------------
(* The refinement.  A page is a bit of the bitmap here and an address in    *)
(* PageAllocator: Addrs is the set of the addresses of a set of pages.      *)

Addrs(S) == {PageAddr(pg) : pg \in S}

LEMMA PageAddrInjective ==
  ASSUME NEW pg \in Nat, NEW j \in Nat, PageAddr(pg) = PageAddr(j)
  PROVE  pg = j
  BY IndexOfPageAddr

LEMMA PageAddrStep ==
  ASSUME NEW s \in Nat, NEW k \in Nat
  PROVE  PageAddr(s) + k * PAGE_SIZE = PageAddr(s + k)
<1>1. (s + k) * PAGE_SIZE = s * PAGE_SIZE + k * PAGE_SIZE
  BY PmmConstants
<1>2. s * PAGE_SIZE \in Nat /\ k * PAGE_SIZE \in Nat
  BY PmmConstants
<1> QED
  BY <1>1, <1>2, PmmConstants DEF PageAddr

LEMMA RunOfPages ==
  ASSUME NEW s \in Nat, NEW n \in Nat
  PROVE  Abstract!Run(PageAddr(s), n) = Addrs(s .. s + n - 1)
<1>1. ASSUME NEW k \in 0 .. n - 1 PROVE PageAddr(s) + k * PAGE_SIZE \in Addrs(s .. s + n - 1)
  <2>1. k \in Nat /\ s + k \in s .. s + n - 1
    OBVIOUS
  <2> QED
    BY <2>1, PageAddrStep DEF Addrs
<1>2. ASSUME NEW pg \in s .. s + n - 1 PROVE \E k \in 0 .. n - 1 : PageAddr(pg) = PageAddr(s) + k * PAGE_SIZE
  <2>1. pg - s \in 0 .. n - 1 /\ pg - s \in Nat /\ s + (pg - s) = pg
    OBVIOUS
  <2>2. PageAddr(s) + (pg - s) * PAGE_SIZE = PageAddr(s + (pg - s))
    BY <2>1, PageAddrStep
  <2> QED
    BY <2>1, <2>2
<1> QED
  BY <1>1, <1>2 DEF Abstract!Run, Addrs

\* Taking pages takes their addresses; freeing pages frees theirs.
LEMMA AddrsTaken ==
  ASSUME NEW B \in SUBSET Pages, NEW T \in SUBSET Pages
  PROVE  Addrs(Pages \ (B \cup T)) = Addrs(Pages \ B) \ Addrs(T)
<1>1. \A pg, j \in Pages : PageAddr(pg) = PageAddr(j) => pg = j
  BY BitmapCoversPages, PageAddrInjective
<1> QED
  BY <1>1 DEF Addrs

LEMMA AddrsFreed ==
  ASSUME NEW B \in SUBSET Pages, NEW R \in SUBSET B
  PROVE  /\ Addrs(Pages \ (B \ R)) = Addrs(Pages \ B) \cup Addrs(R)
         /\ Addrs(R) \subseteq Addrs(Pages) \ Addrs(Pages \ B)
<1>1. \A pg, j \in Pages : PageAddr(pg) = PageAddr(j) => pg = j
  BY BitmapCoversPages, PageAddrInjective
<1>2. Addrs(Pages \ (B \ R)) = Addrs(Pages \ B) \cup Addrs(R)
  BY DEF Addrs
<1>3. Addrs(R) \subseteq Addrs(Pages) \ Addrs(Pages \ B)
  BY <1>1 DEF Addrs
<1> QED
  BY <1>2, <1>3

\* free_page takes only the address of a page, not one inside it.
LEMMA FreeableIsPageAddr ==
  ASSUME bitmap \in SUBSET Pages, NEW a \in Nat, FreeOutcome(a) = "done"
  PROVE  a = PageAddr(Index(a)) /\ Index(a) \in bitmap
<1>1. a >= base_addr /\ Index(a) \in bitmap
  BY FreeableIsUsed
<1>2. a % PAGE_SIZE = 0
  BY DEF FreeOutcome
<1> DEFINE q == a \div PAGE_SIZE
           r == base_addr \div PAGE_SIZE
<1>3. a = q * PAGE_SIZE + 0 /\ q \in Nat
  BY <1>2, PmmConstants, DivMod, Zenon
<1>4. base_addr = r * PAGE_SIZE + 0 /\ r \in Nat
  BY PmmConstants, DivMod
<1>5. PAGE_SIZE \in Nat \ {0} /\ base_addr \in Nat
  BY PmmConstants
<1> HIDE DEF q, r
<1>6. q >= r
  <2>1. SUFFICES ASSUME q < r PROVE FALSE
    BY <1>3, <1>4
  <2>2. PICK k \in Nat : r = q + 1 + k
    <3>1. r - q - 1 \in Nat /\ r = q + 1 + (r - q - 1)
      BY <2>1, <1>3, <1>4
    <3> QED
      BY <3>1
  <2>3. r * PAGE_SIZE = q * PAGE_SIZE + PAGE_SIZE + k * PAGE_SIZE
    BY <2>2, <1>3, <1>5
  <2>4. q * PAGE_SIZE \in Nat /\ k * PAGE_SIZE \in Nat
    BY <1>3, <1>5
  <2> QED
    BY <2>3, <2>4, <1>1, <1>3, <1>4, <1>5
<1>7. PICK k \in Nat : q = r + k
  <2>1. q - r \in Nat /\ q = r + (q - r)
    BY <1>3, <1>4, <1>6
  <2> QED
    BY <2>1
<1>8. q * PAGE_SIZE = r * PAGE_SIZE + k * PAGE_SIZE
  BY <1>4, <1>5, <1>7
<1>9. r * PAGE_SIZE \in Nat /\ k * PAGE_SIZE \in Nat
  BY <1>4, <1>5
<1>10. a = PageAddr(k)
  BY <1>3, <1>4, <1>5, <1>8, <1>9 DEF PageAddr
<1> QED
  BY <1>1, <1>10, IndexOfPageAddr

LEMMA TakeIsGrant ==
  ASSUME PmmInv, NEW n \in Nat, NEW s \in FirstFit(n), Take(s, n)
  PROVE  Abstract!Grant(n)
<1> DEFINE run == s .. s + n - 1
<1>1. n > 0 /\ s \in Pages /\ s \in Nat /\ run \in SUBSET (Pages \ bitmap)
  BY FirstFitIsFree, BitmapCoversPages, Zenon DEF PmmInv
<1>2. InBitmap(run) = run
  BY <1>1, InBitmapPages
<1>3. bitmap' = bitmap \cup run /\ reply' = Granted(PageAddr(s), n)
  BY <1>2, Zenon DEF Take
<1>4. Abstract!Run(PageAddr(s), n) = Addrs(run)
  BY <1>1, RunOfPages
<1> HIDE DEF run
<1>5. Addrs(run) \subseteq Addrs(Pages \ bitmap) /\ PageAddr(s) \in Addrs(Pages)
  BY <1>1 DEF Addrs
<1>6. Addrs(Pages \ (bitmap \cup run)) = Addrs(Pages \ bitmap) \ Addrs(run)
  BY <1>1, AddrsTaken, SMTT(30) DEF PmmInv, TypeOK
<1>7. \E a \in Addrs(Pages) :
        /\ Abstract!Run(a, n) \subseteq Addrs(Pages \ bitmap)
        /\ Addrs(Pages \ bitmap') = Addrs(Pages \ bitmap) \ Abstract!Run(a, n)
        /\ reply' = Abstract!Granted(a, n)
  BY <1>3, <1>4, <1>5, <1>6, Zenon DEF Granted, Abstract!Granted
<1> QED
  BY <1>1, <1>7 DEF Abstract!Grant, Addrs

LEMMA OutOfMemoryIsRefusal ==
  ASSUME PmmInv, NEW n \in Nat, OutOfMemory(n), free_page_count < n \/ FirstFit(n) = {}
  PROVE  Abstract!Refuse(n)
<1>1. n > 0 => FreeRuns(n) = {}
  BY RunFitsCount, FirstFitExists DEF PmmInv, TypeOK
<1>2. ASSUME n > 0, NEW a \in Addrs(Pages), Abstract!Run(a, n) \subseteq Addrs(Pages \ bitmap)
      PROVE  FALSE
  <2>1. PICK s \in Pages : a = PageAddr(s)
    BY DEF Addrs
  <2>2. s \in Nat /\ Addrs(s .. s + n - 1) \subseteq Addrs(Pages \ bitmap)
    BY <2>1, <1>2, BitmapCoversPages, RunOfPages, Zenon
  <2>3. ASSUME NEW pg \in s .. s + n - 1 PROVE pg \in Pages \ bitmap
    <3>1. PICK j \in Pages \ bitmap : PageAddr(pg) = PageAddr(j)
      BY <2>2 DEF Addrs
    <3>2. pg \in Nat /\ j \in Nat
      BY <2>2, BitmapCoversPages
    <3> QED
      BY <3>1, <3>2, PageAddrInjective
  <2>4. s + n - 1 \in Pages
    BY <2>2, <2>3, <1>2
  <2>5. s + n <= total_pages
    BY <2>2, <2>4, BitmapCoversPages DEF Pages
  <2>6. \A pg \in Pages \ bitmap : ~ get_bit(pg)
    BY BitmapCoversPages, PmmConstants DEF get_bit, Pages
  <2>7. s \in FreeRuns(n)
    BY <2>3, <2>5, <2>6 DEF FreeRuns
  <2> QED
    BY <2>7, <1>1, <1>2
<1>3. /\ n > 0 => \A a \in Addrs(Pages) : ~ (Abstract!Run(a, n) \subseteq Addrs(Pages \ bitmap))
      /\ reply' = Abstract!Failed("OutOfMemory", n)
      /\ bitmap' = bitmap
  BY <1>2 DEF OutOfMemory, Failed, Abstract!Failed
<1> QED
  BY <1>3 DEF Abstract!Refuse, Addrs

\* The iterations of free_pages_range that succeed come before all others.
LEMMA FreedPrefixIsInterval ==
  ASSUME NEW a \in Nat, NEW n \in Nat
  PROVE  \E m \in 0 .. n :
           /\ FreedPrefix(a, n) = 0 .. m - 1 /\ Cardinality(FreedPrefix(a, n)) = m
           /\ m # n => FreeOutcome(a + m * PAGE_SIZE) # "done"
<1> DEFINE P == FreedPrefix(a, n)
           Rest == (0 .. n - 1) \ P
           ok(k) == FreeOutcome(a + k * PAGE_SIZE) = "done"
<1>1. P = {k \in 0 .. n - 1 : \A j \in 0 .. k : ok(j)}
  BY DEF FreedPrefix
<1>2. \A m \in Nat : Cardinality(0 .. m - 1) = m
  BY FS_Interval
<1> HIDE DEF P, ok
<1>3. CASE Rest = {}
  <2>1. P = 0 .. n - 1
    BY <1>1, <1>3
  <2> QED
    BY <2>1, <1>2 DEF P
<1>4. CASE Rest # {}
  <2>1. Rest \in SUBSET Nat /\ IsFiniteSet(Rest)
    <3>1. IsFiniteSet(0 .. n - 1) /\ Rest \subseteq 0 .. n - 1
      BY FS_Interval
    <3> HIDE DEF Rest
    <3>2. IsFiniteSet(Rest)
      BY <3>1, FS_Subset, Zenon
    <3> QED
      BY <3>1, <3>2
  <2>2. PICK m \in Rest : \A r \in Rest : m <= r
    <3> HIDE DEF Rest
    <3> QED
      BY <2>1, <1>4, LeastOfFinite
  <2>3. m \in 0 .. n - 1 /\ m \notin P /\ m \in Nat
    OBVIOUS
  <2>4. \A k \in 0 .. m - 1 : k \in P
    BY <2>2, <2>3
  <2>5. \A k \in 0 .. m - 1 : ok(k)
    BY <2>4, <1>1
  <2>6. ~ ok(m)
    BY <2>3, <2>5, <1>1
  <2>7. \A k \in P : k \in 0 .. m - 1
    BY <2>3, <2>6, <1>1
  <2>8. P = 0 .. m - 1
    BY <2>4, <2>7, Zenon
  <2> QED
    BY <2>3, <2>6, <2>8, <1>2 DEF P, ok
<1> QED
  BY <1>3, <1>4

\* The addresses of the pages a range release gets through.
LEMMA FreedRun ==
  ASSUME bitmap \in SUBSET Pages, NEW a \in Nat, NEW n \in Nat, NEW m \in Nat,
         FreedPrefix(a, n) = 0 .. m - 1
  PROVE  Addrs({Index(a + k * PAGE_SIZE) : k \in FreedPrefix(a, n)}) = Abstract!Run(a, m)
<1>1. ASSUME NEW k \in 0 .. m - 1 PROVE PageAddr(Index(a + k * PAGE_SIZE)) = a + k * PAGE_SIZE
  <2>1. k \in FreedPrefix(a, n) /\ k \in Nat
    OBVIOUS
  <2>2. FreeOutcome(a + k * PAGE_SIZE) = "done"
    BY <2>1 DEF FreedPrefix
  <2>3. k * PAGE_SIZE \in Nat /\ a + k * PAGE_SIZE \in Nat
    BY <2>1, PmmConstants
  <2> QED
    BY <2>2, <2>3, FreeableIsPageAddr
<1> QED
  BY <1>1 DEF Addrs, Abstract!Run

LEMMA FreePageIsRelease ==
  ASSUME PmmInv, NEW a \in Nat, free_page(a)
  PROVE  Abstract!Release(a, 1) \/ Abstract!PartialRelease(a, 1)
<1>1. bitmap \in SUBSET Pages
  BY DEF PmmInv, TypeOK
<1>2. CASE FreeOutcome(a) = "done"
  <2>1. a = PageAddr(Index(a)) /\ Index(a) \in bitmap
    BY <1>1, <1>2, FreeableIsPageAddr
  <2>2. bitmap' = bitmap \ {Index(a)} /\ reply' = Done
    BY <1>1, <1>2, <2>1, InBitmapPages DEF free_page
  <2>3. Abstract!Run(a, 1) = Addrs({Index(a)})
    <3>1. Index(a) \in Nat /\ Index(a) .. Index(a) + 1 - 1 = {Index(a)}
      <4>1. Index(a) \in Nat
        BY <1>1, <2>1, BitmapCoversPages, Zenon DEF Pages
      <4>2. \A x \in Nat : x .. x + 1 - 1 = {x}
        OBVIOUS
      <4> QED
        BY <4>1, <4>2, Zenon
    <3> QED
      BY <3>1, <2>1, RunOfPages, Zenon
  <2>4. /\ Addrs(Pages \ (bitmap \ {Index(a)})) = Addrs(Pages \ bitmap) \cup Addrs({Index(a)})
        /\ Addrs({Index(a)}) \subseteq Addrs(Pages) \ Addrs(Pages \ bitmap)
    BY <1>1, <2>1, AddrsFreed
  <2>5. /\ Abstract!Run(a, 1) \subseteq Addrs(Pages) \ Addrs(Pages \ bitmap)
        /\ Addrs(Pages \ bitmap') = Addrs(Pages \ bitmap) \cup Abstract!Run(a, 1)
        /\ reply' = Abstract!Done
    BY <2>2, <2>3, <2>4 DEF Done, Abstract!Done
  <2> QED
    BY <2>5 DEF Abstract!Release, Addrs
<1>3. CASE FreeOutcome(a) # "done"
  <2>1. bitmap' = bitmap /\ reply' = Abstract!Failed(FreeOutcome(a), 0)
    BY <1>3 DEF free_page, Failed, Abstract!Failed
  <2>2. Abstract!Run(a, 0) = {}
    BY DEF Abstract!Run
  <2>3. FreeOutcome(a) \in {"InvalidAddress", "InvalidArgument", "PageNotMapped"}
    BY <1>3, FreeOutcomeType
  <2>4. \E m \in 0 .. 1 - 1, e \in {"InvalidAddress", "InvalidArgument", "PageNotMapped"} :
          /\ Abstract!Run(a, m) \subseteq Addrs(Pages) \ Addrs(Pages \ bitmap)
          /\ Addrs(Pages \ bitmap') = Addrs(Pages \ bitmap) \cup Abstract!Run(a, m)
          /\ reply' = Abstract!Failed(e, 0)
    <3>1. 0 \in 0 .. 1 - 1
      OBVIOUS
    <3> QED
      BY <3>1, <2>1, <2>2, <2>3
  <2> QED
    BY <2>4 DEF Abstract!PartialRelease, Addrs
<1> QED
  BY <1>2, <1>3

LEMMA FreePagesRangeIsRelease ==
  ASSUME PmmInv, NEW a \in Nat, NEW n \in Nat, free_pages_range(a, n)
  PROVE  Abstract!Release(a, n) \/ Abstract!PartialRelease(a, n)
<1> DEFINE prefix == FreedPrefix(a, n)
           freed == {Index(a + k * PAGE_SIZE) : k \in prefix}
<1>1. bitmap \in SUBSET Pages
  BY DEF PmmInv, TypeOK
<1>2. freed \in SUBSET bitmap
  BY <1>1, FreedPrefixPages, Zenon
<1>3. InBitmap(freed) = freed
  BY <1>1, <1>2, InBitmapPages
<1>4. PICK m \in 0 .. n : /\ prefix = 0 .. m - 1 /\ Cardinality(prefix) = m
                          /\ m # n => FreeOutcome(a + m * PAGE_SIZE) # "done"
  BY FreedPrefixIsInterval
<1>5. /\ bitmap' = bitmap \ freed
      /\ reply' = IF m = n THEN Done ELSE Failed(FreeOutcome(a + m * PAGE_SIZE), 0)
  BY <1>3, <1>4 DEF free_pages_range
<1>6. Addrs(freed) = Abstract!Run(a, m)
  BY <1>1, <1>4, FreedRun, SMTT(30)
<1> HIDE DEF freed, prefix
<1>7. /\ Abstract!Run(a, m) \subseteq Addrs(Pages) \ Addrs(Pages \ bitmap)
      /\ Addrs(Pages \ bitmap') = Addrs(Pages \ bitmap) \cup Abstract!Run(a, m)
  <2>1. /\ Addrs(Pages \ (bitmap \ freed)) = Addrs(Pages \ bitmap) \cup Addrs(freed)
        /\ Addrs(freed) \subseteq Addrs(Pages) \ Addrs(Pages \ bitmap)
    BY <1>1, <1>2, AddrsFreed, Zenon
  <2>2. Addrs(Pages \ bitmap') = Addrs(Pages \ (bitmap \ freed))
    BY <1>5
  <2> QED
    BY <2>1, <2>2, <1>6
<1>8. CASE m = n
  BY <1>5, <1>7, <1>8 DEF Done, Abstract!Done, Abstract!Release, Addrs
<1>9. CASE m # n
  <2> DEFINE e == FreeOutcome(a + m * PAGE_SIZE)
  <2>1. e \in {"InvalidAddress", "InvalidArgument", "PageNotMapped"}
    BY <1>4, <1>9, FreeOutcomeType
  <2>2. reply' = Abstract!Failed(e, 0) /\ m \in 0 .. n - 1
    BY <1>5, <1>9 DEF Failed, Abstract!Failed
  <2> HIDE DEF e
  <2> QED
    BY <2>1, <2>2, <1>7, Zenon DEF Abstract!PartialRelease, Addrs
<1> QED
  BY <1>8, <1>9

LEMMA ReserveIsReserve ==
  ASSUME PmmInv, NEW a \in Nat, NEW n \in Nat, reserve_range(a, n)
  PROVE  Abstract!Reserve(a, n)
<1> DEFINE taken == IF a < base_addr THEN {} ELSE {pg \in ReservedPages(a, n) : ~ get_bit(pg)}
           touched == {f \in Addrs(Pages \ bitmap) : f < a + n /\ a < f + PAGE_SIZE}
<1>1. taken \in SUBSET (Pages \ bitmap) /\ bitmap \in SUBSET Pages
  BY DEF ReservedPages, get_bit, PmmInv, TypeOK
<1>2. InBitmap(taken) = taken
  BY <1>1, InBitmapPages
<1>3. bitmap' = bitmap \cup taken /\ reply' = Abstract!Reserved(a, n)
  BY <1>2 DEF reserve_range, Reserved, Abstract!Reserved
<1>4. base_addr \in Nat /\ \A pg \in Pages : PageAddr(pg) \in Nat /\ PageAddr(pg) >= base_addr
  <2>1. \A pg \in Pages : pg \in Nat /\ pg * PAGE_SIZE \in Nat
    BY BitmapCoversPages, PmmConstants
  <2> QED
    BY <2>1, PmmConstants DEF PageAddr
<1>5. CASE a < base_addr
  <2>1. ~ \E f \in Addrs(Pages) : f <= a
    BY <1>4, <1>5 DEF Addrs
  <2>2. bitmap' = bitmap
    BY <1>3, <1>5
  <2> QED
    BY <2>1, <2>2, <1>3 DEF Abstract!Reserve, Addrs
<1>6. CASE ~ (a < base_addr)
  <2>1. a >= base_addr
    BY <1>4, <1>6
  <2>2. \A pg \in Pages : ~ get_bit(pg) <=> pg \notin bitmap
    BY BitmapCoversPages, PmmConstants DEF get_bit, Pages
  <2>3. taken = {pg \in Pages \ bitmap : PageAddr(pg) < a + n /\ a < PageAddr(pg) + PAGE_SIZE}
    <3>1. \A pg \in Pages : pg \in ReservedPages(a, n) <=> PageAddr(pg) < a + n /\ a < PageAddr(pg) + PAGE_SIZE
      BY <2>1, ReservedPagesOverlap
    <3>2. taken = {pg \in ReservedPages(a, n) : ~ get_bit(pg)} /\ ReservedPages(a, n) \subseteq Pages
      BY <1>6 DEF ReservedPages
    <3> HIDE DEF taken
    <3> QED
      BY <3>1, <3>2, <2>2
  <2> HIDE DEF taken
  <2>4. Addrs(taken) = touched
    BY <2>3 DEF Addrs
  <2>5. Addrs(Pages \ bitmap') = Addrs(Pages \ bitmap) \ touched
    <3>1. Addrs(Pages \ (bitmap \cup taken)) = Addrs(Pages \ bitmap) \ Addrs(taken)
      BY <1>1, AddrsTaken, Zenon
    <3>2. Addrs(Pages \ bitmap') = Addrs(Pages \ (bitmap \cup taken))
      BY <1>3
    <3> HIDE DEF touched
    <3> QED
      BY <3>1, <3>2, <2>4
  <2>6. CASE Pages = {}
    <3>1. Addrs(Pages \ bitmap') = {} /\ Addrs(Pages \ bitmap) = {} /\ Addrs(Pages) = {}
      BY <2>6 DEF Addrs
    <3> QED
      BY <3>1, <1>3 DEF Abstract!Reserve, Addrs
  <2>7. CASE Pages # {}
    <3>1. 0 \in Pages
      BY <2>7, BitmapCoversPages DEF Pages
    <3>2. PageAddr(0) = base_addr
      BY PmmConstants DEF PageAddr
    <3>3. \E f \in Addrs(Pages) : f <= a
      BY <3>1, <3>2, <2>1, <1>4 DEF Addrs
    <3> QED
      BY <3>3, <2>5, <1>3 DEF Abstract!Reserve, Addrs
  <2> QED
    BY <2>6, <2>7
<1> QED
  BY <1>5, <1>6

LEMMA RefinementStep ==
  PmmInv /\ [Next]_vars => Abstract!Next \/ UNCHANGED <<{PageAddr(pg) : pg \in Pages \ bitmap}, reply>>
<1> SUFFICES ASSUME PmmInv, [Next]_vars, ~ UNCHANGED vars PROVE Abstract!Next
  BY DEF vars
<1>1. 1 \in 0 .. MaxCount /\ 0 .. MaxCount \subseteq Nat /\ Addresses \subseteq Nat /\ Sizes \subseteq Nat
  BY PmmConstants
<1>2. CASE alloc_page
  <2>1. CASE OutOfMemory(1) /\ (free_page_count = 0 \/ FirstFit(1) = {})
    <3>1. Abstract!Refuse(1)
      BY <2>1, OutOfMemoryIsRefusal DEF PmmInv, TypeOK
    <3> QED
      BY <3>1, <1>1 DEF Abstract!Next
  <2>2. ASSUME NEW s \in FirstFit(1), Take(s, 1) PROVE Abstract!Next
    <3>1. Abstract!Grant(1)
      BY <2>2, TakeIsGrant
    <3> QED
      BY <3>1, <1>1 DEF Abstract!Next
  <2> QED
    BY <1>2, <2>1, <2>2 DEF alloc_page
<1>3. ASSUME NEW num \in 0 .. MaxCount, alloc_pages(num) PROVE Abstract!Next
  <2>1. CASE OutOfMemory(num) /\ (free_page_count < num \/ FirstFit(num) = {})
    BY <2>1, <1>1, OutOfMemoryIsRefusal DEF Abstract!Next
  <2>2. ASSUME NEW s \in FirstFit(num), Take(s, num) PROVE Abstract!Next
    BY <2>2, <1>1, TakeIsGrant DEF Abstract!Next
  <2> QED
    BY <1>3, <2>1, <2>2 DEF alloc_pages
<1>4. ASSUME NEW addr \in Addresses, free_page(addr) PROVE Abstract!Next
  <2>1. Abstract!Release(addr, 1) \/ Abstract!PartialRelease(addr, 1)
    BY <1>4, <1>1, FreePageIsRelease
  <2> QED
    BY <2>1, <1>1 DEF Abstract!Next
<1>5. ASSUME NEW addr \in Addresses, NEW num \in 0 .. MaxCount, free_pages_range(addr, num)
      PROVE  Abstract!Next
  <2>1. Abstract!Release(addr, num) \/ Abstract!PartialRelease(addr, num)
    BY <1>5, <1>1, FreePagesRangeIsRelease
  <2> QED
    BY <2>1 DEF Abstract!Next
<1>6. ASSUME NEW start \in Addresses, NEW size \in Sizes, reserve_range(start, size)
      PROVE  Abstract!Next
  <2>1. Abstract!Reserve(start, size)
    BY <1>6, <1>1, ReserveIsReserve
  <2> QED
    BY <2>1 DEF Abstract!Next
<1> QED
  BY <1>2, <1>3, <1>4, <1>5, <1>6 DEF Next

\* For every memory size, page size and set of calls, the bitmap allocator of
\* pmm.rs implements the abstract page allocator: it grants only free runs,
\* refuses only what cannot be met, and frees and reserves exactly the pages
\* named, also when a range release stops half way.
THEOREM ImplementsPageAllocator == Spec => Refinement
<1>1. Init => Abstract!Init
  BY DEF Init, Done, Abstract!Init, Abstract!Done
<1> QED
  BY <1>1, RefinementStep, PmmInvariant, PTL DEF Spec, Refinement, Abstract!Spec
-----------------------------------------------------------------------------
(* The allocator with the loop of alloc_pages implements Pmm, for every    *)
(* memory size and request, so that the theorems above hold of it too.     *)
(* The loop invariant is LoopInv, proved inductive together with PmmInv.   *)

ScanInv ==
  /\ PmmInv
  /\ count \in 0 .. MaxCount
  /\ pc \in {"ready", "scan"}
  /\ LoopInv

LEMMA ScanInitInv == ScanInit => ScanInv
<1> SUFFICES ASSUME ScanInit PROVE ScanInv
  OBVIOUS
<1>1. PmmInv
  BY InitInv DEF ScanInit
<1> QED
  BY <1>1, PmmConstants DEF ScanInit, ScanInv, LoopInv

\* What the loop invariant says while the loop runs.
LEMMA LoopFacts ==
  ASSUME ScanInv, pc = "scan"
  PROVE  /\ i \in Nat /\ i <= total_pages
         /\ consecutive \in Nat /\ consecutive <= i
         /\ count \in Nat /\ count \in 0 .. MaxCount
         /\ found_start = IF consecutive = 0 THEN None ELSE i - consecutive
         /\ \A j \in i - consecutive .. i - 1 : ~ get_bit(j)
         /\ i > consecutive => get_bit(i - consecutive - 1)
         /\ count > 0 => consecutive < count
         /\ \A s \in FreeRuns(count) : count > 0 => s >= i - consecutive
  BY PmmConstants, BitmapCoversPages DEF ScanInv, LoopInv

\* When the loop runs out of pages there is no fit.
LEMMA ExhaustedHasNoFit ==
  ASSUME ScanInv, pc = "scan", i >= total_pages
  PROVE  FirstFit(count) = {}
<1>1. SUFFICES ASSUME NEW s \in FirstFit(count) PROVE FALSE
  OBVIOUS
<1>2. count # 0 /\ s \in FreeRuns(count) /\ s \in Nat /\ s + count <= total_pages
  BY BitmapCoversPages, Zenon DEF FirstFit, FreeRuns
<1> QED
  BY <1>1, <1>2, LoopFacts, BitmapCoversPages

\* When the run becomes long enough it is the first fit.
LEMMA CompletedRunIsFirstFit ==
  ASSUME ScanInv, pc = "scan", i < total_pages, ~ get_bit(i), consecutive + 1 = count
  PROVE  /\ (IF found_start = None THEN i ELSE found_start) = i - consecutive
         /\ i - consecutive \in FirstFit(count)
<1> DEFINE start == i - consecutive
<1>1. start \in Nat /\ start <= i /\ start + count = i + 1 /\ count > 0
  BY LoopFacts
<1>2. (IF found_start = None THEN i ELSE found_start) = start
  BY <1>1, LoopFacts DEF None
<1>3. start \in FreeRuns(count)
  <2>1. start \in Pages /\ start + count <= total_pages
    BY <1>1, LoopFacts, BitmapCoversPages DEF Pages
  <2>2. ASSUME NEW j \in start .. start + count - 1 PROVE ~ get_bit(j)
    <3>1. j \in i - consecutive .. i - 1 \/ j = i
      BY <1>1, <2>2, LoopFacts
    <3> QED
      BY <3>1, LoopFacts
  <2> QED
    BY <2>1, <2>2 DEF FreeRuns
<1>4. \A r \in FreeRuns(count) : start <= r
  BY <1>1, LoopFacts, BitmapCoversPages DEF FreeRuns
<1> QED
  BY <1>1, <1>2, <1>3, <1>4 DEF FirstFit

\* A used page ends the run, and no fit can start at or before it.
LEMMA UsedPageInv == ScanInv /\ UsedPage => ScanInv'
<1> SUFFICES ASSUME ScanInv, UsedPage PROVE ScanInv'
  OBVIOUS
<1>1. /\ pc = "scan" /\ i < total_pages /\ get_bit(i)
      /\ found_start' = None /\ consecutive' = 0 /\ i' = i + 1
      /\ pc' = pc /\ count' = count
      /\ bitmap' = bitmap /\ free_page_count' = free_page_count /\ reply' = reply
  BY DEF UsedPage, vars
<1>2. PmmInv'
  BY <1>1 DEF ScanInv, PmmInv, TypeOK, CountMatchesBitmap
<1>3. ASSUME NEW s \in FreeRuns(count), count > 0 PROVE s >= i + 1
  <2>1. s \in Nat /\ s >= i - consecutive /\ \A j \in s .. s + count - 1 : ~ get_bit(j)
    BY <1>1, <1>3, LoopFacts, BitmapCoversPages DEF FreeRuns
  <2>2. ~ (i \in s .. s + count - 1)
    BY <1>1, <2>1
  <2> QED
    BY <1>1, <1>3, <2>1, <2>2, LoopFacts
<1>4. FreeRuns(count)' = FreeRuns(count) /\ \A j : get_bit(j)' = get_bit(j)
  BY <1>1 DEF FreeRuns, get_bit
<1>5. LoopInv'
  <2>1. i' \in 0 .. total_pages /\ consecutive' \in 0 .. i'
    BY <1>1, LoopFacts, BitmapCoversPages
  <2>2. \A j \in i' - consecutive' .. i' - 1 : ~ get_bit(j)'
    BY <1>1, LoopFacts
  <2>3. get_bit(i - consecutive - 1)'
    <3>1. i' - consecutive' - 1 = i
      BY <1>1, LoopFacts
    <3> QED
      BY <1>1, <1>4, <3>1
  <2>4. \A s \in FreeRuns(count)' : count' > 0 => s >= i' - consecutive'
    BY <1>1, <1>3, <1>4, LoopFacts
  <2>5. count' > 0 => consecutive' < count'
    BY <1>1, LoopFacts
  <2> QED
    BY <1>1, <2>1, <2>2, <2>3, <2>4, <2>5 DEF LoopInv
<1> QED
  BY <1>1, <1>2, <1>5 DEF ScanInv

\* A free page that does not complete the run extends it.
LEMMA FreePageExtends ==
  ASSUME ScanInv, FreePage, consecutive + 1 # count
  PROVE  ScanInv'
<1>1. /\ pc = "scan" /\ i < total_pages /\ ~ get_bit(i)
      /\ found_start' = IF found_start = None THEN i ELSE found_start
      /\ consecutive' = consecutive + 1 /\ i' = i + 1
      /\ pc' = pc /\ count' = count
      /\ bitmap' = bitmap /\ free_page_count' = free_page_count /\ reply' = reply
  BY DEF FreePage, vars
<1>2. PmmInv'
  BY <1>1 DEF ScanInv, PmmInv, TypeOK, CountMatchesBitmap
<1>3. FreeRuns(count)' = FreeRuns(count) /\ \A j : get_bit(j)' = get_bit(j)
  BY <1>1 DEF FreeRuns, get_bit
<1>4. LoopInv'
  <2>1. i' \in 0 .. total_pages /\ consecutive' \in 0 .. i' /\ i' - consecutive' = i - consecutive
    BY <1>1, LoopFacts, BitmapCoversPages
  <2>2. ASSUME NEW j \in i' - consecutive' .. i' - 1 PROVE ~ get_bit(j)'
    <3>1. j \in i - consecutive .. i - 1 \/ j = i
      BY <1>1, <2>1, <2>2, LoopFacts
    <3> QED
      BY <1>1, <1>3, <3>1, LoopFacts
  <2>3. i' > consecutive' => get_bit(i - consecutive - 1)'
    BY <1>1, <1>3, <2>1, LoopFacts
  <2>4. \A s \in FreeRuns(count)' : count' > 0 => s >= i' - consecutive'
    BY <1>1, <1>3, <2>1, LoopFacts
  <2>5. count' > 0 => consecutive' < count'
    BY <1>1, LoopFacts
  <2>6. found_start' = IF consecutive' = 0 THEN None ELSE i' - consecutive'
    BY <1>1, <2>1, LoopFacts DEF None
  <2> QED
    BY <1>1, <2>1, <2>2, <2>3, <2>4, <2>5, <2>6, Zenon DEF LoopInv
<1> QED
  BY <1>1, <1>2, <1>4 DEF ScanInv

\* A free page that completes the run is an alloc_pages step.
LEMMA FreePageCompletes ==
  ASSUME ScanInv, FreePage, consecutive + 1 = count
  PROVE  ScanInv' /\ \E n \in 0 .. MaxCount : alloc_pages(n)
<1>1. /\ pc = "scan" /\ i < total_pages /\ ~ get_bit(i)
      /\ Take(IF found_start = None THEN i ELSE found_start, count)
      /\ pc' = "ready" /\ count' = 0
  BY DEF FreePage, Return
<1>2. i - consecutive \in FirstFit(count) /\ Take(i - consecutive, count) /\ count \in Nat /\ count > 0
  BY <1>1, CompletedRunIsFirstFit, LoopFacts
<1>3. PmmInv'
  BY <1>2, TakeInv DEF ScanInv
<1>4. free_page_count >= count
  BY <1>2, RunFitsCount DEF ScanInv, FirstFit
<1>5. alloc_pages(count)
  BY <1>2, <1>4 DEF alloc_pages
<1> QED
  BY <1>1, <1>2, <1>3, <1>5, LoopFacts, PmmConstants DEF ScanInv, LoopInv

\* Each step preserves the invariant and is, for a caller, a step of Pmm or
\* no step at all.
LEMMA ScanStep ==
  ScanInv /\ [ScanNext]_<<vars, scan_vars>> => ScanInv' /\ [Next]_vars
<1> SUFFICES ASSUME ScanInv, [ScanNext]_<<vars, scan_vars>>
             PROVE  ScanInv' /\ [Next]_vars
  OBVIOUS
<1>a. (\E n \in 0 .. MaxCount : alloc_pages(n)) => Next
  BY DEF Next
<1>0. CASE OtherCall
  <2>1. Next
    BY <1>0 DEF OtherCall, Next
  <2>2. PmmInv'
    BY <2>1, NextInv DEF ScanInv
  <2>3. pc = "ready" /\ pc' = pc /\ count' = count
    BY <1>0 DEF OtherCall, scan_vars
  <2> QED
    BY <2>1, <2>2, <2>3 DEF ScanInv, LoopInv
<1>1. ASSUME NEW n \in 0 .. MaxCount, Call(n)
      PROVE  ScanInv' /\ [Next]_vars
  <2>n. n \in Nat
    BY PmmConstants
  <2>1. CASE free_page_count < n /\ OutOfMemory(n) /\ UNCHANGED scan_vars
    <3>1. alloc_pages(n)
      BY <2>1 DEF alloc_pages
    <3>2. PmmInv'
      BY <2>n, <2>1, OutOfMemoryInv DEF ScanInv
    <3>3. pc = "ready"
      BY <1>1 DEF Call
    <3> QED
      BY <1>a, <2>1, <3>1, <3>2, <3>3 DEF ScanInv, LoopInv, scan_vars
  <2>2. CASE /\ pc' = "scan" /\ count' = n
             /\ i' = 0 /\ found_start' = None /\ consecutive' = 0
             /\ UNCHANGED vars
    <3>1. PmmInv'
      BY <2>2 DEF ScanInv, PmmInv, TypeOK, CountMatchesBitmap, vars
    <3>2. \A s \in FreeRuns(n)' : s >= 0
      BY BitmapCoversPages DEF FreeRuns
    <3>3. LoopInv'
      BY <2>n, <2>2, <3>2, BitmapCoversPages DEF LoopInv
    <3> QED
      BY <2>2, <3>1, <3>3 DEF ScanInv
  <2> QED
    BY <1>1, <2>1, <2>2 DEF Call
<1>2. CASE UsedPage
  BY <1>2, UsedPageInv DEF UsedPage
<1>3. CASE FreePage
  <2>1. CASE consecutive + 1 = count
    BY <1>a, <1>3, <2>1, FreePageCompletes
  <2>2. CASE consecutive + 1 # count
    BY <1>3, <2>2, FreePageExtends DEF FreePage
  <2> QED
    BY <2>1, <2>2
<1>4. CASE Exhausted
  <2>1. pc = "scan" /\ i >= total_pages /\ OutOfMemory(count) /\ pc' = "ready" /\ count' = 0
    BY <1>4 DEF Exhausted, Return
  <2>2. FirstFit(count) = {} /\ count \in 0 .. MaxCount /\ count \in Nat
    BY <2>1, ExhaustedHasNoFit, LoopFacts
  <2>3. alloc_pages(count)
    BY <2>1, <2>2 DEF alloc_pages
  <2>4. PmmInv'
    BY <2>1, <2>2, OutOfMemoryInv DEF ScanInv
  <2> QED
    BY <1>a, <2>1, <2>2, <2>3, <2>4, PmmConstants DEF ScanInv, LoopInv
<1>5. CASE UNCHANGED <<vars, scan_vars>>
  BY <1>5 DEF ScanInv, PmmInv, TypeOK, CountMatchesBitmap, LoopInv, FreeRuns, get_bit, vars, scan_vars
<1> QED
  BY <1>0, <1>1, <1>2, <1>3, <1>4, <1>5 DEF ScanNext

\* The loop of alloc_pages keeps its invariant, whatever calls came before.
THEOREM LoopInvariantHolds == ScanSpec => []LoopInv
<1>1. ScanInv => LoopInv
  BY DEF ScanInv
<1> QED
  BY <1>1, ScanInitInv, ScanStep, PTL DEF ScanSpec

\* The allocator with its loop implements Pmm: alloc_pages takes the first run
\* of free pages that is long enough, or refuses when there is none, and
\* changes nothing before it returns.
THEOREM ScanIsFirstFit == ScanSpec => ScanImplementsPmm
<1>1. ScanInit => Init
  BY DEF ScanInit
<1> QED
  BY <1>1, ScanInitInv, ScanStep, PTL DEF ScanSpec, ScanImplementsPmm, Spec
=============================================================================
