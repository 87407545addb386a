----------------------------- MODULE VmmProofs -----------------------------
(***************************************************************************)
(* Proofs about the virtual memory manager, for every table size, size of  *)
(* the pool and set of calls, as long as no call names a page of boot.asm's *)
(* identity map (the huge pages of p2_table, which map_page and unmap_page *)
(* would walk as if they were page tables).                                *)
(*                                                                         *)
(* The inductive invariant is that the tables form a tree (VmmTableProofs) *)
(* and that what the TLB holds is what the tables say.                     *)
(***************************************************************************)
EXTENDS VmmTableProofs

-----------------------------------------------------------------------------
(* A write to an entry of a page table of level 1 *)

\* Memory m2 is m but for entry i of table t.
Written(m, m2, t, i) ==
  /\ m2 \in Memory
  /\ \A f \in Frames, j \in Entries : ~ (f = t /\ j = i) => m2[f][j] = m[f][j]

LEMMA LeafTree ==
  ASSUME NEW m, NEW m2, NEW n, NEW lev, NEW up, NEW at, Tree(m, n, lev, up, at),
         NEW t \in Frames, NEW i \in Entries, lev[t] = 1, Written(m, m2, t, i),
         m2[t][i].flags \in CallFlags
  PROVE  Tree(m2, n, lev, up, at)
<1>1. ASSUME NEW f \in Frames, NEW j \in Entries, lev[f] # 1 PROVE m2[f][j] = m[f][j]
  BY <1>1 DEF Written
<1>2. Levels(n, lev, up, at) /\ m2 \in Memory
  BY DEF Tree, Written
<1>3. ASSUME NEW f \in Frames, lev[f] \in 1 .. 3 PROVE Hung(m2, lev, up, at, f)
  <2>1. Hung(m, lev, up, at, f) /\ up[f] \in Frames /\ at[f] \in Entries
    BY <1>3 DEF Tree, Levels
  <2>2. lev[up[f]] # 1
    BY <1>3, <2>1 DEF Hung
  <2>3. m2[up[f]][at[f]] = m[up[f]][at[f]]
    BY <1>1, <2>1, <2>2
  <2> QED
    BY <2>1, <2>3 DEF Hung
<1>4. ASSUME NEW x \in Frames, NEW j \in Entries, lev[x] \in 2 .. 4, x # p2_table
      PROVE  Linked(m2, lev, up, at, x, j)
  <2>1. Linked(m, lev, up, at, x, j)
    BY <1>4 DEF Tree
  <2>2. lev[x] # 1
    BY <1>4
  <2>3. m2[x][j] = m[x][j]
    BY <1>1, <2>2
  <2> QED
    BY <2>1, <2>3 DEF Linked, is_present
<1>5. \A j \in Entries : m2[p2_table][j] = Entry(j * PAGE_ENTRIES, TableFlags \cup {"HUGE_PAGE"})
  <2>1. lev[p2_table] # 1
    BY <1>2 DEF Levels
  <2> QED
    BY <1>1, <2>1, FrameFacts, Zenon DEF Tree
<1>6. ASSUME NEW x \in Frames, NEW j \in Entries, lev[x] = 1 PROVE m2[x][j].flags \in CallFlags
  <2>1. CASE x = t /\ j = i
    BY <2>1
  <2>2. CASE ~ (x = t /\ j = i)
    <3>1. m2[x][j] = m[x][j]
      BY <2>2 DEF Written
    <3> QED
      BY <1>6, <3>1 DEF Tree
  <2> QED
    BY <2>1, <2>2
<1> QED
  BY <1>2, <1>3, <1>4, <1>5, <1>6, Zenon DEF Tree

\* The write moves no walk.
LEMMA LeafWalk ==
  ASSUME NEW m, NEW m2, NEW n, NEW lev, NEW up, NEW at, Tree(m, n, lev, up, at),
         NEW t \in Frames, NEW i \in Entries, lev[t] = 1, Written(m, m2, t, i),
         NEW w \in Outside, TablesPresent(m, w)
  PROVE  TablesPresent(m2, w) /\ pt_addr(m2, w) = pt_addr(m, w)
<1> DEFINE i4 == pml4_index(w)
           i3 == pdpt_index(w)
           i2 == pd_index(w)
<1>1. i4 \in Entries /\ i3 \in Entries /\ i2 \in Entries
  BY TopIndex, IndexTypes
<1>2. /\ is_present(m, p4_table, i4) /\ is_present(m, pdpt_addr(m, w), i3)
      /\ is_present(m, pd_addr(m, w), i2)
  BY DEF TablesPresent
<1> HIDE DEF i4, i3, i2
<1>3. /\ pdpt_addr(m, w) \in Frames /\ pdpt_addr(m, w) # t
      /\ pd_addr(m, w) \in Frames /\ pd_addr(m, w) # t
      /\ p4_table \in Frames /\ p4_table # t
  <2>1. lev[p4_table] = 4
    BY FrameFacts DEF Tree, Levels
  <2> QED
    BY <2>1, PathFacts, FrameFacts
<1>4. ASSUME NEW f \in Frames, NEW j \in Entries, f # t PROVE m2[f][j] = m[f][j]
  BY <1>4 DEF Written
<1>5. m2[p4_table][i4] = m[p4_table][i4]
  BY <1>1, <1>3, <1>4
<1>6. pdpt_addr(m2, w) = pdpt_addr(m, w) /\ is_present(m2, p4_table, i4)
  BY <1>2, <1>5 DEF pdpt_addr, i4, is_present
<1>7. m2[pdpt_addr(m, w)][i3] = m[pdpt_addr(m, w)][i3]
  BY <1>1, <1>3, <1>4
<1>8. pd_addr(m2, w) = pd_addr(m, w) /\ is_present(m2, pdpt_addr(m, w), i3)
  BY <1>2, <1>6, <1>7, Zenon DEF pd_addr, i3, is_present
<1>9. m2[pd_addr(m, w)][i2] = m[pd_addr(m, w)][i2]
  BY <1>1, <1>3, <1>4
<1>10. pt_addr(m2, w) = pt_addr(m, w) /\ is_present(m2, pd_addr(m, w), i2)
  BY <1>2, <1>8, <1>9, Zenon DEF pt_addr, i2, is_present
<1> QED
  BY <1>6, <1>8, <1>10 DEF TablesPresent, i4, i3, i2

\* Two pages do not share an entry.
LEMMA LeafIsOwn ==
  ASSUME NEW m, NEW n, NEW lev, NEW up, NEW at, Tree(m, n, lev, up, at),
         NEW v \in Outside, NEW w \in Outside, TablesPresent(m, v), TablesPresent(m, w),
         pt_addr(m, v) = pt_addr(m, w), pt_index(v) = pt_index(w)
  PROVE  v = w
<1>1. /\ pd_addr(m, v) = pd_addr(m, w) /\ pd_index(v) = pd_index(w)
  BY PathFacts
<1>2. /\ pdpt_addr(m, v) = pdpt_addr(m, w) /\ pdpt_index(v) = pdpt_index(w)
  BY <1>1, PathFacts
<1>3. pml4_index(v) = pml4_index(w)
  BY <1>2, PathFacts
<1> QED
  BY <1>1, <1>2, <1>3, IndicesIdentify

\* The write changes the mapping of its own page and of no other.
LEMMA LeafWrite ==
  ASSUME NEW m, NEW m2, NEW n, IsTree(m, n), NEW v \in Outside, TablesPresent(m, v),
         Written(m, m2, pt_addr(m, v), pt_index(v)),
         m2[pt_addr(m, v)][pt_index(v)].flags \in CallFlags
  PROVE  /\ IsTree(m2, n)
         /\ TablesPresent(m2, v) /\ pt_addr(m2, v) = pt_addr(m, v)
         /\ \A w \in Outside : w # v =>
               /\ PageMapped(m2, w) <=> PageMapped(m, w)
               /\ PageMapped(m, w) => Leaf(m2, w) = Leaf(m, w)
<1>1. PICK lev, up, at : Tree(m, n, lev, up, at)
  BY DEF IsTree
<1> DEFINE t == pt_addr(m, v)
           i == pt_index(v)
<1>2. t \in Frames /\ lev[t] = 1 /\ i \in Entries
  BY <1>1, PathFacts, TopIndex, IndexTypes
<1>3. Tree(m2, n, lev, up, at)
  BY <1>1, <1>2, LeafTree
<1>4. TablesPresent(m2, v) /\ pt_addr(m2, v) = pt_addr(m, v)
  BY <1>1, <1>2, LeafWalk
<1>5. m \in Memory /\ Written(m2, m, t, i)
  BY <1>1 DEF Tree, Written
<1>6. ASSUME NEW w \in Outside, w # v, TablesPresent(m, w)
      PROVE  /\ TablesPresent(m2, w) /\ pt_addr(m2, w) = pt_addr(m, w)
             /\ m2[pt_addr(m, w)][pt_index(w)] = m[pt_addr(m, w)][pt_index(w)]
  <2>1. TablesPresent(m2, w) /\ pt_addr(m2, w) = pt_addr(m, w)
    BY <1>1, <1>2, <1>6, LeafWalk
  <2>2. ~ (pt_addr(m, w) = t /\ pt_index(w) = i)
    BY <1>1, <1>6, LeafIsOwn
  <2>3. pt_addr(m, w) \in Frames /\ pt_index(w) \in Entries
    BY <1>1, <1>6, PathFacts, TopIndex, IndexTypes
  <2> QED
    BY <2>1, <2>2, <2>3 DEF Written
<1>7. ASSUME NEW w \in Outside, TablesPresent(m2, w)
      PROVE  TablesPresent(m, w)
  BY <1>2, <1>3, <1>5, <1>7, LeafWalk
<1>8. ASSUME NEW w \in Outside, w # v
      PROVE  /\ PageMapped(m2, w) <=> PageMapped(m, w)
             /\ PageMapped(m, w) => Leaf(m2, w) = Leaf(m, w)
  <2>1. CASE TablesPresent(m, w)
    BY <1>6, <1>8, <2>1 DEF PageMapped, Leaf, is_present
  <2>2. CASE ~ TablesPresent(m, w)
    BY <1>7, <2>2 DEF PageMapped
  <2> QED
    BY <2>1, <2>2
<1> QED
  BY <1>3, <1>4, <1>8 DEF IsTree

-----------------------------------------------------------------------------
(* What the calls do to the mapping of every page *)

\* The mapping an entry with address p and flags f makes.
Mapped(p, f) == IF "PRESENT" \in f THEN [phys |-> p, flags |-> f] ELSE Unmapped

LEMMA SameTranslate ==
  ASSUME NEW m, NEW n, NEW m2, NEW n2, IsTree(m, n), IsTree(m2, n2), NEW w \in Outside,
         PageMapped(m2, w) <=> PageMapped(m, w),
         PageMapped(m, w) => Leaf(m2, w) = Leaf(m, w)
  PROVE  translate(m2, w) = translate(m, w)
<1>1. translate(m, w) = IF PageMapped(m, w) THEN Leaf(m, w) ELSE Unmapped
  BY TranslateOutside
<1>2. translate(m2, w) = IF PageMapped(m2, w) THEN Leaf(m2, w) ELSE Unmapped
  BY TranslateOutside
<1> QED
  BY <1>1, <1>2

\* A page is mapped when its translation has the PRESENT flag.
LEMMA MappedTranslate ==
  ASSUME NEW m, NEW n, IsTree(m, n), NEW w \in Outside
  PROVE  /\ PageMapped(m, w) <=> translate(m, w) # Unmapped
         /\ PageMapped(m, w) <=> "PRESENT" \in translate(m, w).flags
<1>1. translate(m, w) = IF PageMapped(m, w) THEN Leaf(m, w) ELSE Unmapped
  BY TranslateOutside
<1>2. PageMapped(m, w) => "PRESENT" \in Leaf(m, w).flags
  BY DEF PageMapped, is_present, Leaf
<1>3. Unmapped.flags = {}
  BY DEF Unmapped
<1> QED
  BY <1>1, <1>2, <1>3

\* A write of one entry.
Put(m, t, i, e) == [m EXCEPT ![t] = [m[t] EXCEPT ![i] = e]]

LEMMA EntryWritten ==
  ASSUME NEW m \in Memory, NEW t \in Frames, NEW i \in Entries, NEW e \in PageEntry
  PROVE  Written(m, Put(m, t, i, e), t, i) /\ Put(m, t, i, e)[t][i] = e
<1> DEFINE m2 == Put(m, t, i, e)
<1>1. m[t] \in [Entries -> PageEntry]
  BY DEF Memory
<1>2. [m[t] EXCEPT ![i] = e] \in [Entries -> PageEntry]
  BY <1>1
<1>3. m2 \in Memory /\ m2[t] = [m[t] EXCEPT ![i] = e] /\ \A x \in Frames : x # t => m2[x] = m[x]
  BY <1>2 DEF Memory, Put
<1> HIDE DEF m2
<1>4. m2[t][i] = e /\ \A j \in Entries : j # i => m2[t][j] = m[t][j]
  BY <1>1, <1>3
<1>5. Written(m, m2, t, i)
  BY <1>3, <1>4, Zenon DEF Written
<1> QED
  BY <1>4, <1>5 DEF m2

LEMMA LeafPlace ==
  ASSUME NEW m, NEW n, IsTree(m, n), NEW v \in Outside, TablesPresent(m, v)
  PROVE  /\ pt_addr(m, v) \in Frames /\ pt_index(v) \in Entries /\ m \in Memory
         /\ m[pt_addr(m, v)][pt_index(v)] \in PageEntry
<1>1. PICK lev, up, at : Tree(m, n, lev, up, at)
  BY DEF IsTree
<1>2. pt_addr(m, v) \in Frames /\ pt_index(v) \in Entries /\ m \in Memory
  BY <1>1, PathFacts, TopIndex, IndexTypes, Zenon DEF Tree
<1> QED
  BY <1>2 DEF Memory

\* The three calls that write an entry write it alone, and the mapping of
\* their page becomes what the entry says.
LEMMA WriteTranslate ==
  ASSUME NEW m, NEW m2, NEW n, IsTree(m, n), NEW v \in Outside, TablesPresent(m, v),
         NEW p \in Nat, NEW f \in CallFlags,
         Written(m, m2, pt_addr(m, v), pt_index(v)),
         m2[pt_addr(m, v)][pt_index(v)] = Entry(p, f)
  PROVE  /\ IsTree(m2, n)
         /\ translate(m2, v) = Mapped(p, f)
         /\ \A w \in Outside : w # v => translate(m2, w) = translate(m, w)
<1>1. Entry(p, f).addr = p /\ Entry(p, f).flags = f
  BY DEF Entry
<1>2. m2[pt_addr(m, v)][pt_index(v)].flags \in CallFlags
  BY <1>1
<1>3. /\ IsTree(m2, n) /\ TablesPresent(m2, v) /\ pt_addr(m2, v) = pt_addr(m, v)
      /\ \A w \in Outside : w # v =>
            /\ PageMapped(m2, w) <=> PageMapped(m, w)
            /\ PageMapped(m, w) => Leaf(m2, w) = Leaf(m, w)
  BY <1>2, LeafWrite
<1>4. translate(m2, v) = Mapped(p, f)
  <2>1. PageMapped(m2, v) <=> "PRESENT" \in f
    BY <1>1, <1>3 DEF PageMapped, is_present
  <2>2. Leaf(m2, v) = [phys |-> p, flags |-> f]
    BY <1>1, <1>3 DEF Leaf
  <2> QED
    BY <1>3, <2>1, <2>2, TranslateOutside DEF Mapped
<1>5. \A w \in Outside : w # v => translate(m2, w) = translate(m, w)
  BY <1>3, SameTranslate
<1> QED
  BY <1>3, <1>4, <1>5

LEMMA EntryType ==
  ASSUME NEW p \in Nat, NEW f \in CallFlags
  PROVE  Entry(p, f) \in PageEntry
  BY FlagFacts DEF Entry, PageEntry

LEMMA MapPageFacts ==
  ASSUME IsTree(mem, NEXT_PAGE_ADDR), NEW v \in Outside, NEW p \in Nat, NEW f \in CallFlags,
         MapPage(v, p, f)
  PROVE  /\ IsTree(mem', NEXT_PAGE_ADDR')
         /\ \A w \in Outside : w # v => translate(mem', w) = translate(mem, w)
         /\ \/ /\ reply' = "PageAlreadyMapped" /\ translate(mem, v) # Unmapped
               /\ translate(mem', v) = translate(mem, v) /\ tlb' = tlb
            \/ /\ reply' = "OutOfMemory" /\ translate(mem, v) = Unmapped
               /\ translate(mem', v) = translate(mem, v) /\ tlb' = tlb
            \/ /\ reply' = "Ok" /\ translate(mem, v) = Unmapped
               /\ translate(mem', v) = Mapped(p, f) /\ invlpg(v)
<1> DEFINE s == MapTables(v)
           free == s.ok /\ ~ is_present(s.mem, pt_addr(s.mem, v), pt_index(v))
<1>1. /\ NEXT_PAGE_ADDR' = s.next
      /\ mem' = IF free
                THEN [s.mem EXCEPT ![pt_addr(s.mem, v)][pt_index(v)] = Entry(p, f)]
                ELSE s.mem
      /\ reply' = IF ~ s.ok THEN "OutOfMemory" ELSE IF free THEN "Ok" ELSE "PageAlreadyMapped"
      /\ IF free THEN invlpg(v) ELSE tlb' = tlb
  BY DEF MapPage
<1>2. PICK m2, n2, ok : /\ s = State(m2, n2, ok) /\ ok \in BOOLEAN
                        /\ IsTree(m2, n2) /\ Same(mem, m2)
                        /\ ok => TablesPresent(m2, v)
                        /\ ~ ok => ~ PageMapped(mem, v)
  BY MapTablesFacts
<1> HIDE DEF s
<1>3. s.mem = m2 /\ s.next = n2 /\ s.ok = ok
  BY <1>2, Zenon DEF State
<1>4. ASSUME NEW w \in Outside PROVE translate(m2, w) = translate(mem, w)
  <2>1. /\ PageMapped(m2, w) <=> PageMapped(mem, w)
        /\ PageMapped(mem, w) => Leaf(m2, w) = Leaf(mem, w)
    BY <1>2 DEF Same
  <2> QED
    BY <1>2, <2>1, SameTranslate
<1>5. PageMapped(mem, v) <=> translate(mem, v) # Unmapped
  BY MappedTranslate
<1>6. CASE ~ ok
  <2>1. ~ s.ok /\ ~ free
    BY <1>3, <1>6, Zenon
  <2>2. mem' = m2 /\ NEXT_PAGE_ADDR' = n2 /\ reply' = "OutOfMemory" /\ tlb' = tlb
    BY <1>1, <1>3, <2>1, Zenon
  <2>3. translate(mem, v) = Unmapped
    BY <1>2, <1>5, <1>6, Zenon
  <2> QED
    BY <1>2, <1>4, <2>2, <2>3, Zenon
<1>7. CASE ok /\ is_present(m2, pt_addr(m2, v), pt_index(v))
  <2>1. s.ok /\ ~ free
    BY <1>3, <1>7, Zenon
  <2>2. mem' = m2 /\ NEXT_PAGE_ADDR' = n2 /\ reply' = "PageAlreadyMapped" /\ tlb' = tlb
    BY <1>1, <1>3, <2>1, Zenon
  <2>3. PageMapped(m2, v)
    BY <1>2, <1>7, Zenon DEF PageMapped
  <2>4. translate(mem, v) # Unmapped
    BY <1>2, <1>4, <2>3, MappedTranslate
  <2> QED
    BY <1>2, <1>4, <2>2, <2>4, Zenon
<1>8. CASE ok /\ ~ is_present(m2, pt_addr(m2, v), pt_index(v))
  <2>1. s.ok /\ free
    BY <1>3, <1>8, Zenon
  <2>2. /\ mem' = [m2 EXCEPT ![pt_addr(m2, v)][pt_index(v)] = Entry(p, f)]
        /\ NEXT_PAGE_ADDR' = n2 /\ reply' = "Ok" /\ invlpg(v)
    BY <1>1, <1>3, <2>1, Zenon
  <2>3. mem' = Put(m2, pt_addr(m2, v), pt_index(v), Entry(p, f))
    BY <2>2 DEF Put
  <2>4. TablesPresent(m2, v)
    BY <1>2, <1>8, Zenon
  <2>5. ~ PageMapped(m2, v)
    BY <1>8, Zenon DEF PageMapped
  <2>6. translate(mem, v) = Unmapped
    BY <1>2, <1>4, <2>5, MappedTranslate
  <2>7. /\ IsTree(mem', n2) /\ translate(mem', v) = Mapped(p, f)
        /\ \A w \in Outside : w # v => translate(mem', w) = translate(m2, w)
    <3>1. /\ pt_addr(m2, v) \in Frames /\ pt_index(v) \in Entries /\ m2 \in Memory
          /\ Entry(p, f) \in PageEntry
      BY <1>2, <2>4, LeafPlace, EntryType
    <3>2. /\ Written(m2, mem', pt_addr(m2, v), pt_index(v))
          /\ mem'[pt_addr(m2, v)][pt_index(v)] = Entry(p, f)
      BY <2>3, <3>1, EntryWritten
    <3> QED
      BY <1>2, <2>4, <3>2, WriteTranslate
  <2>8. \A w \in Outside : w # v => translate(mem', w) = translate(mem, w)
    BY <1>4, <2>7, Zenon
  <2> QED
    BY <2>2, <2>6, <2>7, <2>8, Zenon
<1> QED
  BY <1>6, <1>7, <1>8, Zenon

LEMMA UnmapFacts ==
  ASSUME IsTree(mem, NEXT_PAGE_ADDR), NEW v \in Outside, unmap_page(v)
  PROVE  /\ IsTree(mem', NEXT_PAGE_ADDR')
         /\ \A w \in Outside : w # v => translate(mem', w) = translate(mem, w)
         /\ \/ /\ reply' = "PageNotMapped" /\ translate(mem, v) = Unmapped
               /\ mem' = mem /\ tlb' = tlb
            \/ /\ reply' = "Ok" /\ translate(mem, v) # Unmapped
               /\ translate(mem', v) = Unmapped /\ invlpg(v)
<1>1. PageMapped(mem, v) <=> translate(mem, v) # Unmapped
  BY MappedTranslate
<1>2. NEXT_PAGE_ADDR' = NEXT_PAGE_ADDR
  BY DEF unmap_page
<1>3. CASE ~ PageMapped(mem, v)
  <2>1. mem' = mem /\ tlb' = tlb /\ reply' = "PageNotMapped"
    BY <1>3 DEF unmap_page
  <2> QED
    BY <1>1, <1>2, <1>3, <2>1
<1>4. CASE PageMapped(mem, v)
  <2>1. /\ mem' = Put(mem, pt_addr(mem, v), pt_index(v), Entry(0, {}))
        /\ invlpg(v) /\ reply' = "Ok"
    BY <1>4 DEF unmap_page, Put
  <2>2. TablesPresent(mem, v)
    BY <1>4 DEF PageMapped
  <2>3. 0 \in Nat /\ {} \in CallFlags /\ "PRESENT" \notin {}
    BY FlagFacts
  <2>4. /\ pt_addr(mem, v) \in Frames /\ pt_index(v) \in Entries /\ mem \in Memory
        /\ Entry(0, {}) \in PageEntry
    BY <2>2, <2>3, LeafPlace, EntryType
  <2>5. /\ Written(mem, mem', pt_addr(mem, v), pt_index(v))
        /\ mem'[pt_addr(mem, v)][pt_index(v)] = Entry(0, {})
    BY <2>1, <2>4, EntryWritten
  <2>6. /\ IsTree(mem', NEXT_PAGE_ADDR) /\ translate(mem', v) = Mapped(0, {})
        /\ \A w \in Outside : w # v => translate(mem', w) = translate(mem, w)
    BY <2>2, <2>3, <2>5, WriteTranslate
  <2>7. Mapped(0, {}) = Unmapped
    BY <2>3 DEF Mapped
  <2> QED
    BY <1>1, <1>2, <1>4, <2>1, <2>6, <2>7
<1> QED
  BY <1>3, <1>4

LEMMA UpdateFlagsFacts ==
  ASSUME IsTree(mem, NEXT_PAGE_ADDR), NEW v \in Outside, NEW f \in CallFlags, update_flags(v, f)
  PROVE  /\ IsTree(mem', NEXT_PAGE_ADDR')
         /\ \A w \in Outside : w # v => translate(mem', w) = translate(mem, w)
         /\ \/ /\ reply' = "PageNotMapped" /\ translate(mem, v) = Unmapped
               /\ mem' = mem /\ tlb' = tlb
            \/ /\ reply' = "Ok" /\ translate(mem, v) # Unmapped
               /\ translate(mem', v) = Mapped(translate(mem, v).phys, f) /\ invlpg(v)
<1>1. PageMapped(mem, v) <=> translate(mem, v) # Unmapped
  BY MappedTranslate
<1>2. NEXT_PAGE_ADDR' = NEXT_PAGE_ADDR
  BY DEF update_flags
<1>3. CASE ~ PageMapped(mem, v)
  <2>1. mem' = mem /\ tlb' = tlb /\ reply' = "PageNotMapped"
    BY <1>3 DEF update_flags
  <2> QED
    BY <1>1, <1>2, <1>3, <2>1
<1>4. CASE PageMapped(mem, v)
  <2> DEFINE t == pt_addr(mem, v)
             i == pt_index(v)
             a == mem[t][i].addr
  <2>1. TablesPresent(mem, v)
    BY <1>4 DEF PageMapped
  <2>2. t \in Frames /\ i \in Entries /\ mem \in Memory /\ mem[t][i] \in PageEntry
    BY <2>1, LeafPlace
  <2>3. a \in Nat
    BY <2>2 DEF PageEntry
  <2>4. Entry(a, f) \in PageEntry
    BY <2>3, EntryType
  <2>5. mem' = [mem EXCEPT ![t] = [mem[t] EXCEPT ![i] = [mem[t][i] EXCEPT !.flags = f]]]
    BY <1>4 DEF update_flags
  <2>6. invlpg(v) /\ reply' = "Ok"
    BY <1>4 DEF update_flags
  <2>7. ASSUME NEW e \in PageEntry PROVE [e EXCEPT !.flags = f] = Entry(e.addr, f)
    BY DEF PageEntry, Entry
  <2>8. mem' = Put(mem, t, i, Entry(a, f))
    BY <2>2, <2>5, <2>7, Zenon DEF Put
  <2>9. Written(mem, mem', t, i) /\ mem'[t][i] = Entry(a, f)
    BY <2>2, <2>4, <2>8, EntryWritten
  <2>10. /\ IsTree(mem', NEXT_PAGE_ADDR) /\ translate(mem', v) = Mapped(a, f)
         /\ \A w \in Outside : w # v => translate(mem', w) = translate(mem, w)
    BY <2>1, <2>3, <2>9, WriteTranslate
  <2>11. translate(mem, v).phys = a
    BY <1>4, TranslateOutside DEF Leaf
  <2> QED
    BY <1>1, <1>2, <1>4, <2>6, <2>10, <2>11
<1> QED
  BY <1>3, <1>4

-----------------------------------------------------------------------------
(* The invariant *)

\* No call names a page of the boot mapping.
CallsOutside == \A v \in Virts : v >= HugeFrames

\* What a call of identity_map still has to map lies in Virts.
IdentOK ==
  \/ ident = NoCall
  \/ /\ ident.addr \in Nat /\ ident.end \in Nat /\ ident.flags \in CallFlags
     /\ ident = [addr |-> ident.addr, end |-> ident.end, flags |-> ident.flags]
     /\ ident.addr < ident.end
     /\ \A a \in ident.addr .. ident.end - 1 : a \in Virts

TlbOK == \A c \in tlb : c[1] \in Virts /\ translate(mem, c[1]) = c[2]

VmmInv ==
  /\ CallsOutside
  /\ IsTree(mem, NEXT_PAGE_ADDR)
  /\ TlbOK
  /\ IdentOK

LEMMA VirtsOutside == CallsOutside => Virts \subseteq Outside
<1> DEFINE top == PAGE_ENTRIES * PAGE_ENTRIES * PAGE_ENTRIES * PAGE_ENTRIES
<1>1. top \in Nat
  BY TableSize
<1>2. Virts \subseteq 0 .. top - 1
  BY VmmConstants
<1>3. Outside = HugeFrames .. top - 1
  BY DEF Outside
<1> HIDE DEF top
<1> QED
  BY <1>1, <1>2, <1>3, TableSize DEF CallsOutside

LEMMA TlbKept ==
  ASSUME VmmInv, NEW v \in Outside,
         \A w \in Outside : w # v => translate(mem', w) = translate(mem, w),
         invlpg(v) \/ (tlb' = tlb /\ translate(mem', v) = translate(mem, v))
  PROVE  TlbOK'
<1>1. SUFFICES ASSUME NEW c \in tlb' PROVE c[1] \in Virts /\ translate(mem', c[1]) = c[2]
  BY DEF TlbOK
<1>2. c \in tlb /\ (c[1] # v \/ translate(mem', v) = translate(mem, v))
  BY DEF invlpg
<1>3. c[1] \in Virts /\ c[1] \in Outside /\ translate(mem, c[1]) = c[2]
  BY <1>2, VirtsOutside DEF VmmInv, TlbOK
<1> QED
  BY <1>2, <1>3

LEMMA InitInv == CallsOutside /\ Init => VmmInv
  BY BootTree DEF Init, VmmInv, TlbOK, IdentOK

\* A call of map_page, by itself or as a step of identity_map.
LEMMA MapPageInv ==
  ASSUME VmmInv, NEW v \in Virts, NEW p \in Nat, NEW f \in CallFlags, MapPage(v, p, f)
  PROVE  IsTree(mem', NEXT_PAGE_ADDR') /\ TlbOK'
<1>1. v \in Outside /\ IsTree(mem, NEXT_PAGE_ADDR)
  BY VirtsOutside DEF VmmInv
<1>2. /\ IsTree(mem', NEXT_PAGE_ADDR')
      /\ \A w \in Outside : w # v => translate(mem', w) = translate(mem, w)
      /\ invlpg(v) \/ (tlb' = tlb /\ translate(mem', v) = translate(mem, v))
  BY <1>1, MapPageFacts
<1> QED
  BY <1>1, <1>2, TlbKept

LEMMA CallTypes ==
  /\ \A v \in Virts : v \in Nat
  /\ \A p \in Physes : p \in Nat
<1> DEFINE top == PAGE_ENTRIES * PAGE_ENTRIES * PAGE_ENTRIES * PAGE_ENTRIES
<1>1. top \in Nat
  BY TableSize
<1>2. Virts \subseteq 0 .. top - 1 /\ Physes \subseteq Nat
  BY VmmConstants
<1> HIDE DEF top
<1> QED
  BY <1>1, <1>2

LEMMA IdentityMapInv ==
  ASSUME VmmInv, NEW r \in Ranges, NEW f \in CallFlags, identity_map(r, f)
  PROVE  VmmInv'
<1>1. r[1] \in Nat /\ r[2] \in Nat /\ r[1] < r[2] /\ \A a \in r[1] .. r[2] - 1 : a \in Virts
  BY VmmConstants DEF identity_map
<1>2. ident' = [addr |-> r[1], end |-> r[2], flags |-> f]
  BY DEF identity_map
<1>3. ident'.addr = r[1] /\ ident'.end = r[2] /\ ident'.flags = f
  BY <1>2
<1>4. IdentOK'
  BY <1>1, <1>2, <1>3 DEF IdentOK
<1>5. mem' = mem /\ NEXT_PAGE_ADDR' = NEXT_PAGE_ADDR /\ tlb' = tlb
  BY DEF identity_map
<1> QED
  BY <1>4, <1>5 DEF VmmInv, TlbOK, CallsOutside

LEMMA IdentityMapPageInv ==
  ASSUME VmmInv, identity_map_page
  PROVE  VmmInv' /\ ident.addr \in Virts /\ ident.flags \in CallFlags
<1>1. /\ ident.addr \in Nat /\ ident.end \in Nat /\ ident.flags \in CallFlags
      /\ ident = [addr |-> ident.addr, end |-> ident.end, flags |-> ident.flags]
      /\ ident.addr < ident.end
      /\ \A a \in ident.addr .. ident.end - 1 : a \in Virts
  BY DEF VmmInv, IdentOK, identity_map_page
<1>2. ident.addr \in Virts
  <2>1. ident.addr \in ident.addr .. ident.end - 1
    BY <1>1
  <2> QED
    BY <1>1, <2>1
<1>3. MapPage(ident.addr, ident.addr, ident.flags)
  BY DEF identity_map_page
<1>4. IsTree(mem', NEXT_PAGE_ADDR') /\ TlbOK'
  BY <1>1, <1>2, <1>3, MapPageInv
<1>5. IdentOK'
  <2>1. CASE ident' = NoCall
    BY <2>1 DEF IdentOK
  <2>2. CASE ident' # NoCall
    <3>1. ident.addr + 1 < ident.end /\ ident' = [ident EXCEPT !.addr = @ + 1]
      BY <2>2 DEF identity_map_page
    <3>2. ident' = [addr |-> ident.addr + 1, end |-> ident.end, flags |-> ident.flags]
      BY <1>1, <3>1
    <3>3. ident'.addr = ident.addr + 1 /\ ident'.end = ident.end /\ ident'.flags = ident.flags
      BY <3>2
    <3>4. \A a \in ident.addr + 1 .. ident.end - 1 : a \in ident.addr .. ident.end - 1
      BY <1>1
    <3> QED
      BY <1>1, <3>1, <3>2, <3>3, <3>4 DEF IdentOK
  <2> QED
    BY <2>1, <2>2
<1> QED
  BY <1>1, <1>2, <1>4, <1>5 DEF VmmInv, CallsOutside

LEMMA NextInv == VmmInv /\ [Next]_vars => VmmInv'
<1> SUFFICES ASSUME VmmInv, [Next]_vars PROVE VmmInv'
  OBVIOUS
<1>1. CallsOutside' /\ Virts \subseteq Outside /\ IsTree(mem, NEXT_PAGE_ADDR)
  BY VirtsOutside DEF VmmInv, CallsOutside
<1>2. ASSUME NEW v \in Virts, NEW p \in Physes, NEW f \in CallFlags, map_page(v, p, f)
      PROVE  VmmInv'
  <2>1. MapPage(v, p, f) /\ ident' = ident
    BY <1>2 DEF map_page
  <2>2. IsTree(mem', NEXT_PAGE_ADDR') /\ TlbOK'
    BY <2>1, CallTypes, MapPageInv
  <2>3. IdentOK'
    BY <2>1 DEF VmmInv, IdentOK
  <2> QED
    BY <1>1, <2>2, <2>3 DEF VmmInv
<1>3. ASSUME NEW v \in Virts, unmap_page(v) PROVE VmmInv'
  <2>1. /\ IsTree(mem', NEXT_PAGE_ADDR')
        /\ \A w \in Outside : w # v => translate(mem', w) = translate(mem, w)
        /\ invlpg(v) \/ (tlb' = tlb /\ translate(mem', v) = translate(mem, v))
    BY <1>1, <1>3, UnmapFacts
  <2>2. TlbOK'
    BY <1>1, <2>1, TlbKept
  <2>3. IdentOK'
    BY <1>3 DEF VmmInv, IdentOK, unmap_page
  <2> QED
    BY <1>1, <2>1, <2>2, <2>3 DEF VmmInv
<1>4. ASSUME NEW v \in Virts, NEW f \in CallFlags, update_flags(v, f) PROVE VmmInv'
  <2>1. /\ IsTree(mem', NEXT_PAGE_ADDR')
        /\ \A w \in Outside : w # v => translate(mem', w) = translate(mem, w)
        /\ invlpg(v) \/ (tlb' = tlb /\ translate(mem', v) = translate(mem, v))
    BY <1>1, <1>4, UpdateFlagsFacts
  <2>2. TlbOK'
    BY <1>1, <2>1, TlbKept
  <2>3. IdentOK'
    BY <1>4 DEF VmmInv, IdentOK, update_flags
  <2> QED
    BY <1>1, <2>1, <2>2, <2>3 DEF VmmInv
<1>5. ASSUME NEW v \in Virts, Access(v) PROVE VmmInv'
  <2>1. /\ mem' = mem /\ NEXT_PAGE_ADDR' = NEXT_PAGE_ADDR /\ ident' = ident
        /\ tlb' = tlb \cup {<<v, translate(mem, v)>>}
    BY <1>5 DEF Access
  <2>2. TlbOK'
    BY <2>1 DEF VmmInv, TlbOK
  <2>3. IdentOK'
    BY <2>1 DEF VmmInv, IdentOK
  <2> QED
    BY <1>1, <2>1, <2>2, <2>3 DEF VmmInv
<1>6. ASSUME NEW r \in Ranges, NEW f \in CallFlags, identity_map(r, f) PROVE VmmInv'
  BY <1>6, IdentityMapInv
<1>7. CASE identity_map_page
  BY <1>7, IdentityMapPageInv
<1>8. CASE UNCHANGED vars
  BY <1>8 DEF vars, VmmInv, CallsOutside, TlbOK, IdentOK
<1> QED
  BY <1>2, <1>3, <1>4, <1>5, <1>6, <1>7, <1>8 DEF Next

LEMMA VmmInvariant == CallsOutside /\ Spec => []VmmInv
  BY InitInv, NextInv, PTL DEF Spec

\* What the processor has cached is what the tables say, for every table
\* size, pool and set of calls outside the boot mapping: each call of vmm.rs
\* flushes the one page whose translation it changes, and the tables it adds
\* change no translation.
THEOREM TlbIsCoherent == CallsOutside /\ Spec => []TlbCoherent
<1>1. VmmInv => TlbCoherent
  BY DEF VmmInv, TlbOK, TlbCoherent
<1> QED
  BY <1>1, VmmInvariant, PTL

LEMMA BootWalk ==
  ASSUME NEW m, NEW n, IsTree(m, n), NEW v \in 0 .. HugeFrames - 1
  PROVE  translate(m, v).phys = v
<1> DEFINE P == PAGE_ENTRIES
<1>1. PICK lev, up, at : Tree(m, n, lev, up, at)
  BY DEF IsTree
<1>2. P \in Nat \ {0} /\ P > 1 /\ v \in Nat /\ v < P * P
  <2>1. v \in Nat /\ v < HugeFrames
    BY TableSize
  <2> QED
    BY <2>1, TableSize DEF HugeFrames
<1>3. Up(v) \in Nat /\ Up(v) < P /\ pd_index(v) = Up(v)
  BY <1>2, DivLess, ModSmall, IndexTypes, Zenon DEF Up, pd_index
<1>4. pdpt_index(v) = 0 /\ pml4_index(v) = 0
  <2>1. Up(v) < 1 * P
    BY <1>2, <1>3
  <2>2. Up(Up(v)) \in Nat /\ Up(Up(v)) < 1
    BY <1>2, <1>3, <2>1, DivLess, IndexTypes DEF Up
  <2>3. Up(Up(v)) = 0
    BY <2>2
  <2>4. Up(0) = 0 /\ 0 % P = 0
    <3>1. 0 = (0 \div P) * P + (0 % P) /\ 0 \div P \in Nat /\ 0 % P \in 0 .. P - 1
      BY <1>2, DivMod
    <3>2. 0 < 1 * P
      BY <1>2
    <3>3. 0 \div P < 1
      BY <1>2, <3>2, DivLess
    <3> QED
      BY <1>2, <3>1, <3>3 DEF Up
  <2> QED
    BY <2>3, <2>4 DEF pdpt_index, pml4_index
<1>5. v = Up(v) * P + (v % P)
  BY <1>2, DivMod DEF Up
<1>6. /\ m[p4_table][0] = Entry(p3_table, TableFlags)
      /\ m[p3_table][0] = Entry(p2_table, TableFlags)
  <2>1. /\ lev[p3_table] = 3 /\ up[p3_table] = p4_table /\ at[p3_table] = 0
        /\ lev[p2_table] = 2 /\ up[p2_table] = p3_table /\ at[p2_table] = 0
        /\ p3_table \in Frames /\ p2_table \in Frames
    BY <1>1, FrameFacts DEF Tree, Levels
  <2>2. Hung(m, lev, up, at, p3_table) /\ Hung(m, lev, up, at, p2_table)
    BY <1>1, <2>1 DEF Tree
  <2> QED
    BY <2>1, <2>2 DEF Hung
<1>7. m[p2_table][Up(v)] = Entry(Up(v) * P, TableFlags \cup {"HUGE_PAGE"})
  BY <1>1, <1>3, IndexTypes, <1>2, Zenon DEF Tree, Entries
<1>8. pdpt_addr(m, v) = p3_table /\ pd_addr(m, v) = p2_table
  BY <1>4, <1>6 DEF pdpt_addr, pd_addr, Entry
<1>9. /\ is_present(m, p4_table, 0) /\ is_present(m, p3_table, 0) /\ ~ is_huge(m, p3_table, 0)
      /\ is_huge(m, p2_table, Up(v)) /\ m[p2_table][Up(v)].addr = Up(v) * P
  BY <1>6, <1>7, FlagFacts DEF is_present, is_huge, Entry
<1>10. translate(m, v) = check_huge_page(m, p2_table, Up(v), v % P)
  BY <1>3, <1>4, <1>8, <1>9 DEF translate
<1> QED
  BY <1>5, <1>9, <1>10 DEF check_huge_page

\* The identity map of boot.asm that the kernel runs on survives every call
\* outside it.
THEOREM BootMapSurvives == CallsOutside /\ Spec => []BootMapIntact
<1>1. VmmInv => BootMapIntact
  BY BootWalk DEF VmmInv, BootMapIntact
<1> QED
  BY <1>1, VmmInvariant, PTL

-----------------------------------------------------------------------------
(* The links of the tree *)

\* The present entries that point to a table, level by level.
LinksOf(m, lev, k) ==
  {e \in Frames \X Entries : lev[e[1]] = k /\ e[1] # p2_table /\ is_present(m, e[1], e[2])}

LEMMA LinkPair ==
  ASSUME NEW m, NEW lev, NEW k, NEW e \in LinksOf(m, lev, k)
  PROVE  /\ e[1] \in Frames /\ e[2] \in Entries /\ e = <<e[1], e[2]>>
         /\ lev[e[1]] = k /\ e[1] # p2_table /\ is_present(m, e[1], e[2])
  BY DEF LinksOf

LEMMA LinkIsChild ==
  ASSUME NEW m, NEW n, NEW lev, NEW up, NEW at, Tree(m, n, lev, up, at),
         NEW k \in 2 .. 4, NEW e \in LinksOf(m, lev, k)
  PROVE  /\ m[e[1]][e[2]].addr \in Frames /\ lev[m[e[1]][e[2]].addr] = k - 1
         /\ up[m[e[1]][e[2]].addr] = e[1] /\ at[m[e[1]][e[2]].addr] = e[2]
         /\ ~ is_huge(m, e[1], e[2])
<1>1. /\ e[1] \in Frames /\ e[2] \in Entries
      /\ lev[e[1]] = k /\ e[1] # p2_table /\ is_present(m, e[1], e[2])
  BY LinkPair
<1> QED
  BY <1>1, ChildFacts

LEMMA ChildIsLink ==
  ASSUME NEW m, NEW n, NEW lev, NEW up, NEW at, Tree(m, n, lev, up, at),
         NEW f \in Frames, lev[f] \in 1 .. 3
  PROVE  /\ <<up[f], at[f]>> \in LinksOf(m, lev, lev[f] + 1)
         /\ m[up[f]][at[f]].addr = f
<1>1. Hung(m, lev, up, at, f) /\ up[f] \in Frames /\ at[f] \in Entries
  BY DEF Tree, Levels
<1>2. m[up[f]][at[f]].addr = f /\ is_present(m, up[f], at[f])
  BY <1>1, FlagFacts DEF Hung, Entry, is_present
<1> QED
  BY <1>1, <1>2 DEF Hung, LinksOf

\* One level of TableLinks, from the tables that the level above links.
LEMMA NextLevel ==
  ASSUME NEW m, NEW n, NEW lev, NEW up, NEW at, Tree(m, n, lev, up, at), NEW k \in {3, 4}
  PROVE  UNION {{d \in {m[e[1]][e[2]].addr} \X Entries :
                   is_present(m, m[e[1]][e[2]].addr, d[2]) /\ ~ is_huge(m, m[e[1]][e[2]].addr, d[2])}
                : e \in LinksOf(m, lev, k)}
           = LinksOf(m, lev, k - 1)
<1> DEFINE from(t) == {d \in {t} \X Entries : is_present(m, t, d[2]) /\ ~ is_huge(m, t, d[2])}
           below == UNION {from(m[e[1]][e[2]].addr) : e \in LinksOf(m, lev, k)}
<1>0. k \in 2 .. 4 /\ k - 1 \in 2 .. 3 /\ k - 1 \in 2 .. 4 /\ k - 1 \in 1 .. 3 /\ (k - 1) + 1 = k
  OBVIOUS
<1>a. \A e \in LinksOf(m, lev, k) : m[e[1]][e[2]].addr \in Frames /\ lev[m[e[1]][e[2]].addr] = k - 1
  <2> SUFFICES ASSUME NEW e \in LinksOf(m, lev, k)
               PROVE  m[e[1]][e[2]].addr \in Frames /\ lev[m[e[1]][e[2]].addr] = k - 1
    OBVIOUS
  <2>1. /\ e[1] \in Frames /\ e[2] \in Entries
        /\ lev[e[1]] = k /\ e[1] # p2_table /\ is_present(m, e[1], e[2])
    BY LinkPair
  <2> QED
    BY <1>0, <2>1, ChildFacts
<1>b. \A e \in LinksOf(m, lev, k - 1) : ~ is_huge(m, e[1], e[2])
  BY <1>0, LinkIsChild, Zenon
<1>1. ASSUME NEW e \in LinksOf(m, lev, k), NEW d \in from(m[e[1]][e[2]].addr)
      PROVE  d \in LinksOf(m, lev, k - 1)
  <2> DEFINE t == m[e[1]][e[2]].addr
  <2>1. t \in Frames /\ lev[t] = k - 1
    BY <1>a, <1>1, Zenon
  <2>2. d[1] = t /\ d[2] \in Entries /\ d = <<d[1], d[2]>> /\ is_present(m, t, d[2]) /\ ~ is_huge(m, t, d[2])
    OBVIOUS
  <2>3. t # p2_table
    <3>1. m[p2_table][d[2]] = Entry(d[2] * PAGE_ENTRIES, TableFlags \cup {"HUGE_PAGE"})
      BY <2>2 DEF Tree
    <3>2. m[p2_table][d[2]].flags = TableFlags \cup {"HUGE_PAGE"}
      BY <3>1 DEF Entry
    <3>3. is_huge(m, p2_table, d[2])
      BY <3>2, FlagFacts, Zenon DEF is_huge
    <3> QED
      BY <2>2, <3>3, ZenonT(30)
  <2> HIDE DEF t
  <2>4. d \in Frames \X Entries
    BY <2>1, <2>2
  <2> QED
    BY <2>1, <2>2, <2>3, <2>4 DEF LinksOf
<1>2. ASSUME NEW d \in LinksOf(m, lev, k - 1) PROVE d \in below
  <2>1. /\ d[1] \in Frames /\ d[2] \in Entries /\ d = <<d[1], d[2]>> /\ ~ is_huge(m, d[1], d[2])
    BY <1>b, <1>2, LinkPair
  <2>2. lev[d[1]] = k - 1 /\ is_present(m, d[1], d[2])
    BY <1>2 DEF LinksOf
  <2>3. /\ <<up[d[1]], at[d[1]]>> \in LinksOf(m, lev, k)
        /\ m[up[d[1]]][at[d[1]]].addr = d[1]
    BY <1>0, <2>1, <2>2, ChildIsLink
  <2>4. d \in from(d[1])
    BY <2>1, <2>2
  <2> QED
    BY <2>3, <2>4
<1>3. below = LinksOf(m, lev, k - 1)
  BY <1>1, <1>2
<1> QED
  BY <1>3

LEMMA LinksAreChildren ==
  ASSUME NEW lev, NEW up, NEW at, Tree(mem, NEXT_PAGE_ADDR, lev, up, at)
  PROVE  TableLinks = LinksOf(mem, lev, 4) \cup LinksOf(mem, lev, 3) \cup LinksOf(mem, lev, 2)
<1> DEFINE from(t) == {e \in {t} \X Entries : is_present(mem, t, e[2]) /\ ~ is_huge(mem, t, e[2])}
           next(L) == UNION {from(mem[e[1]][e[2]].addr) : e \in L}
<1>1. TableLinks = from(p4_table) \cup next(from(p4_table)) \cup next(next(from(p4_table)))
  BY DEF TableLinks
<1>2. from(p4_table) = LinksOf(mem, lev, 4)
  <2>0. \A e \in LinksOf(mem, lev, 4) : ~ is_huge(mem, e[1], e[2])
    <3>1. 4 \in 2 .. 4
      OBVIOUS
    <3> QED
      BY <3>1, LinkIsChild, Zenon
  <2>1. \A f \in Frames : lev[f] = 4 <=> f = p4_table
    BY DEF Tree, Levels
  <2>2. p4_table \in Frames /\ p4_table # p2_table
    BY FrameFacts
  <2>3. ASSUME NEW e \in LinksOf(mem, lev, 4) PROVE e \in from(p4_table)
    <3>1. e[1] \in Frames /\ e[2] \in Entries /\ e = <<e[1], e[2]>> /\ ~ is_huge(mem, e[1], e[2])
      BY <2>0, <2>3, LinkPair
    <3>2. e[1] = p4_table /\ is_present(mem, e[1], e[2])
      BY <2>1, <2>3 DEF LinksOf
    <3> QED
      BY <3>1, <3>2
  <2>4. ASSUME NEW e \in from(p4_table) PROVE e \in LinksOf(mem, lev, 4)
    BY <2>1, <2>2, <2>4 DEF LinksOf
  <2> QED
    BY <2>3, <2>4
<1>3. next(LinksOf(mem, lev, 4)) = LinksOf(mem, lev, 3)
  <2>1. 4 \in {3, 4} /\ 4 - 1 = 3
    BY SMTT(30)
  <2>2. next(LinksOf(mem, lev, 4)) = LinksOf(mem, lev, 4 - 1)
    BY <2>1, NextLevel
  <2> QED
    BY <2>1, <2>2
<1>4. next(LinksOf(mem, lev, 3)) = LinksOf(mem, lev, 2)
  <2>1. 3 \in {3, 4} /\ 3 - 1 = 2
    BY SMTT(30)
  <2>2. next(LinksOf(mem, lev, 3)) = LinksOf(mem, lev, 3 - 1)
    BY <2>1, NextLevel
  <2> QED
    BY <2>1, <2>2
<1> HIDE DEF next, from
<1> QED
  BY <1>1, <1>2, <1>3, <1>4, SMTT(30)

\* Each table but the root is linked from one entry, and the links are those
\* of the tables handed out.
LEMMA TreeIsATree == IsTree(mem, NEXT_PAGE_ADDR) => TablesAreATree
<1> SUFFICES ASSUME IsTree(mem, NEXT_PAGE_ADDR) PROVE TablesAreATree
  OBVIOUS
<1>1. PICK lev, up, at : Tree(mem, NEXT_PAGE_ADDR, lev, up, at)
  BY DEF IsTree
<1> DEFINE n == NEXT_PAGE_ADDR
           Kids == p3_table .. n - 1
<1>2. n \in Nat /\ n >= VMM_PAGES_BASE /\ n <= VMM_PAGES_END
  BY <1>1, FrameFacts DEF Tree, Levels
<1>3. \A f : f \in Kids <=> f \in Frames /\ lev[f] \in 1 .. 3
  <2>1. \A f : f \in Kids <=> f \in Frames /\ p4_table <= f /\ f < n /\ f # p4_table
    BY <1>2, FrameFacts
  <2>2. \A f \in Frames : lev[f] \in 1 .. 3 <=> lev[f] # 0 /\ lev[f] # 4
    BY <1>1 DEF Tree, Levels
  <2>3. \A f \in Frames : /\ lev[f] # 0 <=> p4_table <= f /\ f < n
                          /\ lev[f] = 4 <=> f = p4_table
    BY <1>1 DEF Tree, Levels
  <2> HIDE DEF n, Kids
  <2> QED
    BY <2>1, <2>2, <2>3, Zenon
<1>4. Kids = {p3_table, p2_table} \cup (VMM_PAGES_BASE .. n - 1)
  BY <1>2, FrameFacts
<1>5. TableLinks = LinksOf(mem, lev, 4) \cup LinksOf(mem, lev, 3) \cup LinksOf(mem, lev, 2)
  BY <1>1, LinksAreChildren
<1> HIDE DEF Kids, n
<1>6. ASSUME NEW f \in Kids
      PROVE  <<up[f], at[f]>> \in TableLinks /\ mem[up[f]][at[f]].addr = f
  <2>1. f \in Frames /\ lev[f] \in 1 .. 3
    BY <1>3, <1>6
  <2>2. <<up[f], at[f]>> \in LinksOf(mem, lev, lev[f] + 1) /\ mem[up[f]][at[f]].addr = f
    BY <1>1, <2>1, ChildIsLink
  <2>3. lev[f] + 1 \in {2, 3, 4}
    BY <2>1
  <2> QED
    BY <1>5, <2>2, <2>3
<1>7. ASSUME NEW e \in TableLinks
      PROVE  LET a == mem[e[1]][e[2]].addr IN a \in Kids /\ e = <<up[a], at[a]>>
  <2> DEFINE a == mem[e[1]][e[2]].addr
  <2>1. PICK k \in {2, 3, 4} : e \in LinksOf(mem, lev, k)
    BY <1>5
  <2>2. /\ e[1] \in Frames /\ e[2] \in Entries /\ e = <<e[1], e[2]>>
        /\ lev[e[1]] = k /\ e[1] # p2_table /\ is_present(mem, e[1], e[2])
    BY <2>1, LinkPair
  <2>3. k \in 2 .. 4 /\ k - 1 \in 1 .. 3
    OBVIOUS
  <2>4. a \in Frames /\ lev[a] = k - 1 /\ up[a] = e[1] /\ at[a] = e[2]
    BY <1>1, <2>2, <2>3, ChildFacts
  <2> HIDE DEF a
  <2>5. a \in Kids
    BY <1>3, <2>3, <2>4
  <2>6. e = <<up[a], at[a]>>
    BY <2>2, <2>4
  <2> QED
    BY <2>5, <2>6 DEF a
<1>8. {mem[e[1]][e[2]].addr : e \in TableLinks} = Kids
  <2>1. ASSUME NEW f \in Kids PROVE \E e \in TableLinks : f = mem[e[1]][e[2]].addr
    <3>1. <<up[f], at[f]>>[1] = up[f] /\ <<up[f], at[f]>>[2] = at[f]
      OBVIOUS
    <3> QED
      BY <1>6, <3>1, Zenon
  <2> QED
    BY <1>7, <2>1
<1>9. \A d, e \in TableLinks : mem[d[1]][d[2]].addr = mem[e[1]][e[2]].addr => d = e
  BY <1>7
<1> QED
  BY <1>4, <1>8, <1>9 DEF TablesAreATree, n

\* The page tables form a tree whatever calls were made, those that ran out
\* of pool frames half way included: every frame alloc_page_table handed out
\* is linked from exactly one entry, and nothing else is.
THEOREM TablesFormATree == CallsOutside /\ Spec => []TablesAreATree
<1>1. VmmInv => TablesAreATree
  BY TreeIsATree DEF VmmInv
<1> QED
  BY <1>1, VmmInvariant, PTL

-----------------------------------------------------------------------------
(* The calls implement one map from pages to mappings *)

PageMap == [v \in Virts |-> IF "PRESENT" \in translate(mem, v).flags
                            THEN translate(mem, v) ELSE Unmapped]

LEMMA PageMapIsTranslate ==
  ASSUME CallsOutside, IsTree(mem, NEXT_PAGE_ADDR), NEW v \in Virts
  PROVE  PageMap[v] = translate(mem, v)
<1>1. v \in Outside
  BY VirtsOutside
<1>2. /\ PageMapped(mem, v) <=> translate(mem, v) # Unmapped
      /\ PageMapped(mem, v) <=> "PRESENT" \in translate(mem, v).flags
  BY <1>1, MappedTranslate
<1> QED
  BY <1>2 DEF PageMap

LEMMA PageMapInit == CallsOutside /\ Init => PageMap = [v \in Virts |-> Unmapped]
<1> SUFFICES ASSUME CallsOutside, Init PROVE PageMap = [v \in Virts |-> Unmapped]
  OBVIOUS
<1>1. IsTree(mem, NEXT_PAGE_ADDR) /\ mem = setup_page_tables
  BY BootTree DEF Init
<1>2. ASSUME NEW v \in Virts PROVE PageMap[v] = Unmapped
  <2>1. v \in Outside
    BY VirtsOutside
  <2>2. ~ PageMapped(mem, v)
    <3> SUFFICES ASSUME TablesPresent(mem, v) PROVE FALSE
      BY DEF PageMapped
    <3>1. PICK lev, up, at : Tree(mem, NEXT_PAGE_ADDR, lev, up, at)
      BY <1>1 DEF IsTree
    <3>2. pt_addr(mem, v) \in Frames /\ lev[pt_addr(mem, v)] = 1
      BY <2>1, <3>1, PathFacts
    <3>3. NEXT_PAGE_ADDR = VMM_PAGES_BASE
      BY DEF Init
    <3>4. \A f \in Frames : lev[f] # 0 => f \in {p4_table, p3_table, p2_table}
      BY <3>1, <3>3, FrameFacts DEF Tree, Levels
    <3>5. lev[p4_table] = 4 /\ lev[p3_table] = 3 /\ lev[p2_table] = 2
      BY <3>1, FrameFacts DEF Tree, Levels
    <3> QED
      BY <3>2, <3>4, <3>5
  <2>3. translate(mem, v) = Unmapped
    BY <1>1, <2>1, <2>2, MappedTranslate
  <2> QED
    BY <1>1, <2>3, PageMapIsTranslate
<1> QED
  BY <1>2 DEF PageMap

\* A step that changes at most the mapping of page v.
LEMMA PageMapStep ==
  ASSUME VmmInv, VmmInv', NEW v \in Virts,
         \A w \in Outside : w # v => translate(mem', w) = translate(mem, w)
  PROVE  /\ PageMap[v] = translate(mem, v)
         /\ PageMap' = [PageMap EXCEPT ![v] = translate(mem', v)]
<1>1. Virts \subseteq Outside /\ CallsOutside /\ IsTree(mem, NEXT_PAGE_ADDR)
  BY VirtsOutside DEF VmmInv
<1>2. ASSUME NEW w \in Virts PROVE PageMap[w] = translate(mem, w)
  BY <1>1, PageMapIsTranslate
<1>3. ASSUME NEW w \in Virts PROVE PageMap'[w] = translate(mem', w)
  <2>1. IsTree(mem', NEXT_PAGE_ADDR') /\ w \in Outside
    BY <1>1 DEF VmmInv
  <2>2. /\ PageMapped(mem', w) <=> translate(mem', w) # Unmapped
        /\ PageMapped(mem', w) <=> "PRESENT" \in translate(mem', w).flags
    BY <2>1, MappedTranslate
  <2> QED
    BY <2>2 DEF PageMap
<1>4. ASSUME NEW w \in Virts, w # v PROVE PageMap'[w] = PageMap[w]
  BY <1>1, <1>2, <1>3, <1>4
<1>5. DOMAIN PageMap = Virts /\ DOMAIN PageMap' = Virts
  BY DEF PageMap
<1>6. PageMap = [w \in Virts |-> PageMap[w]] /\ PageMap' = [w \in Virts |-> PageMap'[w]]
  BY DEF PageMap
<1> QED
  BY <1>2, <1>3, <1>4, <1>5, <1>6

LEMMA PageMapSame ==
  ASSUME mem' = mem
  PROVE  PageMap' = PageMap
  BY DEF PageMap

\* map_page, by itself or as a step of identity_map, is Map.
LEMMA MapIsMap ==
  ASSUME VmmInv, VmmInv', NEW v \in Virts, NEW p \in Physes \cup Virts, NEW f \in CallFlags,
         MapPage(v, p, f)
  PROVE  Pages!Map(v, p, f)
<1>1. v \in Outside /\ IsTree(mem, NEXT_PAGE_ADDR) /\ p \in Nat
  BY VirtsOutside, CallTypes DEF VmmInv
<1>2. /\ \A w \in Outside : w # v => translate(mem', w) = translate(mem, w)
      /\ \/ /\ reply' = "PageAlreadyMapped" /\ translate(mem, v) # Unmapped
            /\ translate(mem', v) = translate(mem, v)
         \/ /\ reply' = "OutOfMemory" /\ translate(mem, v) = Unmapped
            /\ translate(mem', v) = translate(mem, v)
         \/ /\ reply' = "Ok" /\ translate(mem, v) = Unmapped
            /\ translate(mem', v) = Mapped(p, f)
  BY <1>1, MapPageFacts
<1>3. /\ PageMap[v] = translate(mem, v)
      /\ PageMap' = [PageMap EXCEPT ![v] = translate(mem', v)]
  BY <1>2, PageMapStep
<1>4. translate(mem', v) = translate(mem, v) => PageMap' = PageMap
  BY <1>3, Zenon DEF PageMap
<1>5. Pages!Mapping(p, f) = Mapped(p, f)
  BY DEF Pages!Mapping, Mapped
<1>6. \/ /\ reply' = "PageAlreadyMapped" /\ PageMap[v] # Unmapped /\ PageMap' = PageMap
      \/ /\ reply' = "OutOfMemory" /\ PageMap[v] = Unmapped /\ PageMap' = PageMap
      \/ /\ reply' = "Ok" /\ PageMap[v] = Unmapped
         /\ PageMap' = [PageMap EXCEPT ![v] = Pages!Mapping(p, f)]
  BY <1>2, <1>3, <1>4, <1>5, Zenon
<1> QED
  BY <1>6 DEF Pages!Map, PageMap

LEMMA UnmapIsUnmap ==
  ASSUME VmmInv, VmmInv', NEW v \in Virts, unmap_page(v)
  PROVE  Pages!Unmap(v)
<1>1. v \in Outside /\ IsTree(mem, NEXT_PAGE_ADDR)
  BY VirtsOutside DEF VmmInv
<1>2. /\ \A w \in Outside : w # v => translate(mem', w) = translate(mem, w)
      /\ \/ /\ reply' = "PageNotMapped" /\ translate(mem, v) = Unmapped /\ mem' = mem
         \/ /\ reply' = "Ok" /\ translate(mem, v) # Unmapped
            /\ translate(mem', v) = Unmapped
  BY <1>1, UnmapFacts
<1>3. /\ PageMap[v] = translate(mem, v)
      /\ PageMap' = [PageMap EXCEPT ![v] = translate(mem', v)]
  BY <1>2, PageMapStep
<1>4. \/ /\ reply' = "PageNotMapped" /\ PageMap[v] = Unmapped /\ PageMap' = PageMap
      \/ /\ reply' = "Ok" /\ PageMap[v] # Unmapped
         /\ PageMap' = [PageMap EXCEPT ![v] = Unmapped]
  BY <1>2, <1>3, PageMapSame, Zenon
<1> QED
  BY <1>4 DEF Pages!Unmap, PageMap

LEMMA UpdateIsSetFlags ==
  ASSUME VmmInv, VmmInv', NEW v \in Virts, NEW f \in CallFlags, update_flags(v, f)
  PROVE  Pages!SetFlags(v, f)
<1>1. v \in Outside /\ IsTree(mem, NEXT_PAGE_ADDR)
  BY VirtsOutside DEF VmmInv
<1>2. /\ \A w \in Outside : w # v => translate(mem', w) = translate(mem, w)
      /\ \/ /\ reply' = "PageNotMapped" /\ translate(mem, v) = Unmapped /\ mem' = mem
         \/ /\ reply' = "Ok" /\ translate(mem, v) # Unmapped
            /\ translate(mem', v) = Mapped(translate(mem, v).phys, f)
  BY <1>1, UpdateFlagsFacts
<1>3. /\ PageMap[v] = translate(mem, v)
      /\ PageMap' = [PageMap EXCEPT ![v] = translate(mem', v)]
  BY <1>2, PageMapStep
<1>4. Pages!Mapping(PageMap[v].phys, f) = Mapped(PageMap[v].phys, f)
  BY DEF Pages!Mapping, Mapped
<1>5. \/ /\ reply' = "PageNotMapped" /\ PageMap[v] = Unmapped /\ PageMap' = PageMap
      \/ /\ reply' = "Ok" /\ PageMap[v] # Unmapped
         /\ PageMap' = [PageMap EXCEPT ![v] = Pages!Mapping(PageMap[v].phys, f)]
  BY <1>2, <1>3, <1>4, PageMapSame, Zenon
<1> QED
  BY <1>5 DEF Pages!SetFlags, PageMap

LEMMA RefinementStep ==
  VmmInv /\ VmmInv' /\ [Next]_vars
    => [Pages!Next]_<<[v \in Virts |-> IF "PRESENT" \in translate(mem, v).flags
                                       THEN translate(mem, v) ELSE Unmapped], reply>>
<1> SUFFICES ASSUME VmmInv, VmmInv', [Next]_vars
             PROVE  Pages!Next \/ (PageMap' = PageMap /\ reply' = reply)
  BY DEF PageMap
<1>1. ASSUME NEW v \in Virts, NEW p \in Physes, NEW f \in CallFlags, map_page(v, p, f)
      PROVE  Pages!Next
  <2>1. Pages!Map(v, p, f)
    BY <1>1, MapIsMap DEF map_page
  <2> QED
    BY <2>1 DEF Pages!Next
<1>2. ASSUME NEW v \in Virts, unmap_page(v) PROVE Pages!Next
  BY <1>2, UnmapIsUnmap DEF Pages!Next
<1>3. ASSUME NEW v \in Virts, NEW f \in CallFlags, update_flags(v, f) PROVE Pages!Next
  BY <1>3, UpdateIsSetFlags DEF Pages!Next
<1>4. ASSUME NEW v \in Virts, Access(v) PROVE PageMap' = PageMap /\ reply' = reply
  BY <1>4, PageMapSame DEF Access
<1>5. ASSUME NEW r \in Ranges, NEW f \in CallFlags, identity_map(r, f)
      PROVE  PageMap' = PageMap /\ reply' = reply
  BY <1>5, PageMapSame DEF identity_map
<1>6. CASE identity_map_page
  <2>1. ident.addr \in Virts /\ ident.flags \in CallFlags
    BY <1>6, IdentityMapPageInv
  <2>2. Pages!Map(ident.addr, ident.addr, ident.flags)
    BY <1>6, <2>1, MapIsMap DEF identity_map_page
  <2> QED
    BY <2>1, <2>2 DEF Pages!Next
<1>7. CASE UNCHANGED vars
  BY <1>7, PageMapSame DEF vars
<1> QED
  BY <1>1, <1>2, <1>3, <1>4, <1>5, <1>6, <1>7 DEF Next

\* The calls of vmm.rs implement one map from pages to mappings, for every
\* table size and pool: each call changes the mapping of the page it names
\* and of no other, a failed one changes none, and translate reports it.
THEOREM ImplementsAddressSpace == CallsOutside /\ Spec => Refinement
<1>1. CallsOutside /\ Init => Pages!Init
  BY PageMapInit DEF Init, Pages!Init, PageMap
<1> QED
  BY <1>1, RefinementStep, VmmInvariant, PTL DEF Spec, Refinement, Pages!Spec
=============================================================================
