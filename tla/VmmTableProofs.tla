--------------------------- MODULE VmmTableProofs ---------------------------
(***************************************************************************)
(* Lemmas about the page tables of Vmm: what the indices of a page are,    *)
(* what a tree of tables is, and what alloc_page_table leaves of it.       *)
(*                                                                         *)
(* A tree gives every table a level and one parent entry, and an entry of  *)
(* a table above level 1 links its child or is not present.  Level and     *)
(* parent are functions the code does not keep; IsTree says that they      *)
(* exist.                                                                  *)
(***************************************************************************)
EXTENDS Vmm, TLAPS

-----------------------------------------------------------------------------
(* Page numbers and their four indices *)

LEMMA DivMod ==
  ASSUME NEW P \in Nat \ {0}, NEW a \in Nat
  PROVE  a = (a \div P) * P + (a % P) /\ a \div P \in Nat /\ a % P \in 0 .. P - 1
  BY SMT

LEMMA DivLess ==
  ASSUME NEW P \in Nat \ {0}, NEW a \in Nat, NEW m \in Nat, a < m * P
  PROVE  a \div P < m
  BY SMT

LEMMA ModSmall ==
  ASSUME NEW P \in Nat \ {0}, NEW a \in Nat, a < P
  PROVE  a % P = a
  BY SMT

\* A number is determined by its quotient and its remainder.
LEMMA DivModUnique ==
  ASSUME NEW P \in Nat \ {0}, NEW a \in Nat, NEW b \in Nat,
         a \div P = b \div P, a % P = b % P
  PROVE  a = b
<1>1. a = (a \div P) * P + (a % P) /\ b = (b \div P) * P + (b % P)
  BY DivMod
<1> QED
  BY <1>1

\* The pages of the address space that boot.asm does not map.
Outside == HugeFrames .. PAGE_ENTRIES * PAGE_ENTRIES * PAGE_ENTRIES * PAGE_ENTRIES - 1

LEMMA TableSize == PAGE_ENTRIES \in Nat \ {0} /\ PAGE_ENTRIES > 1 /\ HugeFrames \in Nat /\ HugeFrames > 0
<1>1. PAGE_ENTRIES \in Nat \ {0} /\ PAGE_ENTRIES > 1
  BY VmmConstants
<1>2. ASSUME NEW P \in Nat \ {0} PROVE P * P \in Nat /\ P * P > 0
  BY <1>2
<1> QED
  BY <1>1, <1>2 DEF HugeFrames

LEMMA IndexTypes ==
  ASSUME NEW v \in Nat
  PROVE  /\ Up(v) \in Nat /\ Up(Up(v)) \in Nat /\ Up(Up(Up(v))) \in Nat
         /\ pt_index(v) \in Entries /\ pd_index(v) \in Entries
         /\ pdpt_index(v) \in Entries /\ pml4_index(v) \in Entries
<1>1. ASSUME NEW a \in Nat PROVE Up(a) \in Nat /\ a % PAGE_ENTRIES \in Entries
  BY DivMod, TableSize, Zenon DEF Up, Entries
<1> QED
  BY <1>1 DEF pt_index, pd_index, pdpt_index, pml4_index

LEMMA TopIndex ==
  ASSUME NEW v \in Outside
  PROVE  /\ v \in Nat
         /\ pml4_index(v) = Up(Up(Up(v)))
<1> DEFINE P == PAGE_ENTRIES
<1>1. v \in Nat /\ v < P * P * P * P
  <2>1. ASSUME NEW a \in Nat, NEW x \in HugeFrames .. a - 1 PROVE x \in Nat /\ x < a
    BY <2>1, TableSize
  <2>2. P * P * P * P \in Nat
    BY TableSize
  <2> QED
    BY <2>1, <2>2 DEF Outside
<1>2. P \in Nat \ {0} /\ P * P * P \in Nat /\ P * P \in Nat
  BY TableSize
<1>3. Up(v) \in Nat /\ Up(v) < P * P * P
  BY <1>1, <1>2, DivLess, IndexTypes, Zenon DEF Up
<1>4. Up(Up(v)) \in Nat /\ Up(Up(v)) < P * P
  BY <1>2, <1>3, DivLess, IndexTypes, Zenon DEF Up
<1>5. Up(Up(Up(v))) \in Nat /\ Up(Up(Up(v))) < P
  BY <1>2, <1>4, DivLess, IndexTypes DEF Up
<1> QED
  BY <1>1, <1>2, <1>5, ModSmall DEF pml4_index

\* Two pages with the same four indices are one page.
LEMMA IndicesIdentify ==
  ASSUME NEW v \in Outside, NEW w \in Outside,
         pml4_index(v) = pml4_index(w), pdpt_index(v) = pdpt_index(w),
         pd_index(v) = pd_index(w), pt_index(v) = pt_index(w)
  PROVE  v = w
<1>1. v \in Nat /\ w \in Nat /\ Up(Up(Up(v))) = Up(Up(Up(w)))
  BY TopIndex
<1>2. ASSUME NEW a \in Nat, NEW b \in Nat, Up(a) = Up(b), a % PAGE_ENTRIES = b % PAGE_ENTRIES
      PROVE  a = b
  BY <1>2, DivModUnique, TableSize, Zenon DEF Up
<1>3. Up(Up(v)) = Up(Up(w))
  BY <1>1, <1>2, IndexTypes DEF pdpt_index
<1>4. Up(v) = Up(w)
  BY <1>1, <1>2, <1>3, IndexTypes DEF pd_index
<1> QED
  BY <1>1, <1>2, <1>4 DEF pt_index

\* A page outside the boot mapping does not go through boot.asm's p2_table.
LEMMA OutsideAvoidsBoot ==
  ASSUME NEW v \in Outside
  PROVE  ~ (pml4_index(v) = 0 /\ pdpt_index(v) = 0)
<1> SUFFICES ASSUME pml4_index(v) = 0, pdpt_index(v) = 0 PROVE FALSE
  OBVIOUS
<1> DEFINE P == PAGE_ENTRIES
<1>1. v \in Nat /\ Up(v) \in Nat /\ Up(Up(v)) \in Nat
  BY TopIndex, IndexTypes
<1>2. Up(Up(v)) = 0
  <2>1. Up(Up(v)) = Up(Up(Up(v))) * P + (Up(Up(v)) % P)
    BY <1>1, DivMod, TableSize DEF Up
  <2> QED
    BY <2>1, TopIndex, TableSize DEF pdpt_index
<1>3. Up(v) < P
  <2>1. Up(v) = 0 * P + (Up(v) % P) /\ (Up(v) % P) \in 0 .. P - 1
    BY <1>1, <1>2, DivMod, TableSize, Zenon DEF Up
  <2> QED
    BY <2>1, TableSize
<1>4. v = Up(v) * P + (v % P) /\ (v % P) \in 0 .. P - 1
  BY <1>1, DivMod, TableSize DEF Up
<1>5. ASSUME NEW p \in Nat \ {0}, NEW a \in Nat, NEW r \in 0 .. p - 1, a < p
      PROVE  a * p + r < p * p
  <2>1. PICK k \in Nat : p = a + 1 + k
    <3>1. p - (a + 1) \in Nat
      BY <1>5
    <3> QED
      BY <3>1, <1>5
  <2>2. (a + 1 + k) * p = a * p + p + k * p /\ k * p \in Nat
    BY <2>1
  <2> QED
    BY <1>5, <2>1, <2>2
<1>6. v < HugeFrames
  BY <1>1, <1>3, <1>4, <1>5, TableSize DEF HugeFrames
<1>7. v >= HugeFrames
  <2>1. ASSUME NEW a \in Nat, NEW x \in HugeFrames .. a - 1 PROVE x >= HugeFrames
    BY <2>1, TableSize
  <2>2. P * P * P * P \in Nat
    BY TableSize
  <2> QED
    BY <2>1, <2>2 DEF Outside
<1> QED
  BY <1>1, <1>6, <1>7, TableSize
-----------------------------------------------------------------------------
(* The tree of page tables *)

LEMMA FrameFacts ==
  /\ \A f : f \in Frames <=> f \in Nat /\ f < VMM_PAGES_END
  /\ p4_table \in Nat /\ p3_table = p4_table + 1 /\ p2_table = p4_table + 2
  /\ p4_table \in Frames /\ p3_table \in Frames /\ p2_table \in Frames
  /\ VMM_PAGES_BASE = p4_table + 3 /\ VMM_PAGES_BASE \in Nat
  /\ VMM_PAGES_END \in Nat /\ VMM_PAGES_BASE <= VMM_PAGES_END
  /\ 0 \in Entries
<1>1. PoolFrames \in Nat
  BY VmmConstants
<1> QED
  BY <1>1, TableSize
  DEF Frames, p4_table, p3_table, p2_table, VMM_PAGES_BASE, VMM_PAGES_END, Entries

PageEntry == [addr : Nat, flags : SUBSET PageFlags]
Memory == [Frames -> [Entries -> PageEntry]]

\* The frames from p4_table up to n are tables; lev gives the level of each
\* (4 for the root, 0 for a frame that is no table), and up and at the
\* entry that links it.
Levels(n, lev, up, at) ==
  /\ n \in VMM_PAGES_BASE .. VMM_PAGES_END
  /\ lev \in [Frames -> 0 .. 4] /\ up \in [Frames -> Frames] /\ at \in [Frames -> Entries]
  /\ \A f \in Frames : lev[f] # 0 <=> p4_table <= f /\ f < n
  /\ \A f \in Frames : lev[f] = 4 <=> f = p4_table
  /\ lev[p3_table] = 3 /\ up[p3_table] = p4_table /\ at[p3_table] = 0
  /\ lev[p2_table] = 2 /\ up[p2_table] = p3_table /\ at[p2_table] = 0

\* Entry i of table t of level 2 to 4 is not present or links a child of its own.
Linked(m, lev, up, at, t, i) ==
  is_present(m, t, i) =>
    /\ m[t][i] = Entry(m[t][i].addr, TableFlags)
    /\ m[t][i].addr \in Frames
    /\ lev[m[t][i].addr] = lev[t] - 1
    /\ up[m[t][i].addr] = t
    /\ at[m[t][i].addr] = i

\* The table at f hangs where up and at say.
Hung(m, lev, up, at, f) ==
  /\ lev[up[f]] = lev[f] + 1
  /\ up[f] # p2_table
  /\ m[up[f]][at[f]] = Entry(f, TableFlags)

Tree(m, n, lev, up, at) ==
  /\ m \in Memory
  /\ Levels(n, lev, up, at)
  /\ \A f \in Frames : lev[f] \in 1 .. 3 => Hung(m, lev, up, at, f)
  /\ \A t \in Frames, i \in Entries :
        lev[t] \in 2 .. 4 /\ t # p2_table => Linked(m, lev, up, at, t, i)
  /\ \A i \in Entries : m[p2_table][i] = Entry(i * PAGE_ENTRIES, TableFlags \cup {"HUGE_PAGE"})
  /\ \A t \in Frames, i \in Entries : lev[t] = 1 => m[t][i].flags \in CallFlags

IsTree(m, n) == \E lev, up, at : Tree(m, n, lev, up, at)

LEMMA FlagFacts ==
  /\ TableFlags \in SUBSET PageFlags /\ "PRESENT" \in TableFlags /\ "HUGE_PAGE" \notin TableFlags
  /\ TableFlags \cup {"HUGE_PAGE"} \in SUBSET PageFlags
  /\ \A f \in CallFlags : f \in SUBSET PageFlags /\ "HUGE_PAGE" \notin f
  /\ {} \in CallFlags
  BY DEF TableFlags, PageFlags, CallFlags

LEMMA BootTree == IsTree(setup_page_tables, VMM_PAGES_BASE)
<1> DEFINE m == setup_page_tables
           lev == [f \in Frames |-> IF f = p4_table THEN 4 ELSE IF f = p3_table THEN 3
                                    ELSE IF f = p2_table THEN 2 ELSE 0]
           up == [f \in Frames |-> IF f = p2_table THEN p3_table ELSE p4_table]
           at == [f \in Frames |-> 0]
<1>1. /\ m[p4_table] = [ZeroTable EXCEPT ![0] = Entry(p3_table, TableFlags)]
      /\ m[p3_table] = [ZeroTable EXCEPT ![0] = Entry(p2_table, TableFlags)]
      /\ m[p2_table] = [i \in Entries |-> Entry(i * PAGE_ENTRIES, TableFlags \cup {"HUGE_PAGE"})]
      /\ \A f \in Frames \ {p4_table, p3_table, p2_table} : m[f] = ZeroTable
  BY FrameFacts DEF setup_page_tables
<1>2. \A i \in Entries : ZeroTable[i] = Entry(0, {})
  BY DEF ZeroTable
<1>3. m \in Memory
  <2>1. ZeroTable \in [Entries -> PageEntry]
    BY DEF ZeroTable, PageEntry, Entry
  <2>2. \A f \in Frames : Entry(f, TableFlags) \in PageEntry
    BY FrameFacts, FlagFacts DEF Entry, PageEntry
  <2>3. \A i \in Entries : Entry(i * PAGE_ENTRIES, TableFlags \cup {"HUGE_PAGE"}) \in PageEntry
    <3>1. \A i \in Entries : i * PAGE_ENTRIES \in Nat
      BY TableSize DEF Entries
    <3> QED
      BY <3>1, FlagFacts DEF Entry, PageEntry
  <2>4. \A f \in Frames : m[f] \in [Entries -> PageEntry]
    <3>1. m[p4_table] \in [Entries -> PageEntry] /\ m[p3_table] \in [Entries -> PageEntry]
      BY <1>1, <2>1, <2>2, FrameFacts
    <3>2. m[p2_table] \in [Entries -> PageEntry]
      BY <1>1, <2>3
    <3> QED
      BY <1>1, <2>1, <3>1, <3>2, Zenon
  <2> QED
    BY <2>4 DEF setup_page_tables, Memory
<1>4. Levels(VMM_PAGES_BASE, lev, up, at)
  BY FrameFacts DEF Levels
<1>5. /\ m[p4_table][0] = Entry(p3_table, TableFlags)
      /\ m[p3_table][0] = Entry(p2_table, TableFlags)
      /\ \A i \in Entries : i # 0 => m[p4_table][i] = Entry(0, {}) /\ m[p3_table][i] = Entry(0, {})
      /\ \A i \in Entries : m[p2_table][i] = Entry(i * PAGE_ENTRIES, TableFlags \cup {"HUGE_PAGE"})
  <2>1. DOMAIN ZeroTable = Entries
    BY DEF ZeroTable
  <2>2. \A i \in Entries : m[p2_table][i] = Entry(i * PAGE_ENTRIES, TableFlags \cup {"HUGE_PAGE"})
    BY <1>1
  <2>3. /\ m[p4_table][0] = Entry(p3_table, TableFlags)
        /\ m[p3_table][0] = Entry(p2_table, TableFlags)
    BY <1>1, <2>1, FrameFacts
  <2>4. \A i \in Entries : i # 0 => m[p4_table][i] = Entry(0, {}) /\ m[p3_table][i] = Entry(0, {})
    BY <1>1, <1>2, <2>1, FrameFacts
  <2> QED
    BY <2>2, <2>3, <2>4
<1> HIDE DEF m
<1>6. \A f \in Frames : lev[f] \in 1 .. 3 => Hung(m, lev, up, at, f)
  BY <1>5, FrameFacts DEF Hung
<1>7. ASSUME NEW t \in Frames, NEW i \in Entries, lev[t] \in 2 .. 4, t # p2_table
      PROVE  Linked(m, lev, up, at, t, i)
  <2>1. t \in {p4_table, p3_table}
    BY <1>7
  <2>2. i = 0 \/ m[t][i] = Entry(0, {})
    BY <1>5, <2>1
  <2>3. m[t][i] = Entry(0, {}) => ~ is_present(m, t, i)
    BY DEF is_present, Entry
  <2>4. i = 0 => m[t][i] = Entry(IF t = p4_table THEN p3_table ELSE p2_table, TableFlags)
    BY <1>5, <2>1, FrameFacts
  <2> QED
    BY <2>1, <2>2, <2>3, <2>4, FrameFacts DEF Linked, Entry
<1>8. Tree(m, VMM_PAGES_BASE, lev, up, at)
  BY <1>3, <1>4, <1>5, <1>6, <1>7 DEF Tree
<1> QED
  BY <1>8 DEF IsTree, m

-----------------------------------------------------------------------------
(* The walk of a page outside the boot mapping *)

\* A present entry of a table above level 1 leads one level down.
LEMMA ChildFacts ==
  ASSUME NEW m, NEW n, NEW lev, NEW up, NEW at, Tree(m, n, lev, up, at),
         NEW t \in Frames, NEW i \in Entries,
         lev[t] \in 2 .. 4, t # p2_table, is_present(m, t, i)
  PROVE  /\ m[t][i].addr \in Frames /\ lev[m[t][i].addr] = lev[t] - 1
         /\ up[m[t][i].addr] = t /\ at[m[t][i].addr] = i
         /\ ~ is_huge(m, t, i)
<1>1. Linked(m, lev, up, at, t, i)
  BY DEF Tree
<1>2. m[t][i].flags = TableFlags
  BY <1>1 DEF Linked, Entry
<1> QED
  BY <1>1, <1>2, FlagFacts DEF Linked, is_huge

\* The tables a walk passes have the levels 4, 3, 2 and 1, and each is
\* linked by the entry the walk read.
LEMMA WalkFacts ==
  ASSUME NEW m, NEW n, NEW lev, NEW up, NEW at, Tree(m, n, lev, up, at),
         NEW v \in Outside
  PROVE  /\ is_present(m, p4_table, pml4_index(v)) =>
              /\ pdpt_addr(m, v) \in Frames /\ lev[pdpt_addr(m, v)] = 3
              /\ up[pdpt_addr(m, v)] = p4_table /\ at[pdpt_addr(m, v)] = pml4_index(v)
              /\ pdpt_addr(m, v) # p2_table
              /\ ~ is_huge(m, p4_table, pml4_index(v))
         /\ is_present(m, p4_table, pml4_index(v)) /\ is_present(m, pdpt_addr(m, v), pdpt_index(v)) =>
              /\ pd_addr(m, v) \in Frames /\ lev[pd_addr(m, v)] = 2
              /\ up[pd_addr(m, v)] = pdpt_addr(m, v) /\ at[pd_addr(m, v)] = pdpt_index(v)
              /\ pd_addr(m, v) # p2_table
              /\ ~ is_huge(m, pdpt_addr(m, v), pdpt_index(v))
         /\ TablesPresent(m, v) =>
              /\ pt_addr(m, v) \in Frames /\ lev[pt_addr(m, v)] = 1
              /\ up[pt_addr(m, v)] = pd_addr(m, v) /\ at[pt_addr(m, v)] = pd_index(v)
              /\ ~ is_huge(m, pd_addr(m, v), pd_index(v))
<1>1. /\ pml4_index(v) \in Entries /\ pdpt_index(v) \in Entries /\ pd_index(v) \in Entries
      /\ ~ (pml4_index(v) = 0 /\ pdpt_index(v) = 0)
  BY TopIndex, IndexTypes, OutsideAvoidsBoot
<1>2. /\ p4_table \in Frames /\ lev[p4_table] = 4 /\ p4_table # p2_table
      /\ lev[p2_table] = 2 /\ up[p2_table] = p3_table /\ at[p2_table] = 0
      /\ up[p3_table] = p4_table /\ at[p3_table] = 0
  BY FrameFacts DEF Tree, Levels
<1>3. is_present(m, p4_table, pml4_index(v)) =>
        /\ pdpt_addr(m, v) \in Frames /\ lev[pdpt_addr(m, v)] = 3
        /\ up[pdpt_addr(m, v)] = p4_table /\ at[pdpt_addr(m, v)] = pml4_index(v)
        /\ pdpt_addr(m, v) # p2_table
        /\ ~ is_huge(m, p4_table, pml4_index(v))
  <2> SUFFICES ASSUME is_present(m, p4_table, pml4_index(v))
               PROVE  /\ pdpt_addr(m, v) \in Frames /\ lev[pdpt_addr(m, v)] = 3
                      /\ up[pdpt_addr(m, v)] = p4_table /\ at[pdpt_addr(m, v)] = pml4_index(v)
                      /\ pdpt_addr(m, v) # p2_table
                      /\ ~ is_huge(m, p4_table, pml4_index(v))
    OBVIOUS
  <2>1. 4 \in 2 .. 4 /\ 4 - 1 = 3 /\ 2 # 3
    OBVIOUS
  <2>2. /\ pdpt_addr(m, v) \in Frames /\ lev[pdpt_addr(m, v)] = lev[p4_table] - 1
        /\ up[pdpt_addr(m, v)] = p4_table /\ at[pdpt_addr(m, v)] = pml4_index(v)
        /\ ~ is_huge(m, p4_table, pml4_index(v))
    <3>1. lev[p4_table] \in 2 .. 4 /\ p4_table \in Frames /\ p4_table # p2_table
      BY <1>2, <2>1
    <3>2. /\ m[p4_table][pml4_index(v)].addr \in Frames /\ lev[m[p4_table][pml4_index(v)].addr] = lev[p4_table] - 1
          /\ up[m[p4_table][pml4_index(v)].addr] = p4_table /\ at[m[p4_table][pml4_index(v)].addr] = pml4_index(v)
          /\ ~ is_huge(m, p4_table, pml4_index(v))
      BY <1>1, <3>1, ChildFacts, Zenon
    <3>3. pdpt_addr(m, v) = m[p4_table][pml4_index(v)].addr
      BY Zenon DEF pdpt_addr
    <3> QED
      BY <3>2, <3>3, Zenon
  <2> QED
    BY <1>2, <2>1, <2>2
<1>4. is_present(m, p4_table, pml4_index(v)) /\ is_present(m, pdpt_addr(m, v), pdpt_index(v)) =>
        /\ pd_addr(m, v) \in Frames /\ lev[pd_addr(m, v)] = 2
        /\ up[pd_addr(m, v)] = pdpt_addr(m, v) /\ at[pd_addr(m, v)] = pdpt_index(v)
        /\ pd_addr(m, v) # p2_table
        /\ ~ is_huge(m, pdpt_addr(m, v), pdpt_index(v))
  <2> SUFFICES ASSUME is_present(m, p4_table, pml4_index(v)),
                      is_present(m, pdpt_addr(m, v), pdpt_index(v))
               PROVE  /\ pd_addr(m, v) \in Frames /\ lev[pd_addr(m, v)] = 2
                      /\ up[pd_addr(m, v)] = pdpt_addr(m, v) /\ at[pd_addr(m, v)] = pdpt_index(v)
                      /\ pd_addr(m, v) # p2_table
                      /\ ~ is_huge(m, pdpt_addr(m, v), pdpt_index(v))
    OBVIOUS
  <2>1. 3 \in 2 .. 4 /\ 3 - 1 = 2
    OBVIOUS
  <2>2. /\ pd_addr(m, v) \in Frames /\ lev[pd_addr(m, v)] = lev[pdpt_addr(m, v)] - 1
        /\ up[pd_addr(m, v)] = pdpt_addr(m, v) /\ at[pd_addr(m, v)] = pdpt_index(v)
        /\ ~ is_huge(m, pdpt_addr(m, v), pdpt_index(v))
    <3>1. lev[pdpt_addr(m, v)] \in 2 .. 4
      BY <1>3, <2>1
    <3>2. /\ m[pdpt_addr(m, v)][pdpt_index(v)].addr \in Frames /\ lev[m[pdpt_addr(m, v)][pdpt_index(v)].addr] = lev[pdpt_addr(m, v)] - 1
          /\ up[m[pdpt_addr(m, v)][pdpt_index(v)].addr] = pdpt_addr(m, v) /\ at[m[pdpt_addr(m, v)][pdpt_index(v)].addr] = pdpt_index(v)
          /\ ~ is_huge(m, pdpt_addr(m, v), pdpt_index(v))
      BY <1>1, <1>3, <3>1, ChildFacts, Zenon
    <3>3. pd_addr(m, v) = m[pdpt_addr(m, v)][pdpt_index(v)].addr
      BY Zenon DEF pd_addr
    <3> QED
      BY <3>2, <3>3, Zenon
  <2>3. lev[pdpt_addr(m, v)] = 3
    BY <1>3
  <2>4. pd_addr(m, v) # p2_table
    BY <1>1, <1>2, <1>3, <2>2, Zenon
  <2> QED
    BY <2>1, <2>2, <2>3, <2>4
<1>5. TablesPresent(m, v) =>
        /\ pt_addr(m, v) \in Frames /\ lev[pt_addr(m, v)] = 1
        /\ up[pt_addr(m, v)] = pd_addr(m, v) /\ at[pt_addr(m, v)] = pd_index(v)
        /\ ~ is_huge(m, pd_addr(m, v), pd_index(v))
  <2> SUFFICES ASSUME TablesPresent(m, v)
               PROVE  /\ pt_addr(m, v) \in Frames /\ lev[pt_addr(m, v)] = 1
                      /\ up[pt_addr(m, v)] = pd_addr(m, v) /\ at[pt_addr(m, v)] = pd_index(v)
                      /\ ~ is_huge(m, pd_addr(m, v), pd_index(v))
    OBVIOUS
  <2>1. 2 \in 2 .. 4 /\ 2 - 1 = 1
    OBVIOUS
  <2>2. /\ pd_addr(m, v) \in Frames /\ lev[pd_addr(m, v)] = 2 /\ pd_addr(m, v) # p2_table
        /\ is_present(m, pd_addr(m, v), pd_index(v))
    BY <1>4 DEF TablesPresent
  <2>3. /\ pt_addr(m, v) \in Frames /\ lev[pt_addr(m, v)] = lev[pd_addr(m, v)] - 1
        /\ up[pt_addr(m, v)] = pd_addr(m, v) /\ at[pt_addr(m, v)] = pd_index(v)
        /\ ~ is_huge(m, pd_addr(m, v), pd_index(v))
    <3>1. lev[pd_addr(m, v)] \in 2 .. 4
      BY <2>1, <2>2
    <3>2. /\ m[pd_addr(m, v)][pd_index(v)].addr \in Frames /\ lev[m[pd_addr(m, v)][pd_index(v)].addr] = lev[pd_addr(m, v)] - 1
          /\ up[m[pd_addr(m, v)][pd_index(v)].addr] = pd_addr(m, v) /\ at[m[pd_addr(m, v)][pd_index(v)].addr] = pd_index(v)
          /\ ~ is_huge(m, pd_addr(m, v), pd_index(v))
      BY <1>1, <2>2, <3>1, ChildFacts, Zenon
    <3>3. pt_addr(m, v) = m[pd_addr(m, v)][pd_index(v)].addr
      BY Zenon DEF pt_addr
    <3> QED
      BY <3>2, <3>3, Zenon
  <2> QED
    BY <2>1, <2>2, <2>3
<1> QED
  BY <1>3, <1>4, <1>5

\* The same for a walk that finds all its tables.
LEMMA PathFacts ==
  ASSUME NEW m, NEW n, NEW lev, NEW up, NEW at, Tree(m, n, lev, up, at),
         NEW v \in Outside, TablesPresent(m, v)
  PROVE  /\ pdpt_addr(m, v) \in Frames /\ lev[pdpt_addr(m, v)] = 3
         /\ up[pdpt_addr(m, v)] = p4_table /\ at[pdpt_addr(m, v)] = pml4_index(v)
         /\ pd_addr(m, v) \in Frames /\ lev[pd_addr(m, v)] = 2
         /\ up[pd_addr(m, v)] = pdpt_addr(m, v) /\ at[pd_addr(m, v)] = pdpt_index(v)
         /\ pt_addr(m, v) \in Frames /\ lev[pt_addr(m, v)] = 1
         /\ up[pt_addr(m, v)] = pd_addr(m, v) /\ at[pt_addr(m, v)] = pd_index(v)
<1>1. is_present(m, p4_table, pml4_index(v)) /\ is_present(m, pdpt_addr(m, v), pdpt_index(v))
  BY DEF TablesPresent
<1> QED
  BY <1>1, WalkFacts

\* The same as far as the walk has come.
LEMMA PdptFacts ==
  ASSUME NEW m, NEW n, NEW lev, NEW up, NEW at, Tree(m, n, lev, up, at), NEW v \in Outside,
         is_present(m, p4_table, pml4_index(v))
  PROVE  pdpt_addr(m, v) \in Frames /\ lev[pdpt_addr(m, v)] = 3 /\ pdpt_addr(m, v) # p2_table
  BY WalkFacts

LEMMA PdFacts ==
  ASSUME NEW m, NEW n, NEW lev, NEW up, NEW at, Tree(m, n, lev, up, at), NEW v \in Outside,
         is_present(m, p4_table, pml4_index(v)), is_present(m, pdpt_addr(m, v), pdpt_index(v))
  PROVE  /\ pd_addr(m, v) \in Frames /\ lev[pd_addr(m, v)] = 2 /\ pd_addr(m, v) # p2_table
         /\ lev[pdpt_addr(m, v)] = 3
  BY WalkFacts

\* What the page table of level 1 says of a page.
Leaf(m, v) == [phys |-> m[pt_addr(m, v)][pt_index(v)].addr,
               flags |-> m[pt_addr(m, v)][pt_index(v)].flags]

\* translate finds no huge page on the way.
LEMMA TranslateOutside ==
  ASSUME NEW m, NEW n, IsTree(m, n), NEW v \in Outside
  PROVE  translate(m, v) = IF PageMapped(m, v) THEN Leaf(m, v) ELSE Unmapped
<1>1. PICK lev, up, at : Tree(m, n, lev, up, at)
  BY DEF IsTree
<1>2. /\ is_present(m, p4_table, pml4_index(v)) /\ is_present(m, pdpt_addr(m, v), pdpt_index(v))
            => ~ is_huge(m, pdpt_addr(m, v), pdpt_index(v))
      /\ TablesPresent(m, v) => ~ is_huge(m, pd_addr(m, v), pd_index(v))
  BY <1>1, WalkFacts, Zenon
<1>3. \A t, i : is_huge(m, t, i) => is_present(m, t, i)
  BY DEF is_huge, is_present
<1> QED
  BY <1>2, <1>3 DEF translate, PageMapped, TablesPresent, Leaf

-----------------------------------------------------------------------------
(* A new table *)

\* Memory m2 is m with frame n zeroed and linked from entry i of table t.
Grown(m, m2, n, t, i) ==
  /\ m2 \in Memory
  /\ \A j \in Entries : m2[n][j] = Entry(0, {})
  /\ m2[t][i] = Entry(n, TableFlags)
  /\ \A f \in Frames, j \in Entries : f # n /\ ~ (f = t /\ j = i) => m2[f][j] = m[f][j]

LEMMA GrownTree ==
  ASSUME NEW m, NEW m2, NEW n, NEW lev, NEW up, NEW at, Tree(m, n, lev, up, at),
         n < VMM_PAGES_END,
         NEW t \in Frames, NEW i \in Entries, lev[t] \in 2 .. 4, t # p2_table,
         ~ is_present(m, t, i), Grown(m, m2, n, t, i)
  PROVE  Tree(m2, n + 1, [lev EXCEPT ![n] = lev[t] - 1], [up EXCEPT ![n] = t], [at EXCEPT ![n] = i])
<1> DEFINE lev2 == [lev EXCEPT ![n] = lev[t] - 1]
           up2 == [up EXCEPT ![n] = t]
           at2 == [at EXCEPT ![n] = i]
<1>1. /\ n \in Nat /\ n \in Frames /\ lev[n] = 0 /\ n # t /\ n >= VMM_PAGES_BASE
      /\ n # p4_table /\ n # p3_table /\ n # p2_table
  <2>1. n \in Nat /\ n >= VMM_PAGES_BASE /\ n \in Frames
    BY FrameFacts DEF Tree, Levels
  <2>2. lev[n] = 0
    BY <2>1 DEF Tree, Levels
  <2> QED
    BY <2>1, <2>2, FrameFacts
<1>2. /\ \A f \in Frames : lev2[f] = IF f = n THEN lev[t] - 1 ELSE lev[f]
      /\ \A f \in Frames : up2[f] = IF f = n THEN t ELSE up[f]
      /\ \A f \in Frames : at2[f] = IF f = n THEN i ELSE at[f]
      /\ lev2 \in [Frames -> 0 .. 4] /\ up2 \in [Frames -> Frames] /\ at2 \in [Frames -> Entries]
  BY <1>1 DEF Tree, Levels
<1> HIDE DEF lev2, up2, at2
<1>3. Levels(n + 1, lev2, up2, at2)
  <2>1. n + 1 \in VMM_PAGES_BASE .. VMM_PAGES_END
    BY <1>1, FrameFacts
  <2>2. \A f \in Frames : lev2[f] # 0 <=> p4_table <= f /\ f < n + 1
    BY <1>1, <1>2, FrameFacts DEF Tree, Levels
  <2>3. \A f \in Frames : lev2[f] = 4 <=> f = p4_table
    BY <1>1, <1>2, FrameFacts DEF Tree, Levels
  <2>4. /\ lev2[p3_table] = 3 /\ up2[p3_table] = p4_table /\ at2[p3_table] = 0
        /\ lev2[p2_table] = 2 /\ up2[p2_table] = p3_table /\ at2[p2_table] = 0
    BY <1>1, <1>2, FrameFacts DEF Tree, Levels
  <2> QED
    BY <1>2, <2>1, <2>2, <2>3, <2>4 DEF Levels
<1>4. ASSUME NEW f \in Frames, lev2[f] \in 1 .. 3 PROVE Hung(m2, lev2, up2, at2, f)
  <2>1. CASE f = n
    <3>1. lev2[t] = lev[t] /\ lev2[n] = lev[t] - 1 /\ up2[n] = t /\ at2[n] = i
      BY <1>1, <1>2
    <3>2. m2[t][i] = Entry(n, TableFlags)
      BY DEF Grown
    <3> QED
      BY <2>1, <3>1, <3>2 DEF Hung
  <2>2. CASE f # n
    <3>1. lev[f] \in 1 .. 3 /\ up2[f] = up[f] /\ at2[f] = at[f] /\ lev2[f] = lev[f]
      BY <1>2, <1>4, <2>2
    <3>2. Hung(m, lev, up, at, f) /\ up[f] \in Frames /\ at[f] \in Entries
      BY <3>1 DEF Tree, Levels
    <3>3. up[f] # n /\ lev2[up[f]] = lev[up[f]]
      <4>1. lev[up[f]] = lev[f] + 1
        BY <3>2 DEF Hung
      <4>2. lev[up[f]] # 0
        BY <3>1, <4>1
      <4>3. up[f] # n
        BY <1>1, <4>2
      <4> QED
        BY <1>2, <3>2, <4>3
    <3>4. ~ (up[f] = t /\ at[f] = i)
      <4>1. is_present(m, up[f], at[f])
        BY <3>2, FlagFacts DEF Hung, is_present, Entry
      <4> QED
        BY <4>1
    <3>5. m2[up[f]][at[f]] = m[up[f]][at[f]]
      BY <3>2, <3>3, <3>4 DEF Grown
    <3> QED
      BY <3>1, <3>2, <3>3, <3>5 DEF Hung
  <2> QED
    BY <2>1, <2>2
<1>5. ASSUME NEW x \in Frames, NEW j \in Entries, lev2[x] \in 2 .. 4, x # p2_table
      PROVE  Linked(m2, lev2, up2, at2, x, j)
  <2>1. CASE x = n
    <3>1. ~ is_present(m2, x, j)
      BY <2>1 DEF Grown, is_present, Entry
    <3> QED
      BY <3>1 DEF Linked
  <2>2. CASE x = t /\ j = i
    <3>1. m2[x][j] = Entry(n, TableFlags) /\ m2[x][j].addr = n
      BY <2>2 DEF Grown, Entry
    <3>2. lev2[x] = lev[t] /\ lev2[n] = lev[t] - 1 /\ up2[n] = t /\ at2[n] = i
      BY <1>1, <1>2, <2>2
    <3> QED
      BY <1>1, <2>2, <3>1, <3>2 DEF Linked
  <2>3. CASE x # n /\ ~ (x = t /\ j = i)
    <3>1. m2[x][j] = m[x][j] /\ lev2[x] = lev[x]
      BY <1>2, <2>3 DEF Grown
    <3>2. Linked(m, lev, up, at, x, j)
      BY <1>5, <3>1 DEF Tree
    <3>3. ASSUME is_present(m, x, j)
          PROVE  LET a == m[x][j].addr IN
                   a # n /\ lev2[a] = lev[a] /\ up2[a] = up[a] /\ at2[a] = at[a]
      <4> DEFINE a == m[x][j].addr
      <4>1. a \in Frames /\ lev[a] = lev[x] - 1
        BY <3>2, <3>3 DEF Linked
      <4>2. lev[a] # 0
        BY <1>5, <3>1, <4>1
      <4>3. a # n
        BY <1>1, <4>2
      <4> HIDE DEF a
      <4>4. a # n /\ lev2[a] = lev[a] /\ up2[a] = up[a] /\ at2[a] = at[a]
        BY <1>2, <4>1, <4>3
      <4> QED
        BY <4>4 DEF a
    <3>4. is_present(m2, x, j) <=> is_present(m, x, j)
      BY <3>1 DEF is_present
    <3> QED
      BY <3>1, <3>2, <3>3, <3>4 DEF Linked
  <2> QED
    BY <2>1, <2>2, <2>3
<1>6. \A j \in Entries : m2[p2_table][j] = Entry(j * PAGE_ENTRIES, TableFlags \cup {"HUGE_PAGE"})
  BY <1>1, FrameFacts, Zenon DEF Tree, Grown
<1>7. ASSUME NEW x \in Frames, NEW j \in Entries, lev2[x] = 1 PROVE m2[x][j].flags \in CallFlags
  <2>1. CASE x = n
    <3>1. m2[x][j].flags = {}
      BY <2>1 DEF Grown, Entry
    <3> QED
      BY <3>1, FlagFacts
  <2>2. CASE x # n
    <3>1. lev[x] = 1 /\ x # t
      BY <1>2, <1>7, <2>2
    <3> QED
      BY <2>2, <3>1 DEF Tree, Grown
  <2> QED
    BY <2>1, <2>2
<1>8. m2 \in Memory
  BY DEF Grown
<1>9. Tree(m2, n + 1, lev2, up2, at2)
  BY <1>3, <1>4, <1>5, <1>6, <1>7, <1>8, Zenon DEF Tree
<1> QED
  BY <1>9 DEF lev2, up2, at2

\* A new table changes no mapping: every walk that reads the new entry stops
\* at the zeroed table below it.
LEMMA GrownWalk ==
  ASSUME NEW m, NEW m2, NEW n, NEW lev, NEW up, NEW at, Tree(m, n, lev, up, at),
         n < VMM_PAGES_END,
         NEW t \in Frames, NEW i \in Entries, lev[t] \in 2 .. 4, t # p2_table,
         ~ is_present(m, t, i), Grown(m, m2, n, t, i),
         NEW w \in Outside
  PROVE  /\ PageMapped(m2, w) <=> PageMapped(m, w)
         /\ PageMapped(m, w) => Leaf(m2, w) = Leaf(m, w)
<1> DEFINE lev2 == [lev EXCEPT ![n] = lev[t] - 1]
           up2 == [up EXCEPT ![n] = t]
           at2 == [at EXCEPT ![n] = i]
           i4 == pml4_index(w)
           i3 == pdpt_index(w)
           i2 == pd_index(w)
           i1 == pt_index(w)
<1>1. i4 \in Entries /\ i3 \in Entries /\ i2 \in Entries /\ i1 \in Entries
  BY TopIndex, IndexTypes
<1>2. /\ n \in Frames /\ lev[n] = 0 /\ n # t /\ p4_table \in Frames /\ p4_table # n
      /\ lev \in [Frames -> 0 .. 4]
  <2>1. n \in Frames /\ lev[n] = 0
    BY FrameFacts DEF Tree, Levels
  <2> QED
    BY <2>1, FrameFacts DEF Tree, Levels
<1>3. Tree(m2, n + 1, lev2, up2, at2)
  BY GrownTree
<1>4. \A f \in Frames : lev2[f] = IF f = n THEN lev[t] - 1 ELSE lev[f]
  BY <1>2
<1> HIDE DEF lev2, up2, at2, i4, i3, i2, i1
\* A present entry of an old table is unchanged.
<1>5. ASSUME NEW x \in Frames, NEW j \in Entries, lev[x] # 0, is_present(m, x, j)
      PROVE  m2[x][j] = m[x][j] /\ is_present(m2, x, j)
  <2>1. x # n /\ ~ (x = t /\ j = i)
    BY <1>2, <1>5
  <2>2. m2[x][j] = m[x][j]
    BY <2>1 DEF Grown
  <2> QED
    BY <1>5, <2>2 DEF is_present
<1>6. ASSUME PageMapped(m, w) PROVE PageMapped(m2, w) /\ Leaf(m2, w) = Leaf(m, w)
  <2>1. /\ is_present(m, p4_table, i4) /\ is_present(m, pdpt_addr(m, w), i3)
        /\ is_present(m, pd_addr(m, w), i2) /\ is_present(m, pt_addr(m, w), i1)
        /\ TablesPresent(m, w)
    BY <1>6 DEF PageMapped, TablesPresent, i4, i3, i2, i1
  <2>2. /\ pdpt_addr(m, w) \in Frames /\ lev[pdpt_addr(m, w)] = 3
        /\ pd_addr(m, w) \in Frames /\ lev[pd_addr(m, w)] = 2
        /\ pt_addr(m, w) \in Frames /\ lev[pt_addr(m, w)] = 1
    BY <2>1, PathFacts
  <2>3. lev[p4_table] = 4
    BY <1>2 DEF Tree, Levels
  <2>4. m2[p4_table][i4] = m[p4_table][i4] /\ is_present(m2, p4_table, i4)
    BY <1>1, <1>2, <1>5, <2>1, <2>3
  <2>5. pdpt_addr(m2, w) = pdpt_addr(m, w)
    BY <2>4 DEF pdpt_addr, i4
  <2>6. m2[pdpt_addr(m, w)][i3] = m[pdpt_addr(m, w)][i3] /\ is_present(m2, pdpt_addr(m, w), i3)
    BY <1>1, <1>5, <2>1, <2>2
  <2>7. pd_addr(m2, w) = pd_addr(m, w)
    BY <2>5, <2>6, Zenon DEF pd_addr, i3
  <2>8. m2[pd_addr(m, w)][i2] = m[pd_addr(m, w)][i2] /\ is_present(m2, pd_addr(m, w), i2)
    BY <1>1, <1>5, <2>1, <2>2
  <2>9. pt_addr(m2, w) = pt_addr(m, w)
    BY <2>7, <2>8, Zenon DEF pt_addr, i2
  <2>10. m2[pt_addr(m, w)][i1] = m[pt_addr(m, w)][i1] /\ is_present(m2, pt_addr(m, w), i1)
    BY <1>1, <1>5, <2>1, <2>2
  <2>11. PageMapped(m2, w)
    BY <2>4, <2>5, <2>6, <2>7, <2>8, <2>9, <2>10, Zenon DEF PageMapped, TablesPresent, i4, i3, i2, i1
  <2>12. Leaf(m2, w) = Leaf(m, w)
    BY <2>9, <2>10, Zenon DEF Leaf, i1
  <2> QED
    BY <2>11, <2>12
\* A present entry that leads to a table with a present entry is not the new one.
<1>7. ASSUME NEW x \in Frames, NEW j \in Entries, is_present(m2, x, j), x # t \/ j # i
      PROVE  m[x][j] = m2[x][j] /\ is_present(m, x, j)
  <2>1. x # n
    BY <1>7 DEF Grown, is_present, Entry
  <2>2. m2[x][j] = m[x][j]
    BY <1>7, <2>1 DEF Grown
  <2> QED
    BY <1>7, <2>2 DEF is_present
<1>8. ASSUME NEW x \in Frames, NEW j \in Entries, NEW k \in Entries,
             is_present(m2, m2[x][j].addr, k)
      PROVE  x # t \/ j # i
  <2>1. \A l \in Entries : ~ is_present(m2, n, l)
    BY DEF Grown, is_present, Entry
  <2>2. m2[t][i].addr = n
    BY DEF Grown, Entry
  <2> QED
    BY <1>8, <2>1, <2>2
<1>9. ASSUME PageMapped(m2, w) PROVE PageMapped(m, w)
  <2>1. /\ is_present(m2, p4_table, i4) /\ is_present(m2, pdpt_addr(m2, w), i3)
        /\ is_present(m2, pd_addr(m2, w), i2) /\ is_present(m2, pt_addr(m2, w), i1)
        /\ TablesPresent(m2, w)
    BY <1>9 DEF PageMapped, TablesPresent, i4, i3, i2, i1
  <2>2. /\ pdpt_addr(m2, w) \in Frames /\ pd_addr(m2, w) \in Frames
        /\ pt_addr(m2, w) \in Frames /\ lev2[pt_addr(m2, w)] = 1
    BY <1>3, <2>1, PathFacts
  <2>3. m[p4_table][i4] = m2[p4_table][i4] /\ is_present(m, p4_table, i4)
    <3>1. p4_table # t \/ i4 # i
      BY <1>1, <1>2, <1>8, <2>1, Zenon DEF pdpt_addr, i4
    <3> QED
      BY <1>1, <1>2, <1>7, <2>1, <3>1
  <2>4. pdpt_addr(m, w) = pdpt_addr(m2, w)
    BY <2>3 DEF pdpt_addr, i4
  <2>5. m[pdpt_addr(m2, w)][i3] = m2[pdpt_addr(m2, w)][i3] /\ is_present(m, pdpt_addr(m2, w), i3)
    <3>1. pdpt_addr(m2, w) # t \/ i3 # i
      <4>1. pd_addr(m2, w) = m2[pdpt_addr(m2, w)][i3].addr
        BY DEF pd_addr, i3
      <4> QED
        BY <1>1, <1>8, <2>1, <2>2, <4>1
    <3> QED
      BY <1>1, <1>7, <2>1, <2>2, <3>1
  <2>6. pd_addr(m, w) = pd_addr(m2, w)
    BY <2>4, <2>5, Zenon DEF pd_addr, i3
  <2>7. m[pd_addr(m2, w)][i2] = m2[pd_addr(m2, w)][i2] /\ is_present(m, pd_addr(m2, w), i2)
    <3>1. pd_addr(m2, w) # t \/ i2 # i
      <4>1. pt_addr(m2, w) = m2[pd_addr(m2, w)][i2].addr
        BY DEF pt_addr, i2
      <4> QED
        BY <1>1, <1>8, <2>1, <2>2, <4>1
    <3> QED
      BY <1>1, <1>7, <2>1, <2>2, <3>1
  <2>8. pt_addr(m, w) = pt_addr(m2, w)
    BY <2>6, <2>7, Zenon DEF pt_addr, i2
  <2>9. is_present(m, pt_addr(m2, w), i1)
    <3>1. pt_addr(m2, w) # t
      BY <1>2, <1>4, <2>2
    <3> QED
      BY <1>1, <1>7, <2>1, <2>2, <3>1
  <2> QED
    BY <2>3, <2>4, <2>5, <2>6, <2>7, <2>8, <2>9, Zenon DEF PageMapped, TablesPresent, i4, i3, i2, i1
<1> QED
  BY <1>6, <1>9

-----------------------------------------------------------------------------
(* The three levels of map_page *)

State(m, n, ok) == [mem |-> m, next |-> n, ok |-> ok]

\* The same pages are mapped, and to the same frames.
Same(m, m2) ==
  \A w \in Outside : /\ PageMapped(m2, w) <=> PageMapped(m, w)
                     /\ PageMapped(m, w) => Leaf(m2, w) = Leaf(m, w)

\* The entries of the tables below frame n that were present still stand.
Kept(m, n, m2) ==
  \A f \in Frames, j \in Entries :
     p4_table <= f /\ f < n /\ is_present(m, f, j) => m2[f][j] = m[f][j]

LEMMA SameTransitive ==
  ASSUME NEW m1, NEW m2, NEW m3, Same(m1, m2), Same(m2, m3)
  PROVE  Same(m1, m3)
<1> SUFFICES ASSUME NEW w \in Outside
             PROVE  /\ PageMapped(m3, w) <=> PageMapped(m1, w)
                    /\ PageMapped(m1, w) => Leaf(m3, w) = Leaf(m1, w)
  BY DEF Same
<1>1. /\ PageMapped(m2, w) <=> PageMapped(m1, w)
      /\ PageMapped(m1, w) => Leaf(m2, w) = Leaf(m1, w)
  BY DEF Same
<1>2. /\ PageMapped(m3, w) <=> PageMapped(m2, w)
      /\ PageMapped(m2, w) => Leaf(m3, w) = Leaf(m2, w)
  BY DEF Same
<1> QED
  BY <1>1, <1>2

LEMMA AllocFailed ==
  ASSUME NEW m, NEW n, NEW t, NEW i
  PROVE  alloc_page_table(State(m, n, FALSE), t, i) = State(m, n, FALSE)
  BY DEF alloc_page_table, State

LEMMA AllocTable ==
  ASSUME NEW m, NEW n, NEW lev, NEW up, NEW at, Tree(m, n, lev, up, at),
         NEW t \in Frames, NEW i \in Entries, lev[t] \in 2 .. 4, t # p2_table
  PROVE  \/ \E m2, n2 : /\ alloc_page_table(State(m, n, TRUE), t, i) = State(m2, n2, TRUE)
                        /\ IsTree(m2, n2) /\ Same(m, m2) /\ Kept(m, n, m2)
                        /\ is_present(m2, t, i) /\ n <= n2
         \/ /\ alloc_page_table(State(m, n, TRUE), t, i) = State(m, n, FALSE)
            /\ ~ is_present(m, t, i)
<1> DEFINE s == State(m, n, TRUE)
           m2 == [m EXCEPT ![n] = ZeroTable, ![t][i] = Entry(n, TableFlags)]
<1>1. s.mem = m /\ s.next = n /\ s.ok
  <2>1. s.mem = m /\ s.next = n
    BY Zenon DEF State
  <2>2. s.ok
    BY Zenon DEF State
  <2> QED
    BY <2>1, <2>2, Zenon
<1> HIDE DEF s
<1>2. n \in Nat /\ n \in VMM_PAGES_BASE .. VMM_PAGES_END /\ m \in Memory
  BY FrameFacts DEF Tree, Levels
<1>3. CASE is_present(m, t, i)
  <2>1. alloc_page_table(s, t, i) = State(m, n, TRUE)
    BY <1>1, <1>3, Zenon DEF alloc_page_table, s
  <2>2. Same(m, m) /\ Kept(m, n, m)
    BY DEF Same, Kept
  <2>3. IsTree(m, n) /\ n <= n
    BY <1>2 DEF IsTree
  <2> QED
    BY <1>3, <2>1, <2>2, <2>3, Zenon DEF s
<1>4. CASE ~ is_present(m, t, i) /\ n >= VMM_PAGES_END
  <2>1. s.next + 1 > VMM_PAGES_END
    BY <1>1, <1>2, <1>4, FrameFacts
  <2>2. alloc_page_table(s, t, i) = State(m, n, FALSE)
    BY <1>1, <1>4, <2>1 DEF alloc_page_table, State
  <2> QED
    BY <1>4, <2>2, Zenon DEF s
<1>5. CASE ~ is_present(m, t, i) /\ n < VMM_PAGES_END
  <2>1. ~ (s.next + 1 > VMM_PAGES_END)
    BY <1>1, <1>2, <1>5, FrameFacts
  <2>2. alloc_page_table(s, t, i) = State(m2, n + 1, TRUE)
    BY <1>1, <1>5, <2>1 DEF alloc_page_table, State
  <2>3. n \in Frames /\ lev[n] = 0 /\ n # t /\ n >= VMM_PAGES_BASE
    BY <1>2, <1>5, FrameFacts DEF Tree, Levels
  <2>4. Entry(n, TableFlags) \in PageEntry /\ Entry(0, {}) \in PageEntry
    BY <1>2, FlagFacts DEF Entry, PageEntry
  <2>5. ZeroTable \in [Entries -> PageEntry] /\ \A j \in Entries : ZeroTable[j] = Entry(0, {})
    BY <2>4 DEF ZeroTable
  <2>6. Grown(m, m2, n, t, i)
    <3>1. m2 = [[m EXCEPT ![n] = ZeroTable] EXCEPT ![t] = [m[t] EXCEPT ![i] = Entry(n, TableFlags)]]
      BY <1>2, <2>3, Zenon DEF Memory
    <3>2. m[t] \in [Entries -> PageEntry]
      BY <1>2 DEF Memory
    <3>3. [m[t] EXCEPT ![i] = Entry(n, TableFlags)] \in [Entries -> PageEntry]
      BY <2>4, <3>2
    <3>4. m2 \in Memory
      BY <1>2, <2>5, <3>1, <3>3 DEF Memory
    <3>5. m2[n] = ZeroTable /\ m2[t] = [m[t] EXCEPT ![i] = Entry(n, TableFlags)]
      BY <1>2, <2>3, <3>1 DEF Memory
    <3>6. \A f \in Frames : f # n /\ f # t => m2[f] = m[f]
      BY <1>2, <3>1 DEF Memory
    <3> HIDE DEF m2
    <3>7. m2[t][i] = Entry(n, TableFlags) /\ \A j \in Entries : j # i => m2[t][j] = m[t][j]
      BY <3>2, <3>5
    <3> QED
      BY <2>5, <3>4, <3>5, <3>6, <3>7, Zenon DEF Grown
  <2> HIDE DEF m2
  <2>7. IsTree(m2, n + 1)
    <3>1. Tree(m2, n + 1, [lev EXCEPT ![n] = lev[t] - 1], [up EXCEPT ![n] = t], [at EXCEPT ![n] = i])
      BY <1>5, <2>6, GrownTree
    <3> QED
      BY <3>1 DEF IsTree
  <2>8. Same(m, m2)
    BY <1>5, <2>6, GrownWalk DEF Same
  <2>9. Kept(m, n, m2)
    <3> SUFFICES ASSUME NEW f \in Frames, NEW j \in Entries, f < n, is_present(m, f, j)
                 PROVE  m2[f][j] = m[f][j]
      BY DEF Kept
    <3>1. f # n /\ ~ (f = t /\ j = i)
      BY <1>2, <1>5, FrameFacts
    <3> QED
      BY <2>6, <3>1 DEF Grown
  <2>10. is_present(m2, t, i)
    BY <2>6, FlagFacts DEF Grown, is_present, Entry
  <2> QED
    <3>1. n <= n + 1
      BY <1>2
    <3> QED
      BY <2>2, <2>7, <2>8, <2>9, <2>10, <3>1, Zenon DEF s
<1> QED
  <2>1. n >= VMM_PAGES_END \/ n < VMM_PAGES_END
    BY <1>2, FrameFacts
  <2> QED
    BY <1>3, <1>4, <1>5, <2>1, Zenon

\* The three levels leave a tree that maps what it mapped before.  When they
\* succeed the page has its tables; when the pool is empty it was not mapped.
LEMMA MapTablesFacts ==
  ASSUME IsTree(mem, NEXT_PAGE_ADDR), NEW v \in Outside
  PROVE  \E m2, n2, ok :
            /\ MapTables(v) = State(m2, n2, ok) /\ ok \in BOOLEAN
            /\ IsTree(m2, n2) /\ Same(mem, m2)
            /\ ok => TablesPresent(m2, v)
            /\ ~ ok => ~ PageMapped(mem, v)
<1> DEFINE i4 == pml4_index(v)
           i3 == pdpt_index(v)
           i2 == pd_index(v)
           s0 == State(mem, NEXT_PAGE_ADDR, TRUE)
           s1 == alloc_page_table(s0, p4_table, i4)
           s2 == alloc_page_table(s1, pdpt_addr(s1.mem, v), i3)
           s3 == alloc_page_table(s2, pd_addr(s2.mem, v), i2)
           Goal == \E m2, n2, ok :
                     /\ s3 = State(m2, n2, ok) /\ ok \in BOOLEAN
                     /\ IsTree(m2, n2) /\ Same(mem, m2)
                     /\ ok => TablesPresent(m2, v)
                     /\ ~ ok => ~ PageMapped(mem, v)
<1>0. MapTables(v) = s3
  BY DEF MapTables, State
<1>1. i4 \in Entries /\ i3 \in Entries /\ i2 \in Entries
  BY TopIndex, IndexTypes
<1>2. p4_table \in Frames /\ p4_table # p2_table
  BY FrameFacts
<1> HIDE DEF i4, i3, i2, s0, s1, s2, s3
<1>3. ASSUME NEW m, NEW n, IsTree(m, n), Same(mem, m), ~ PageMapped(m, v), s3 = State(m, n, FALSE)
      PROVE  Goal
  <2>1. ~ PageMapped(mem, v)
    BY <1>3 DEF Same
  <2>2. FALSE \in BOOLEAN
    OBVIOUS
  <2> QED
    BY <1>3, <2>1, <2>2, Zenon
<1>4. Same(mem, mem)
  BY DEF Same
<1>5. PICK l0, u0, a0 : Tree(mem, NEXT_PAGE_ADDR, l0, u0, a0)
  BY DEF IsTree
<1>6. l0[p4_table] = 4 /\ l0[p4_table] \in 2 .. 4
  BY <1>2, <1>5 DEF Tree, Levels
<1>7. \/ \E m1, n1 : /\ s1 = State(m1, n1, TRUE)
                     /\ IsTree(m1, n1) /\ Same(mem, m1) /\ Kept(mem, NEXT_PAGE_ADDR, m1)
                     /\ is_present(m1, p4_table, i4) /\ NEXT_PAGE_ADDR <= n1
      \/ /\ s1 = State(mem, NEXT_PAGE_ADDR, FALSE)
         /\ ~ is_present(mem, p4_table, i4)
  BY <1>1, <1>2, <1>5, <1>6, AllocTable, Zenon DEF s0, s1
<1>8. CASE s1 = State(mem, NEXT_PAGE_ADDR, FALSE) /\ ~ is_present(mem, p4_table, i4)
  <2>1. s2 = State(mem, NEXT_PAGE_ADDR, FALSE)
    BY <1>8, AllocFailed, Zenon DEF s2
  <2>2. s3 = State(mem, NEXT_PAGE_ADDR, FALSE)
    BY <2>1, AllocFailed, Zenon DEF s3
  <2>3. ~ PageMapped(mem, v)
    BY <1>8 DEF PageMapped, TablesPresent, i4
  <2> QED
    BY <1>0, <1>3, <1>4, <2>2, <2>3, Zenon
<1>9. ASSUME NEW m1, NEW n1, s1 = State(m1, n1, TRUE),
             IsTree(m1, n1), Same(mem, m1), is_present(m1, p4_table, i4)
      PROVE  Goal
  <2>1. PICK l1, u1, a1 : Tree(m1, n1, l1, u1, a1)
    BY <1>9 DEF IsTree
  <2> DEFINE t3 == pdpt_addr(m1, v)
  <2>2. t3 \in Frames /\ l1[t3] = 3 /\ t3 # p2_table
    BY <1>9, <2>1, PdptFacts DEF i4
  <2>3. l1[t3] \in 2 .. 4 /\ l1[p4_table] # 0 /\ p4_table <= t3 /\ t3 < n1
    BY <1>2, <2>1, <2>2, FrameFacts DEF Tree, Levels
  <2>4. p4_table <= p4_table /\ p4_table < n1
    BY <2>1, FrameFacts DEF Tree, Levels
  <2>5. s1.mem = m1
    BY <1>9, Zenon DEF State
  <2> HIDE DEF t3
  <2>6. \/ \E m2, n2 : /\ s2 = State(m2, n2, TRUE)
                       /\ IsTree(m2, n2) /\ Same(m1, m2) /\ Kept(m1, n1, m2)
                       /\ is_present(m2, t3, i3) /\ n1 <= n2
        \/ /\ s2 = State(m1, n1, FALSE)
           /\ ~ is_present(m1, t3, i3)
    <3>1. s2 = alloc_page_table(State(m1, n1, TRUE), t3, i3)
      BY <1>9, <2>5, Zenon DEF s2, t3
    <3> QED
      BY <1>1, <2>1, <2>2, <2>3, <3>1, AllocTable, Zenon
  <2>7. CASE s2 = State(m1, n1, FALSE) /\ ~ is_present(m1, t3, i3)
    <3>1. s3 = State(m1, n1, FALSE)
      BY <2>7, AllocFailed, Zenon DEF s3
    <3>2. ~ PageMapped(m1, v)
      BY <2>7 DEF PageMapped, TablesPresent, t3, i3
    <3> QED
      BY <1>3, <1>9, <3>1, <3>2, Zenon
  <2>8. ASSUME NEW m2, NEW n2, s2 = State(m2, n2, TRUE),
               IsTree(m2, n2), Same(m1, m2), Kept(m1, n1, m2), is_present(m2, t3, i3)
        PROVE  Goal
    <3>1. m2[p4_table][i4] = m1[p4_table][i4]
      BY <1>1, <1>2, <1>9, <2>4, <2>8 DEF Kept
    <3>2. pdpt_addr(m2, v) = t3 /\ is_present(m2, p4_table, i4)
      BY <1>9, <3>1 DEF pdpt_addr, i4, t3, is_present
    <3>3. PICK l2, u2, a2 : Tree(m2, n2, l2, u2, a2)
      BY <2>8 DEF IsTree
    <3> DEFINE t2 == pd_addr(m2, v)
    <3>4. t2 \in Frames /\ l2[t2] = 2 /\ t2 # p2_table /\ l2[t3] = 3
      BY <2>8, <3>2, <3>3, PdFacts DEF i4, i3
    <3>5. /\ l2[t2] \in 2 .. 4
          /\ p4_table <= p4_table /\ p4_table < n2 /\ p4_table <= t3 /\ t3 < n2
      BY <1>2, <2>2, <2>3, <3>3, <3>4, FrameFacts DEF Tree, Levels
    <3>6. s2.mem = m2
      BY <2>8, Zenon DEF State
    <3>7. Same(mem, m2)
      BY <1>9, <2>8, SameTransitive, Zenon
    <3> HIDE DEF t2
    <3>8. \/ \E m3, n3 : /\ s3 = State(m3, n3, TRUE)
                         /\ IsTree(m3, n3) /\ Same(m2, m3) /\ Kept(m2, n2, m3)
                         /\ is_present(m3, t2, i2) /\ n2 <= n3
          \/ /\ s3 = State(m2, n2, FALSE)
             /\ ~ is_present(m2, t2, i2)
      <4>1. s3 = alloc_page_table(State(m2, n2, TRUE), t2, i2)
        BY <2>8, <3>6, Zenon DEF s3, t2
      <4> QED
        BY <1>1, <3>3, <3>4, <3>5, <4>1, AllocTable, Zenon
    <3>9. CASE s3 = State(m2, n2, FALSE) /\ ~ is_present(m2, t2, i2)
      <4>1. ~ PageMapped(m2, v)
        BY <3>9 DEF PageMapped, TablesPresent, t2, i2
      <4> QED
        BY <1>3, <2>8, <3>7, <3>9, <4>1, Zenon
    <3>10. ASSUME NEW m3, NEW n3, s3 = State(m3, n3, TRUE),
                  IsTree(m3, n3), Same(m2, m3), Kept(m2, n2, m3), is_present(m3, t2, i2)
           PROVE  Goal
      <4>1. m3[p4_table][i4] = m2[p4_table][i4] /\ m3[t3][i3] = m2[t3][i3]
        BY <1>1, <1>2, <2>2, <2>8, <3>2, <3>5, <3>10 DEF Kept
      <4>2. pdpt_addr(m3, v) = t3 /\ is_present(m3, p4_table, i4)
        BY <3>2, <4>1 DEF pdpt_addr, i4, is_present
      <4>3. pd_addr(m3, v) = t2 /\ is_present(m3, t3, i3)
        BY <2>8, <3>2, <4>1, <4>2 DEF pd_addr, i3, t2, is_present
      <4>4. TablesPresent(m3, v)
        BY <3>10, <4>2, <4>3 DEF TablesPresent, i4, i3, i2
      <4>5. Same(mem, m3)
        BY <3>7, <3>10, SameTransitive, Zenon
      <4>6. TRUE \in BOOLEAN
        OBVIOUS
      <4> QED
        BY <3>10, <4>4, <4>5, <4>6, Zenon
    <3> QED
      BY <3>8, <3>9, <3>10, Zenon
  <2> QED
    BY <2>6, <2>7, <2>8, Zenon
<1>10. Goal
  <2> SUFFICES ASSUME ~ (s1 = State(mem, NEXT_PAGE_ADDR, FALSE) /\ ~ is_present(mem, p4_table, i4))
               PROVE  Goal
    BY <1>0, <1>8, Zenon
  <2>1. PICK m1, n1 : /\ s1 = State(m1, n1, TRUE)
                      /\ IsTree(m1, n1) /\ Same(mem, m1) /\ is_present(m1, p4_table, i4)
    BY <1>7, Zenon
  <2> QED
    BY <1>9, <2>1, Zenon
<1> QED
  BY <1>0, <1>10, Zenon
=============================================================================
