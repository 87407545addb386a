-------------------------------- MODULE Vmm --------------------------------
(***************************************************************************)
(* The virtual memory manager, src/src/memory/vmm.rs, over the page tables *)
(* src/boot/boot.asm builds.                                               *)
(*                                                                         *)
(* Physical memory is a function from frame numbers to frames, and every   *)
(* frame is an array of page-table entries: the code casts any address it  *)
(* reads from an entry to a PageTable, so a frame of ordinary RAM is read  *)
(* and written as a table too.  An address is a page number (the calls'    *)
(* alignment checks reject the others before they touch anything), and     *)
(* PAGE_ENTRIES scales the 512-way tables down.  The processor's TLB is    *)
(* part of the state: it may cache any translation at any moment, and only *)
(* invlpg removes one.                                                     *)
(***************************************************************************)
EXTENDS Naturals

CONSTANTS
    PAGE_ENTRIES,   \* entries of one table
    PoolFrames,     \* page tables between NEXT_PAGE_ADDR and VMM_PAGES_END
    Virts,          \* virtual pages the callers name
    Physes,         \* physical pages they map
    Ranges          \* <<start, end>> pairs passed to identity_map

ASSUME VmmConstants ==
    /\ PAGE_ENTRIES \in Nat \ {0, 1}
    /\ PoolFrames \in Nat
    /\ Virts \subseteq 0 .. PAGE_ENTRIES * PAGE_ENTRIES * PAGE_ENTRIES * PAGE_ENTRIES - 1
    /\ Physes \subseteq Nat
    /\ \A r \in Ranges : r[1] \in Nat /\ r[2] \in Nat /\ \A a \in r[1] .. r[2] - 1 : a \in Virts

VARIABLES
    mem,            \* mem[f][i]: entry i of frame f
    NEXT_PAGE_ADDR, \* the next frame alloc_page_table hands out
    tlb,            \* pairs <<virtual page, mapping>> the processor has cached
    ident,          \* the identity_map call in progress, or NoCall
    reply           \* what the last map, unmap or flags call returned

vars == <<mem, NEXT_PAGE_ADDR, tlb, ident, reply>>

Entries == 0 .. PAGE_ENTRIES - 1

\* The frames boot.asm identity-maps with huge pages, then its three tables,
\* then the pool of alloc_page_table.
HugeFrames == PAGE_ENTRIES * PAGE_ENTRIES
p4_table == HugeFrames
p3_table == HugeFrames + 1
p2_table == HugeFrames + 2
VMM_PAGES_BASE == HugeFrames + 3
VMM_PAGES_END == VMM_PAGES_BASE + PoolFrames
Frames == 0 .. VMM_PAGES_END - 1

PageFlags == {"PRESENT", "WRITABLE", "HUGE_PAGE"}
CallFlags == {{}, {"PRESENT"}, {"PRESENT", "WRITABLE"}}
TableFlags == {"PRESENT", "WRITABLE"}
Entry(a, f) == [addr |-> a, flags |-> f]
ZeroTable == [i \in Entries |-> Entry(0, {})]

NoCall == [addr |-> 0, end |-> 0, flags |-> {}]
Unmapped == [phys |-> 0, flags |-> {}]

\* One table level up (the shift by 9 bits), and the index at each level.
Up(v) == v \div PAGE_ENTRIES
pt_index(v) == v % PAGE_ENTRIES
pd_index(v) == Up(v) % PAGE_ENTRIES
pdpt_index(v) == Up(Up(v)) % PAGE_ENTRIES
pml4_index(v) == Up(Up(Up(v))) % PAGE_ENTRIES

is_present(m, t, i) == "PRESENT" \in m[t][i].flags
is_huge(m, t, i) == {"PRESENT", "HUGE_PAGE"} \subseteq m[t][i].flags

\* Fault: the huge pages start at the second one.
setup_page_tablesShifted ==
    [f \in Frames |->
        CASE f = p4_table -> [ZeroTable EXCEPT ![0] = Entry(p3_table, TableFlags)]
          [] f = p3_table -> [ZeroTable EXCEPT ![0] = Entry(p2_table, TableFlags)]
          [] f = p2_table -> [i \in Entries |->
                                 Entry((i + 1) * PAGE_ENTRIES, TableFlags \cup {"HUGE_PAGE"})]
          [] OTHER -> ZeroTable]

setup_page_tables ==
    [f \in Frames |->
        CASE f = p4_table -> [ZeroTable EXCEPT ![0] = Entry(p3_table, TableFlags)]
          [] f = p3_table -> [ZeroTable EXCEPT ![0] = Entry(p2_table, TableFlags)]
          [] f = p2_table -> [i \in Entries |->
                                 Entry(i * PAGE_ENTRIES, TableFlags \cup {"HUGE_PAGE"})]
          [] OTHER -> ZeroTable]

Init ==
    /\ mem = setup_page_tables
    /\ NEXT_PAGE_ADDR = VMM_PAGES_BASE
    /\ tlb = {}
    /\ ident = NoCall
    /\ reply = "none"
-----------------------------------------------------------------------------
(* Walks.  The walk of unmap_page and update_flags takes the address out   *)
(* of every present entry; the one of translate, and the processor's own,  *)
(* also stops at a huge page.                                              *)

pdpt_addr(m, v) == m[p4_table][pml4_index(v)].addr
pd_addr(m, v) == m[pdpt_addr(m, v)][pdpt_index(v)].addr
pt_addr(m, v) == m[pd_addr(m, v)][pd_index(v)].addr

TablesPresent(m, v) ==
    /\ is_present(m, p4_table, pml4_index(v))
    /\ is_present(m, pdpt_addr(m, v), pdpt_index(v))
    /\ is_present(m, pd_addr(m, v), pd_index(v))

PageMapped(m, v) ==
    TablesPresent(m, v) /\ is_present(m, pt_addr(m, v), pt_index(v))

check_huge_page(m, t, i, offset) ==
    [phys |-> m[t][i].addr + offset, flags |-> m[t][i].flags]

translate(m, v) ==
    IF ~is_present(m, p4_table, pml4_index(v)) THEN Unmapped
    ELSE IF is_huge(m, pdpt_addr(m, v), pdpt_index(v))
    THEN check_huge_page(m, pdpt_addr(m, v), pdpt_index(v), v % HugeFrames)
    ELSE IF ~is_present(m, pdpt_addr(m, v), pdpt_index(v)) THEN Unmapped
    ELSE IF is_huge(m, pd_addr(m, v), pd_index(v))
    THEN check_huge_page(m, pd_addr(m, v), pd_index(v), v % PAGE_ENTRIES)
    ELSE IF PageMapped(m, v)
    THEN LET e == m[pt_addr(m, v)][pt_index(v)] IN [phys |-> e.addr, flags |-> e.flags]
    ELSE Unmapped
-----------------------------------------------------------------------------
(* The calls.                                                              *)

\* invlpg drops what the processor cached for one page.
invlpg(v) == tlb' = {c \in tlb : c[1] # v}

\* Fault: NEXT_PAGE_ADDR is not advanced.
alloc_page_tableTwice(s, t, i) ==
  IF ~s.ok \/ is_present(s.mem, t, i) THEN s
  ELSE IF s.next + 1 > VMM_PAGES_END THEN [s EXCEPT !.ok = FALSE]
  ELSE [s EXCEPT !.mem = [s.mem EXCEPT ![s.next] = ZeroTable,
                                       ![t][i] = Entry(s.next, TableFlags)]]

\* One level of map_page: the table that entry i of table t points to is
\* allocated, zeroed and linked when the entry is not present.
alloc_page_table(s, t, i) ==
    IF ~s.ok \/ is_present(s.mem, t, i) THEN s
    ELSE IF s.next + 1 > VMM_PAGES_END THEN [mem |-> s.mem, next |-> s.next, ok |-> FALSE]
    ELSE [mem |-> [s.mem EXCEPT ![s.next] = ZeroTable,
                                ![t][i] = Entry(s.next, TableFlags)],
          next |-> s.next + 1,
          ok |-> TRUE]

\* The three levels above the page table, with the tables they needed.
MapTables(v) ==
    LET s0 == [mem |-> mem, next |-> NEXT_PAGE_ADDR, ok |-> TRUE]
        s1 == alloc_page_table(s0, p4_table, pml4_index(v))
        s2 == alloc_page_table(s1, pdpt_addr(s1.mem, v), pdpt_index(v))
    IN  alloc_page_table(s2, pd_addr(s2.mem, v), pd_index(v))

\* Fault: an existing mapping is replaced.
MapPageReplaces(v, p, f) ==
  LET s == MapTables(v)
  IN  /\ NEXT_PAGE_ADDR' = s.next
      /\ mem' = IF s.ok
                THEN [s.mem EXCEPT ![pt_addr(s.mem, v)][pt_index(v)] = Entry(p, f)]
                ELSE s.mem
      /\ reply' = IF s.ok THEN "Ok" ELSE "OutOfMemory"
      /\ IF s.ok THEN invlpg(v) ELSE UNCHANGED tlb

\* The body of map_page.  When a level finds the pool empty, the tables the
\* levels above it have linked stay.
MapPage(v, p, f) ==
    LET s == MapTables(v)
        free == s.ok /\ ~is_present(s.mem, pt_addr(s.mem, v), pt_index(v))
    IN  /\ NEXT_PAGE_ADDR' = s.next
        /\ mem' = IF free
                  THEN [s.mem EXCEPT ![pt_addr(s.mem, v)][pt_index(v)] = Entry(p, f)]
                  ELSE s.mem
        /\ reply' = IF ~s.ok THEN "OutOfMemory"
                    ELSE IF free THEN "Ok" ELSE "PageAlreadyMapped"
        /\ IF free THEN invlpg(v) ELSE UNCHANGED tlb

map_page(v, p, f) ==
    /\ ident = NoCall
    /\ MapPage(v, p, f)
    /\ UNCHANGED ident

unmap_page(v) ==
    /\ ident = NoCall
    /\ IF PageMapped(mem, v)
       THEN /\ mem' = [mem EXCEPT ![pt_addr(mem, v)][pt_index(v)] = Entry(0, {})]
            /\ invlpg(v)
            /\ reply' = "Ok"
       ELSE reply' = "PageNotMapped" /\ UNCHANGED <<mem, tlb>>
    /\ UNCHANGED <<NEXT_PAGE_ADDR, ident>>

\* Fault: the processor keeps the old rights.
update_flagsNoFlush(v, f) ==
  /\ ident = NoCall
  /\ IF PageMapped(mem, v)
     THEN /\ mem' = [mem EXCEPT ![pt_addr(mem, v)][pt_index(v)].flags = f]
          /\ reply' = "Ok"
     ELSE reply' = "PageNotMapped" /\ UNCHANGED mem
  /\ UNCHANGED <<NEXT_PAGE_ADDR, tlb, ident>>

update_flags(v, f) ==
    /\ ident = NoCall
    /\ IF PageMapped(mem, v)
       THEN /\ mem' = [mem EXCEPT ![pt_addr(mem, v)][pt_index(v)].flags = f]
            /\ invlpg(v)
            /\ reply' = "Ok"
       ELSE reply' = "PageNotMapped" /\ UNCHANGED <<mem, tlb>>
    /\ UNCHANGED <<NEXT_PAGE_ADDR, ident>>

\* identity_map starts its loop, and every iteration maps one page; the
\* first failure returns and leaves the pages mapped so far.
identity_map(r, f) ==
    /\ ident = NoCall
    /\ r[1] < r[2]
    /\ ident' = [addr |-> r[1], end |-> r[2], flags |-> f]
    /\ UNCHANGED <<mem, NEXT_PAGE_ADDR, tlb, reply>>

identity_map_page ==
    /\ ident # NoCall
    /\ MapPage(ident.addr, ident.addr, ident.flags)
    /\ ident' = IF reply' = "Ok" /\ ident.addr + 1 < ident.end
                THEN [ident EXCEPT !.addr = @ + 1]
                ELSE NoCall

\* The processor uses page v and caches what its walk finds.
Access(v) ==
    /\ "PRESENT" \in translate(mem, v).flags
    /\ tlb' = tlb \cup {<<v, translate(mem, v)>>}
    /\ UNCHANGED <<mem, NEXT_PAGE_ADDR, ident, reply>>

Next ==
    \/ \E v \in Virts :
        \/ \E p \in Physes, f \in CallFlags : map_page(v, p, f)
        \/ unmap_page(v)
        \/ \E f \in CallFlags : update_flags(v, f)
        \/ Access(v)
    \/ \E r \in Ranges, f \in CallFlags : identity_map(r, f)
    \/ identity_map_page

Spec == Init /\ [][Next]_vars
-----------------------------------------------------------------------------
(* Properties                                                              *)

\* The frames, the pool pointer, the TLB and the call in progress hold values
\* of their types: vmm.rs never hands out a frame past VMM_PAGES_END.
TypeOK ==
    /\ \A f \in Frames, i \in Entries :
          mem[f][i].addr \in Nat /\ mem[f][i].flags \subseteq PageFlags
    /\ DOMAIN mem = Frames
    /\ NEXT_PAGE_ADDR \in VMM_PAGES_BASE .. VMM_PAGES_END
    /\ \A c \in tlb : c[1] \in Virts
    /\ ident = NoCall \/ ident.addr < ident.end

\* The entries that point to a page table, from the root down.
TableLinks ==
    LET from(t) == {e \in {t} \X Entries : is_present(mem, t, e[2]) /\ ~is_huge(mem, t, e[2])}
        next(L) == UNION {from(mem[e[1]][e[2]].addr) : e \in L}
        L4 == from(p4_table)
        L3 == next(L4)
    IN  L4 \cup L3 \cup next(L3)

\* The tables form a tree whatever calls were made, those that ran out of
\* memory half way included: every frame alloc_page_table handed out is
\* linked from exactly one entry, and nothing else is linked.
TablesAreATree ==
    /\ {mem[e[1]][e[2]].addr : e \in TableLinks}
          = {p3_table, p2_table} \cup (VMM_PAGES_BASE .. NEXT_PAGE_ADDR - 1)
    /\ \A d, e \in TableLinks : mem[d[1]][d[2]].addr = mem[e[1]][e[2]].addr => d = e

\* What the processor has cached for a page is what the tables say: map_page,
\* unmap_page and update_flags flush the page they change before they return.
TlbCoherent == \A c \in tlb : translate(mem, c[1]) = c[2]

\* The identity map the kernel runs on survives every call for a page outside
\* it: new tables are linked beside boot.asm's, never over them.
BootMapIntact == \A v \in 0 .. HugeFrames - 1 : translate(mem, v).phys = v

\* The calls implement one map from pages to mappings, whatever tables they
\* share, and translate reports it: a failed call changes no mapping, and
\* no call changes the mapping of another page.
Pages ==
    INSTANCE AddressSpace WITH
        page <- [v \in Virts |->
                    IF "PRESENT" \in translate(mem, v).flags
                    THEN translate(mem, v) ELSE Unmapped],
        Present <- "PRESENT",
        Physes <- Physes \cup Virts

Refinement == Pages!Spec

\* README.md line 213 lists "Map/Unmap/Translate/Flags": a page that map_page
\* has mapped translates to the frame it was mapped to.
MapTakesEffect ==
    [][\A v \in Virts, p \in Physes, f \in CallFlags :
          map_page(v, p, f) /\ reply' = "Ok" /\ "PRESENT" \in f
             => translate(mem', v).phys = p]_vars
=============================================================================
