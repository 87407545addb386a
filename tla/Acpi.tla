-------------------------------- MODULE Acpi --------------------------------
(***************************************************************************)
(* AcpiParser (src/src/acpi/mod.rs): the search of low memory for the root *)
(* pointer (RSDP), the root table it leads to (XSDT or RSDT) and the two   *)
(* tables the kernel uses, MADT and HPET.                                  *)
(*                                                                         *)
(* What the firmware left in memory is a record: `ebda` is the word at     *)
(* 0x40E; `rsdps` are the RSDP structures, [address, revision, sum20,      *)
(* sum36, xsdt, rsdt], sum20 and sum36 saying whether their first 20 and   *)
(* their 36 bytes add up to zero.  A table has the address class `at` (see *)
(* Addresses), a root table is `valid` when its signature and its checksum *)
(* are right.  parse_table does not look at checksums.                     *)
(***************************************************************************)
EXTENDS Naturals, FiniteSets, Sequences, FiniteSetsExt

CONSTANT MAX_OVERRIDES  \* the capacity of AcpiInfo.int_overrides (16)

ASSUME OverridesAssumption == MAX_OVERRIDES \in Nat \ {0}

\* Null, in the gigabyte that boot.asm maps, or above it.
Addresses == {"null", "low", "high"}

\* The entries of a MADT that say where a device is or which pin a line has;
\* those of other types (here the processors) have only their length.
MadtEntries ==
    [type : {"IoApic", "LocalApicAddressOverride"}, address : Addresses, length : Nat]
        \cup [type : {"InterruptSourceOverride"}, irq : Nat, gsi : Nat, length : Nat]
        \cup [type : {"LocalApic"}, length : Nat]

\* A null pointer leads to no table; of the tables that are neither MADT nor
\* HPET only the signature counts.
NullTable == [at |-> "null"]
AcpiTables ==
    [at : {"low", "high"}, signature : {"APIC"}, lapic : Addresses, entries : Seq(MadtEntries)]
        \cup [at : {"low", "high"}, signature : {"HPET"}, address : Addresses]
        \cup [at : {"low", "high"}, signature : {"FACP"}]
        \cup {NullTable}
RootTables == [at : Addresses, valid : BOOLEAN, tables : Seq(AcpiTables)]
Rsdps == [address : Nat, revision : Nat, sum20 : BOOLEAN, sum36 : BOOLEAN,
          xsdt : RootTables \cup {NullTable}, rsdt : RootTables]
Firmwares == [ebda : Nat, rsdps : SUBSET Rsdps]

AcpiInfo == [local_apic_address |-> "high", io_apic_address |-> "high",
             hpet_address |-> "null", int_overrides |-> << >>]

-----------------------------------------------------------------------------
(* Finding the RSDP.  An Option is a set of at most one element. *)

\* Fault: the signature is enough.
validate_checksumAny(rsdp) == rsdp.sum36 \/ ~rsdp.sum36

\* The sum of the whole structure, also for revision 0, which has 20 bytes.
validate_checksum(rsdp) == rsdp.sum36

InRegion(addr, start, size) == start <= addr /\ addr < start + size /\ (addr - start) % 16 = 0

\* The first valid RSDP of a region, looked for at every 16th byte.
search_region(rsdps, start, size) ==
    LET hits == {r \in rsdps : InRegion(r.address, start, size) /\ validate_checksum(r)}
    IN  {r \in hits : \A other \in hits : r.address <= other.address}

\* The word at 0x40E is a segment; it is used as an address.
find(firmware) ==
    LET ebda == IF firmware.ebda = 0 THEN {}
                ELSE search_region(firmware.rsdps, firmware.ebda, 1024)
    IN  IF ebda # {} THEN ebda ELSE search_region(firmware.rsdps, 917504, 131072)

-----------------------------------------------------------------------------
(* The tables. *)

AddOverride(info, e) ==
    IF Len(info.int_overrides) < MAX_OVERRIDES
    THEN [info EXCEPT !.int_overrides = Append(@, [irq |-> e.irq, gsi |-> e.gsi])]
    ELSE info

\* One MADT entry; processors are only listed and other types are skipped.
MadtEntry(info, e) ==
    CASE e.type = "IoApic" -> [info EXCEPT !.io_apic_address = e.address]
      [] e.type = "InterruptSourceOverride" -> AddOverride(info, e)
      [] e.type = "LocalApicAddressOverride" -> [info EXCEPT !.local_apic_address = e.address]
      [] OTHER -> info

\* The walk handles an entry of length zero and stops there.
Walked(entries) ==
    LET stops == {i \in DOMAIN entries : entries[i].length = 0}
    IN  IF stops = {} THEN entries ELSE SubSeq(entries, 1, Min(stops))

parse_madt(info, madt) ==
    LET entries == Walked(madt.entries)
        after[k \in 0 .. Len(entries)] ==
            IF k = 0 THEN [info EXCEPT !.local_apic_address = madt.lapic]
            ELSE MadtEntry(after[k - 1], entries[k])
    IN  after[Len(entries)]

\* Entries that are null are skipped by the loops over the root table.
parse_table(info, table) ==
    IF table.at = "null" THEN info
    ELSE CASE table.signature = "APIC" -> parse_madt(info, table)
           [] table.signature = "HPET" -> [info EXCEPT !.hpet_address = table.address]
           [] OTHER -> info

Root(rsdp) == IF rsdp.revision >= 2 /\ rsdp.xsdt.at # "null" THEN rsdp.xsdt ELSE rsdp.rsdt

\* parse_xsdt and parse_rsdt: an error leaves the info as it is.
parse_root(info, root) ==
    LET after[k \in 0 .. Len(root.tables)] ==
            IF k = 0 THEN info ELSE parse_table(after[k - 1], root.tables[k])
    IN  IF root.valid THEN after[Len(root.tables)] ELSE info

\* AcpiParser::parse.  kernel_main takes the parser's info, filled in or not,
\* whether it succeeds or fails.
parse(firmware) ==
    LET rsdp == find(firmware)
    IN  IF rsdp = {} THEN AcpiInfo
        ELSE parse_root(AcpiInfo, Root(CHOOSE r \in rsdp : TRUE))

\* The tables parse reads are mapped up to the first one that is not.
TablesMapped(firmware) ==
    \A rsdp \in find(firmware) :
        LET root == Root(rsdp)
        IN  /\ root.at # "high"
            /\ root.valid => \A i \in DOMAIN root.tables : root.tables[i].at # "high"

-----------------------------------------------------------------------------
(* What the firmware says, independently of how the kernel looks for it. *)

InBios(rsdp) == InRegion(rsdp.address, 917504, 131072)

\* The RSDPs of the ACPI specification: in the first kilobyte of the EBDA,
\* whose segment the word at 0x40E is, or in the BIOS area.
PublishedRsdps(firmware) ==
    {r \in firmware.rsdps :
        /\ r.sum20 /\ (r.revision >= 2 => r.sum36)
        /\ InBios(r) \/ (firmware.ebda # 0 /\ InRegion(r.address, 16 * firmware.ebda, 1024))}

\* The address in the last element of a sequence that satisfies a test.
LastAddress(s, Test(_), default) ==
    LET hits == {i \in DOMAIN s : Test(s[i])}
    IN  IF hits = {} THEN default ELSE s[Max(hits)].address

IsMadt(t) == t.at # "null" /\ t.signature = "APIC"
IsHpet(t) == t.at # "null" /\ t.signature = "HPET"
IsIoApic(e) == e.type = "IoApic"
IsLocalApic(e) == e.type = "LocalApicAddressOverride"
IsOverride(e) == e.type = "InterruptSourceOverride"

\* The first overrides of a MADT, as many as there is room for: the kth is
\* the entry that is the kth of them.
Overrides(entries) ==
    LET moved == {i \in DOMAIN entries : IsOverride(entries[i])}
        kth(k) == CHOOSE i \in moved : Cardinality({j \in moved : j <= i}) = k
    IN  [k \in 1 .. Min({Cardinality(moved), MAX_OVERRIDES}) |->
            [irq |-> entries[kth(k)].irq, gsi |-> entries[kth(k)].gsi]]

\* What a MADT says, in entries that may override each other.
Described(madt, hpet) ==
    LET entries == Walked(madt.entries)
    IN  [local_apic_address |-> LastAddress(entries, IsLocalApic, madt.lapic),
         io_apic_address |-> LastAddress(entries, IsIoApic, "high"),
         hpet_address |-> hpet,
         int_overrides |-> Overrides(entries)]

\* The devices a list of tables describes.
DescribedDevices(tables) ==
    LET madts == {i \in DOMAIN tables : IsMadt(tables[i])}
        hpet == LastAddress(tables, IsHpet, "null")
    IN  IF madts = {} THEN [AcpiInfo EXCEPT !.hpet_address = hpet]
        ELSE Described(tables[Max(madts)], hpet)

\* What a kernel that uses this RSDP learns: the XSDT is preferred to the RSDT
\* from revision 2 on, and a root table that is not valid says nothing.
DescribedBy(rsdp) ==
    LET root == CASE rsdp.revision >= 2 /\ rsdp.xsdt.at # "null" -> rsdp.xsdt
                  [] OTHER -> rsdp.rsdt
    IN  IF root.valid THEN DescribedDevices(root.tables) ELSE AcpiInfo

\* The firmware is as the ACPI specification wants it: of what looks like an
\* RSDP one has the checksum, and there is one MADT.
Conforming(firmware) ==
    /\ \A r, s \in firmware.rsdps : r.sum36 /\ s.sum36 => r = s
    /\ \A r \in firmware.rsdps :
         LET tables == Root(r).tables
         IN  \A i, j \in DOMAIN tables : IsMadt(tables[i]) /\ IsMadt(tables[j]) => i = j
=============================================================================
