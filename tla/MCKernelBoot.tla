---------------------------- MODULE MCKernelBoot ----------------------------
(***************************************************************************)
(* Machines for KernelBoot: a PC with everything, one whose Local APIC is  *)
(* off, one without HPET, one with neither ACPI nor APICs, and the ones    *)
(* the findings are about.                                                 *)
(***************************************************************************)
EXTENDS KernelBoot

IoApicAt(a) == [type |-> "IoApic", address |-> a, length |-> 12]
LocalApicAt(a) == [type |-> "LocalApicAddressOverride", address |-> a, length |-> 12]
Cpu == [type |-> "LocalApic", length |-> 8]
Moved(i, g) == [type |-> "InterruptSourceOverride", irq |-> i, gsi |-> g, length |-> 10]
Broken(e) == [e EXCEPT !.length = 0]

Madt(a, es) == [at |-> "low", signature |-> "APIC", lapic |-> a, entries |-> es]
HpetAt(a) == [at |-> "low", signature |-> "HPET", address |-> a]
Fadt == [at |-> "low", signature |-> "FACP"]
NoTable == NullTable
OutOfReach(t) == [t EXCEPT !.at = "high"]

RootTable(ts) == [at |-> "low", valid |-> TRUE, tables |-> ts]
Invalid(root) == [root EXCEPT !.valid = FALSE]

\* RSDPs of revision 2 and 0, and what a search may take for one.
Rsdp2(addr, xsdt, rsdt) == [address |-> addr, revision |-> 2, sum20 |-> TRUE, sum36 |-> TRUE,
                            xsdt |-> xsdt, rsdt |-> rsdt]
Rsdp0(addr, rsdt, lucky) == [address |-> addr, revision |-> 0, sum20 |-> TRUE, sum36 |-> lucky,
                             xsdt |-> NoTable, rsdt |-> rsdt]
Decoy(addr) == [Rsdp2(addr, RootTable(<< >>), RootTable(<< >>))
                    EXCEPT !.sum20 = FALSE, !.sum36 = FALSE]

\* The BIOS area is 917504 (0xE0000) .. 1048575, the EBDA usually begins at
\* 654336 (0x9FC00, segment 40896).
Firmware(rsdp) == [ebda |-> 40896, rsdps |-> {rsdp, Decoy(40912), Decoy(917504)}]

\* The same tables through an XSDT, at the end of the BIOS area, through an
\* RSDT for want of an XSDT, and through an RSDP of revision 0.
Acpi(ts) == Firmware(Rsdp2(917536, RootTable(ts), RootTable(<< >>)))
AcpiRsdt(ts) == Firmware(Rsdp2(1048560, NoTable, RootTable(<<NoTable>> \o ts)))
Acpi1(ts) == [Firmware(Rsdp0(917520, RootTable(ts), TRUE)) EXCEPT !.ebda = 0]

NoAcpi == [ebda |-> 0, rsdps |-> {}]
BadRoot == Firmware(Rsdp2(917520, Invalid(RootTable(<<HpetAt("low")>>)), RootTable(<< >>)))

GoodHpet == [period |-> TRUE, legacy |-> TRUE]
PlainHpet == [period |-> TRUE, legacy |-> FALSE]
BadHpet == [period |-> FALSE, legacy |-> TRUE]

Machine(tables, hasLapic, hasIoApic, timer, moved) ==
    [acpi |-> tables, lapic |-> hasLapic, ioapic |-> hasIoApic, hpet |-> timer,
     irq0_on_2 |-> moved]

\* The MADT gives the Local APIC's address or overrides it, moves IRQ 0 or
\* other lines, or ends early at an entry of length zero.
Madts == {<<Cpu, IoApicAt("low")>>,
          <<LocalApicAt("low"), IoApicAt("low"), Moved(0, 2)>>,
          <<IoApicAt("low"), Moved(0, 2), Moved(9, 0), Moved(9, 2)>>,
          <<IoApicAt("low"), Broken(Cpu), LocalApicAt("high")>>}

\* Machines whose devices are all inside the mapped gigabyte.
WithApic ==
    {Machine(Acpi(<<Fadt, Madt("low", es), HpetAt("low")>>), TRUE, TRUE, h, \E i \in DOMAIN es : es[i].type = "InterruptSourceOverride")
        : es \in Madts, h \in {GoodHpet, PlainHpet, BadHpet}}
WithoutHpet == {Machine(Acpi(<<Madt("low", es)>>), TRUE, TRUE, BadHpet, FALSE)
                    : es \in {<<Cpu, IoApicAt("low")>>}}
ApicOff == {Machine(tables, FALSE, TRUE, h, FALSE)
                : tables \in {AcpiRsdt(<<Madt("low", <<IoApicAt("low")>>), HpetAt("low")>>),
                              Acpi1(<<Madt("low", <<IoApicAt("low")>>), NoTable, HpetAt("low")>>)},
                  h \in {PlainHpet, BadHpet}}
MCReachable == WithApic \cup WithoutHpet \cup ApicOff

\* A machine whose tables are not found or not valid, or give the addresses a
\* PC usually has, 0xFEE00000 and 0xFEC00000.
UsualTables == Acpi(<<Fadt, Madt("high", <<Cpu, IoApicAt("high"), Moved(0, 2)>>)>>)
MCDefaults == {Machine(a, TRUE, TRUE, GoodHpet, FALSE) : a \in {NoAcpi, BadRoot, UsualTables}}

\* A machine whose IRQ 0 is wired to pin 2, as the MADT says.
MCMovedTimer == {Machine(Acpi(<<Madt("low", <<IoApicAt("low"), Moved(0, 2)>>)>>), TRUE, TRUE, BadHpet, TRUE)}

\* A machine with a Local APIC and no IO APIC.
MCNoIoApic == {Machine(Acpi(<<Madt("low", <<Cpu, IoApicAt("null")>>)>>), TRUE, FALSE, BadHpet, FALSE)}

\* A machine with an HPET whose Local APIC cannot be enabled.
MCHpetOnly == {Machine(Acpi(<<Madt("low", <<IoApicAt("low")>>), HpetAt("low")>>), FALSE, TRUE, GoodHpet, FALSE)}

\* Machines with one device outside the mapped gigabyte.
HighHpet == Machine(Acpi(<<Madt("low", <<IoApicAt("low")>>), HpetAt("high")>>), TRUE, TRUE, GoodHpet, FALSE)
HighIoApic == Machine(Acpi(<<Madt("low", <<IoApicAt("high")>>)>>), TRUE, TRUE, GoodHpet, FALSE)

\* Machines whose tables are outside it.
HighTable == Machine(Acpi(<<OutOfReach(Madt("low", << >>))>>), TRUE, TRUE, GoodHpet, FALSE)
HighRoot == Machine(Firmware(Rsdp2(917520, OutOfReach(RootTable(<< >>)), RootTable(<< >>))),
                    TRUE, TRUE, GoodHpet, FALSE)

\* Machines whose RSDP is in the EBDA, or of revision 0 with other bytes than
\* zeros after it.
Tables == RootTable(<<Madt("low", <<IoApicAt("low")>>)>>)
MCOther == {Machine(Firmware(r), TRUE, TRUE, BadHpet, FALSE)
                : r \in {Rsdp2(654352, Tables, Tables), Rsdp0(917520, Tables, FALSE)}}

MCAll == MCReachable \cup MCDefaults \cup MCMovedTimer \cup MCNoIoApic \cup MCHpetOnly
             \cup MCOther \cup {HighHpet, HighIoApic, HighTable, HighRoot}
=============================================================================
