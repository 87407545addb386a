------------------------------ MODULE KernelBoot ------------------------------
(***************************************************************************)
(* kernel_main (src/src/lib.rs) bringing up the interrupt sources: the     *)
(* 8259 PIC, the ACPI tables that say where the other devices are, the     *)
(* PIT and HPET (src/src/timer/mod.rs), the Local APIC and the IO APIC     *)
(* (src/src/apic/mod.rs).  Interrupts are enabled by `sti` in phase 1, so  *)
(* ticks and key presses arrive at every later step of the boot, while the *)
(* controllers they come through are being exchanged under them.           *)
(*                                                                         *)
(* A platform is what the firmware says (ACPI) and what the machine has.   *)
(* An address is only known as null, "low" (inside the gigabyte boot.asm   *)
(* maps) or "high" (outside it).  A device that is absent ignores writes   *)
(* and reads as zero.  Handlers run with interrupts off (interrupt gates)  *)
(* and are one step here.  The first tick that finds preemption enabled    *)
(* takes the CPU from kernel_main; what later ones do to the tasks is in   *)
(* Scheduler, what the stubs do to the registers in InterruptFrames.       *)
(***************************************************************************)
EXTENDS Acpi

CONSTANT Platforms  \* the platforms to boot on

\* What a platform is: what its firmware says, and the devices it has.
ASSUME PlatformsAssumption ==
    Platforms \subseteq [acpi : Firmwares, lapic : BOOLEAN, ioapic : BOOLEAN, irq0_on_2 : BOOLEAN,
                         hpet : [period : BOOLEAN, legacy : BOOLEAN]]

VARIABLES platform,    \* the machine, fixed for the whole boot
          pc,          \* how far kernel_main has come; "switched": it lost the CPU
          fault,       \* the CPU is in the page fault handler
          irq_on,      \* the interrupt flag
          acpi_info,   \* what AcpiParser found
          pic,         \* the PIC: masked lines, requests, in service
          lapic,       \* the Local APIC: LINT0 and timer entry, requests, in service
          ioapic,      \* the IO APIC: the vector of each pin, 0 when masked
          legacy,      \* the HPET has replaced the PIT on IRQ 0
          USING_APIC,  \* where send_eoi sends the end of interrupt
          tick,        \* TICK_COUNT modulo 2
          key          \* the keyboard controller's output byte

cpu == <<pc, fault, irq_on>>
vars == <<platform, pc, fault, irq_on, acpi_info, pic, lapic, ioapic, legacy,
          USING_APIC, tick, key>>

Lines == {0, 1}
Pins == 0 .. 2
LAPIC_TIMER_VECTOR == 32
KEYBOARD_VECTOR == 33
Steps == {"core", "sti", "memory", "acpi", "pit", "hpet", "lvt", "svr", "using",
          "timer", "ioapic", "redirect", "disable_pic", "subsystems", "preemption",
          "complete", "shell", "switched"}

\* setup_page_tables maps the first gigabyte and nothing else.
Mapped(addr) == addr # "high"

(***************************************************************************)
(* The machine is switched on with the PIC reaching the CPU through LINT0  *)
(* and the IO APIC masked.                                                 *)
(***************************************************************************)
Init ==
    /\ platform \in Platforms
    /\ pc = "core"
    /\ fault = FALSE
    /\ irq_on = FALSE
    /\ acpi_info = AcpiInfo
    /\ pic = [mask |-> {}, irr |-> {}, isr |-> {}]
    /\ lapic = [lint0 |-> TRUE, timer |-> FALSE, irr |-> {}, isr |-> {}]
    /\ ioapic = [p \in Pins |-> 0]
    /\ legacy = FALSE
    /\ USING_APIC = FALSE
    /\ tick = FALSE
    /\ key = "idle"

(***************************************************************************)
(* kernel_main.                                                            *)
(***************************************************************************)
At(step) == pc = step /\ ~fault

Goto(step) == pc' = step /\ UNCHANGED <<platform, fault, tick, key>>

\* An access to an unmapped address faults; the handler prints and returns
\* to the same instruction.
PageFault ==
    /\ fault' = TRUE
    /\ UNCHANGED <<platform, pc, irq_on, acpi_info, pic, lapic, ioapic, legacy, USING_APIC, tick, key>>

Faults(addr) == ~Mapped(addr) /\ PageFault

rust_isr_handler_14 ==
    /\ fault
    /\ fault' = FALSE
    /\ UNCHANGED <<platform, pc, irq_on, acpi_info, pic, lapic, ioapic, legacy, USING_APIC, tick, key>>

\* GDT, init_pic and IDT, with interrupts off.
init_pic ==
    /\ At("core")
    /\ pic' = [pic EXCEPT !.mask = {}, !.isr = {}, !.irr = {}]
    /\ Goto("sti")
    /\ UNCHANGED <<irq_on, acpi_info, lapic, ioapic, legacy, USING_APIC>>

sti ==
    /\ At("sti")
    /\ irq_on' = TRUE
    /\ Goto("memory")
    /\ UNCHANGED <<acpi_info, pic, lapic, ioapic, legacy, USING_APIC>>

\* The PMM, the VMM and the heap.
memory ==
    /\ At("memory")
    /\ Goto("acpi")
    /\ UNCHANGED <<irq_on, acpi_info, pic, lapic, ioapic, legacy, USING_APIC>>

\* Reading a table above the mapped gigabyte faults as well.
acpi ==
    /\ At("acpi")
    /\ \/ /\ ~TablesMapped(platform.acpi)
          /\ PageFault
       \/ /\ TablesMapped(platform.acpi)
          /\ acpi_info' = parse(platform.acpi)
          /\ Goto("pit")
          /\ UNCHANGED <<irq_on, pic, lapic, ioapic, legacy, USING_APIC>>

Pit_init ==
    /\ At("pit")
    /\ Goto("hpet")
    /\ UNCHANGED <<irq_on, acpi_info, pic, lapic, ioapic, legacy, USING_APIC>>

\* Hpet::init: enables the HPET, in place of the PIT when it can.
Hpet_init ==
    /\ At("hpet")
    /\ \/ /\ Faults(acpi_info.hpet_address)
       \/ /\ Mapped(acpi_info.hpet_address)
          /\ legacy' = (acpi_info.hpet_address # "null" /\ platform.hpet.period /\ platform.hpet.legacy)
          /\ Goto("lvt")
          /\ UNCHANGED <<irq_on, acpi_info, pic, lapic, ioapic, USING_APIC>>

\* Fault: LINT0 is left open.
mask_lvtKeepsLint0 ==
    /\ At("lvt")
    /\ \/ Faults(acpi_info.local_apic_address)
       \/ /\ Mapped(acpi_info.local_apic_address)
          /\ lapic' = IF platform.lapic THEN [lapic EXCEPT !.timer = FALSE] ELSE lapic
          /\ Goto("svr")
          /\ UNCHANGED <<irq_on, acpi_info, pic, ioapic, legacy, USING_APIC>>

\* LocalApic::init masks every entry of the local vector table ...
mask_lvt ==
    /\ At("lvt")
    /\ \/ Faults(acpi_info.local_apic_address)
       \/ /\ Mapped(acpi_info.local_apic_address)
          /\ lapic' = IF platform.lapic THEN [lapic EXCEPT !.timer = FALSE, !.lint0 = FALSE] ELSE lapic
          /\ Goto("svr")
          /\ UNCHANGED <<irq_on, acpi_info, pic, ioapic, legacy, USING_APIC>>

\* Fault: the enable bit is waited for.
enable_svrWaits ==
    /\ At("svr")
    /\ platform.lapic
    /\ Goto("using")
    /\ UNCHANGED <<irq_on, acpi_info, pic, lapic, ioapic, legacy, USING_APIC>>

\* ... enables the APIC and reads back whether it is enabled ...
enable_svr ==
    /\ At("svr")
    /\ Goto(IF platform.lapic THEN "using" ELSE "subsystems")
    /\ UNCHANGED <<irq_on, acpi_info, pic, lapic, ioapic, legacy, USING_APIC>>

\* ... and only then has send_eoi use it.
using_apic ==
    /\ At("using")
    /\ USING_APIC' = TRUE
    /\ Goto("timer")
    /\ UNCHANGED <<irq_on, acpi_info, pic, lapic, ioapic, legacy>>

\* Fault: the entry is left masked, as after calibrate_timer.
setup_timerMasked ==
    /\ At("timer")
    /\ Goto(IF acpi_info.io_apic_address # "null" THEN "ioapic" ELSE "subsystems")
    /\ UNCHANGED <<irq_on, acpi_info, pic, lapic, ioapic, legacy, USING_APIC>>

\* LocalApic::setup_timer, then kernel_main's test for an IO APIC.
setup_timer ==
    /\ At("timer")
    /\ lapic' = [lapic EXCEPT !.timer = TRUE]
    /\ Goto(IF acpi_info.io_apic_address # "null" THEN "ioapic" ELSE "subsystems")
    /\ UNCHANGED <<irq_on, acpi_info, pic, ioapic, legacy, USING_APIC>>

\* IoApic::init masks every redirection entry ...
mask_redirects ==
    /\ At("ioapic")
    /\ \/ Faults(acpi_info.io_apic_address)
       \/ /\ Mapped(acpi_info.io_apic_address)
          /\ ioapic' = [p \in Pins |-> 0]
          /\ Goto("redirect")
          /\ UNCHANGED <<irq_on, acpi_info, pic, lapic, legacy, USING_APIC>>

\* Fault: the keyboard's entry is left masked.
redirectsTimerOnly(overrides) ==
    [p \in Pins |-> IF \E i \in DOMAIN overrides : overrides[i] = [irq |-> 0, gsi |-> p]
                    THEN LAPIC_TIMER_VECTOR ELSE 0]

\* ... and routes the keyboard, and the timer where the MADT moves IRQ 0.
redirects(overrides) ==
    [p \in Pins |-> IF \E i \in DOMAIN overrides : overrides[i] = [irq |-> 0, gsi |-> p]
                    THEN LAPIC_TIMER_VECTOR
                    ELSE IF p = 1 THEN KEYBOARD_VECTOR ELSE 0]

setup_irqs ==
    /\ At("redirect")
    /\ ioapic' = IF platform.ioapic THEN redirects(acpi_info.int_overrides) ELSE ioapic
    /\ Goto("disable_pic")
    /\ UNCHANGED <<irq_on, acpi_info, pic, lapic, legacy, USING_APIC>>

disable_pic ==
    /\ At("disable_pic")
    /\ pic' = [pic EXCEPT !.mask = Lines]
    /\ Goto("subsystems")
    /\ UNCHANGED <<irq_on, acpi_info, lapic, ioapic, legacy, USING_APIC>>

\* VFS, modules, scheduler with the idle task, syscalls.
subsystems ==
    /\ At("subsystems")
    /\ Goto("preemption")
    /\ UNCHANGED <<irq_on, acpi_info, pic, lapic, ioapic, legacy, USING_APIC>>

enable_preemption ==
    /\ At("preemption")
    /\ Goto("complete")
    /\ UNCHANGED <<irq_on, acpi_info, pic, lapic, ioapic, legacy, USING_APIC>>

\* The lines of "Boot Complete", and the call of shell.
boot_complete ==
    /\ At("complete")
    /\ Goto("shell")
    /\ UNCHANGED <<irq_on, acpi_info, pic, lapic, ioapic, legacy, USING_APIC>>

kernel_main ==
    \/ init_pic \/ sti \/ memory \/ acpi \/ Pit_init \/ Hpet_init \/ mask_lvt \/ enable_svr
    \/ using_apic \/ setup_timer \/ mask_redirects \/ setup_irqs \/ disable_pic
    \/ subsystems \/ enable_preemption \/ boot_complete \/ rust_isr_handler_14

(***************************************************************************)
(* The devices.  A rising IRQ is latched by the PIC, masked or not; an IO  *)
(* APIC pin ignores it while it is masked.                                 *)
(***************************************************************************)
\* The pin IRQ i is wired to: the one the MADT says, or pin i.
Pin(irq) == IF irq = 0 /\ platform.irq0_on_2 THEN 2 ELSE irq

Raise(irq) ==
    /\ pic' = [pic EXCEPT !.irr = @ \cup {irq}]
    /\ lapic' = IF ioapic[Pin(irq)] # 0
                THEN [lapic EXCEPT !.irr = @ \cup {ioapic[Pin(irq)]}] ELSE lapic
    /\ UNCHANGED <<platform, cpu, acpi_info, ioapic, legacy, USING_APIC, tick>>

PitFires == ~legacy /\ Raise(0) /\ UNCHANGED key

LapicTimerFires ==
    /\ lapic.timer
    /\ lapic' = [lapic EXCEPT !.irr = @ \cup {LAPIC_TIMER_VECTOR}]
    /\ UNCHANGED <<platform, cpu, acpi_info, pic, ioapic, legacy, USING_APIC, tick, key>>

\* kernel_main has left the interrupt controllers as they stay.
HandedOver == pc \in {"subsystems", "preemption", "complete", "shell", "switched"}

\* The keyboard raises IRQ 1 for a byte and not again until it is read.
KeyPress ==
    /\ key = "idle"
    /\ key' = IF HandedOver THEN "pressed" ELSE "early"
    /\ Raise(1)

(***************************************************************************)
(* The handlers.  Vector 32 is timer_isr; vector 33 enters the stub of the *)
(* table's previous slot and so rust_isr_handler's timer case.  Both count *)
(* a tick and end the interrupt; the keyboard's byte stays unread.         *)
(***************************************************************************)
on_timer_tick == tick' = ~tick

Taken(vector) == key' = IF vector = KEYBOARD_VECTOR THEN "taken" ELSE key

\* What send_eoi leaves in service at each controller.
send_eoi(picIsr, lapicIsr) ==
    IF USING_APIC
    THEN /\ pic' = [pic EXCEPT !.irr = @ \ picIsr, !.isr = picIsr]
         /\ lapic' = [lapic EXCEPT !.irr = @ \ lapicIsr, !.isr = {}]
    ELSE /\ pic' = [pic EXCEPT !.irr = @ \ picIsr, !.isr = {}]
         /\ lapic' = [lapic EXCEPT !.irr = @ \ lapicIsr, !.isr = lapicIsr]

is_preemption_enabled == pc \in {"complete", "shell"}

\* No task is current, so the context of kernel_main is saved nowhere, and the
\* idle task is ready.  The iretq into its frame faults with interrupts off,
\* and the handler of that fault returns to it (InterruptFrames).
preempt_schedule ==
    /\ pc' = "switched"
    /\ irq_on' = FALSE
    /\ UNCHANGED fault

rust_timer_handler(picIsr, lapicIsr) ==
    /\ on_timer_tick
    /\ send_eoi(picIsr, lapicIsr)
    /\ IF is_preemption_enabled THEN preempt_schedule ELSE UNCHANGED cpu

\* The timer case of rust_isr_handler.  Scheduler::tick returns at once: no
\* task is current and none was killed, so need_reschedule is false.
rust_isr_handler_32(picIsr, lapicIsr) ==
    /\ on_timer_tick
    /\ send_eoi(picIsr, lapicIsr)
    /\ UNCHANGED cpu

Handler(vector, picIsr, lapicIsr) ==
    IF vector = LAPIC_TIMER_VECTOR
    THEN rust_timer_handler(picIsr, lapicIsr)
    ELSE rust_isr_handler_32(picIsr, lapicIsr)

\* The PIC interrupts with its lowest pending line below those in service.
PicInterrupt(line) ==
    /\ irq_on /\ ~fault /\ lapic.lint0
    /\ line \in pic.irr \ pic.mask
    /\ \A l \in (pic.irr \ pic.mask) \cup pic.isr : line < l \/ (l = line /\ l \notin pic.isr)
    /\ Taken(32 + line)
    /\ Handler(32 + line, pic.isr \cup {line}, lapic.isr)
    /\ UNCHANGED <<platform, acpi_info, ioapic, legacy, USING_APIC>>

\* The Local APIC interrupts with its highest pending vector.
LapicInterrupt(vector) ==
    /\ irq_on /\ ~fault
    /\ vector \in lapic.irr
    /\ lapic.isr = {}
    /\ vector = Max(lapic.irr)
    /\ Taken(vector)
    /\ Handler(vector, pic.isr, {vector})
    /\ UNCHANGED <<platform, acpi_info, ioapic, legacy, USING_APIC>>

Next ==
    \/ kernel_main
    \/ PitFires \/ LapicTimerFires \/ KeyPress
    \/ \E line \in Lines : PicInterrupt(line)
    \/ \E vector \in {LAPIC_TIMER_VECTOR, KEYBOARD_VECTOR} : LapicInterrupt(vector)

\* kernel_main goes on, running timers keep firing, and a request that can
\* be taken again and again is taken: a handler is short against a period.
Fairness ==
    /\ WF_vars(kernel_main)
    /\ WF_vars(PitFires) /\ WF_vars(LapicTimerFires)
    /\ \A line \in Lines : SF_vars(PicInterrupt(line))
    /\ \A vector \in {LAPIC_TIMER_VECTOR, KEYBOARD_VECTOR} : SF_vars(LapicInterrupt(vector))

Spec == Init /\ [][Next]_vars /\ Fairness

-----------------------------------------------------------------------------
\* Every variable keeps its type; parse_madt never stores more interrupt
\* overrides than the array of AcpiInfo holds.
TypeOK ==
    /\ platform \in Platforms
    /\ pc \in Steps /\ {fault, irq_on, legacy, USING_APIC, tick} \subseteq BOOLEAN
    /\ acpi_info.local_apic_address \in Addresses
    /\ acpi_info.io_apic_address \in Addresses
    /\ acpi_info.hpet_address \in Addresses
    /\ Len(acpi_info.int_overrides) <= MAX_OVERRIDES
    /\ pic \in [mask : SUBSET Lines, irr : SUBSET Lines, isr : SUBSET Lines]
    /\ lapic \in [lint0 : BOOLEAN, timer : BOOLEAN, irr : SUBSET {32, 33}, isr : SUBSET {32, 33}]
    /\ ioapic \in [Pins -> {0, 32, 33}]
    /\ key \in {"idle", "early", "pressed", "taken"}

\* send_eoi picks the controller by USING_APIC alone.  However interrupts
\* fall between the steps that mask LINT0, switch USING_APIC and disable the
\* PIC, the end of interrupt always goes to the controller that delivered
\* it: after a handler nothing is left in service at either.
EoiReachesController == pic.isr = {} /\ lapic.isr = {}

\* The tables and the devices kernel_main will touch on this platform are in
\* mapped memory.
DevicesMapped ==
    LET info == parse(platform.acpi)
    IN  /\ TablesMapped(platform.acpi)
        /\ Mapped(info.hpet_address) /\ Mapped(info.local_apic_address)
        /\ platform.lapic => Mapped(info.io_apic_address)

\* On every platform whose ACPI tables and devices boot.asm has mapped,
\* kernel_main completes every phase up to enable_preemption, whatever
\* interrupts arrive on the way and whichever controllers and timers the
\* machine lacks.
BootCompletes == DevicesMapped => <>(pc = "complete")

\* Rsdp::find uses the EBDA's segment as an address and sums 36 bytes; still,
\* the RSDP of revision 2 that conforming firmware has in the BIOS area is
\* found whatever else looks like one, its root table and the tables behind it
\* are walked past null entries and up to a broken one, and what kernel_main
\* then configures the timers and the APICs from is what those tables say.
FirmwareIsUsed ==
    Conforming(platform.acpi) /\ pc \notin {"core", "sti", "memory", "acpi"} =>
        \A r \in PublishedRsdps(platform.acpi) :
            InBios(r) /\ r.revision >= 2 => acpi_info = DescribedBy(r)

\* Hpet::init will take IRQ 0 away from the PIT.
HpetReplacesPit ==
    /\ TablesMapped(platform.acpi) /\ parse(platform.acpi).hpet_address = "low"
    /\ platform.hpet.period /\ platform.hpet.legacy

\* The Local APIC's timer will be started.
LapicTimerStarts == platform.lapic /\ Mapped(parse(platform.acpi).local_apic_address)

\* TICK_COUNT never stops before a tick has switched to the first task: while
\* kernel_main boots, while it is stuck at a fault, and while the shell waits,
\* some timer still reaches on_timer_tick, unless an HPET has silenced the PIT
\* and the Local APIC, the only other timer the code starts, is not there.
TicksContinue ==
    (HpetReplacesPit => LapicTimerStarts) => <>(pc = "switched") \/ ([]<>tick /\ []<>~tick)

\* The Local APIC is in use and the IO APIC is not, or a MADT moves the timer
\* to the keyboard's pin.
KeyboardUnrouted ==
    /\ platform.lapic
    /\ \/ ~platform.ioapic \/ acpi_info.io_apic_address = "null"
       \/ \E i \in DOMAIN acpi_info.int_overrides : acpi_info.int_overrides[i] = [irq |-> 0, gsi |-> 1]

\* The keyboard's request is pending where it can interrupt the CPU.
KeyRequested ==
    \/ lapic.lint0 /\ 1 \in pic.irr \ pic.mask
    \/ KEYBOARD_VECTOR \in lapic.irr

\* No key is lost once the controllers have been exchanged: from its press
\* until the CPU takes it, the request is pending at a controller that is
\* connected to the CPU, whatever was pending, masked or in service when the
\* PIC was disabled, except where the keyboard's pin is not routed.
KeysReachCpu == key = "pressed" /\ ~KeyboardUnrouted => KeyRequested

-----------------------------------------------------------------------------
(* What comments say and the code does not do; each is violated. *)

\* "Search for RSDP in BIOS memory regions: 1. EBDA (Extended BIOS Data Area) -
\* first 1KB 2. BIOS ROM area 0xE0000 - 0xFFFFF" (Rsdp::find): an RSDP that is
\* in either is used.
RsdpIsFound ==
    pc \notin {"core", "sti", "memory", "acpi"} =>
        \A r \in PublishedRsdps(platform.acpi) : acpi_info = DescribedBy(r)

\* "Enable IRQ 0 (timer) and IRQ 1 (keyboard) only" (init_pic): from then on a
\* key pressed while the kernel is booting is taken, or is still requested when
\* the controllers have been exchanged.
EarlyKeysArrive == key = "early" /\ HandedOver /\ ~KeyboardUnrouted => KeyRequested

\* The timers whose interrupts now reach the CPU as ticks.
TimerSources ==
    {t \in {"PIC", "IO APIC", "LAPIC"} :
        \/ t = "PIC" /\ ~legacy /\ lapic.lint0 /\ 0 \notin pic.mask
        \/ t = "IO APIC" /\ ~legacy /\ ioapic[Pin(0)] = LAPIC_TIMER_VECTOR
        \/ t = "LAPIC" /\ lapic.timer}

\* "100 Hz = 10ms preemption interval" (timer::init): the scheduler's tick
\* comes at the 100 Hz of a single timer; once the controllers are set up, not
\* more than one 100 Hz source is connected to the tick.
OneTimerSource == HandedOver => Cardinality(TimerSources) <= 1

\* "APIC not available, using legacy PIC" (kernel_main), "Legacy PIC fallback"
\* (README): a machine without a Local APIC the kernel can reach boots all the
\* same.
FallsBackToPic == <>(pc = "complete")

\* "No IO APIC found, using legacy PIC" (IoApic::init): the keyboard's interrupt
\* then comes through the PIC.
KeysFallBackToPic == key = "pressed" => KeyRequested

\* "All subsystems online." (kernel_main): where every phase completes, the
\* shell is started.
ShellStarts == DevicesMapped => <>(pc = "shell")
=============================================================================
