# TLA+ verification of DeltaOS

DeltaOS is a small x86_64 kernel: Rust (`src/src`), assembly for the boot and
the interrupt stubs (`src/boot`, `src/src/sched/context_switch.asm`), one CPU,
no user mode. What makes it hard to test is what makes any kernel hard to
test: interrupts arrive between any two instructions, allocators run for
ever on bounded tables, and the boot replaces the interrupt controllers while
interrupts are enabled. These modules model those parts, TLC checks them on
small instances, and TLAPS proves the most important invariants for all
instances.

## The system

| Part | State | Operations | Interacts with | Hard behaviour |
|:--|:--|:--|:--|:--|
| PMM (`memory/pmm.rs`) | bitmap, free counter | `alloc_page(s)`, `free_page`, `free_pages_range`, `reserve_range` | boot reserves ranges | rounding, bounds of the bitmap, a range freed in part |
| VMM (`memory/vmm.rs`) | page tables, table pool, TLB | `map_page`, `unmap_page`, `translate`, `update_flags`, `identity_map` | tables of `boot.asm` | huge pages, pool exhausted half way, stale TLB |
| Heap (`memory/heap.rs`) | free lists per class, bump pointer | `alloc`, `dealloc` | everything that allocates | class full, page and bump share one region |
| Scheduler (`sched/scheduler.rs`, `task.rs`) | tasks, ready queue, current task, preemption flag | creation, `tick`, `schedule`, `preempt_schedule`, block, unblock, terminate, signals, bg, fg, cleanup | timer handlers, shell | every order of the above |
| Tasks of the running kernel (`lib.rs`, `task.rs`, `interrupts.rs`) | the context that executes, saved contexts, task mutexes, stacks | `run`, `kill`, `ps`, `bg`, `fg`, the timer | scheduler | the timer between any two locks of a command |
| Interrupt path (`long_mode.asm`, `context_switch.asm`, `idt.rs`, `interrupts.rs`) | registers, stack, in-service lines | stubs, handlers, EOI | scheduler, keyboard | nesting, frame layouts |
| Keyboard and shell (`interrupts.rs`, `lib.rs`) | ring buffer, modifiers, edit line | scancode handler, read loop | each other | interrupt between load and store |
| Boot (`lib.rs`, `acpi`, `apic`, `timer`) | ACPI tables, PIC, Local APIC, IO APIC, HPET, `USING_APIC` | phases of `kernel_main` | all interrupts | controllers exchanged under running interrupts, tables of every shape |
| VFS (`fs/vfs.rs`) | mount table, descriptors | mount, unmount, open, read, write, close | file systems | mounts that nest, unmount under open files |
| Module manager (`module/manager.rs`) | module table, next id | load, init, unload | | ids and names over time |
| NTFS (`fs/ntfs.rs`) | attributes, run list, read position | `parse_mft_record`, `from_mft_record`, `read`, `parse_run_list`, `read_from_runs` | VFS | records cut off, signed variable-width fields, offsets |
| System calls, consoles, GDT, C drivers, user programs | | | | see "Not modelled" |

The repository's ACPI and APIC sources do not type-check as they stand (some
integer casts are missing). They are modelled by what they evidently compute.

## Modules

| Module | Models | How state and actions correspond |
|:--|:--|:--|
| `PageAllocator` | what a page allocator promises | a set of pages in use; take a free run, refuse, give back, reserve |
| `Pmm` | `Pmm` | `bitmap` is the set of set bits, `free_page_count` the counter, `reply` the last result; one action per method, one step per call (the methods take `&mut self`) |
| `PmmScan` | `Pmm` with the loop of `alloc_pages` | `i`, `found_start`, `consecutive` are the locals; one action per iteration, the other calls in between |
| `AddressSpace` | what an address space promises | a partial map from pages to frames and flags |
| `Vmm` | `Vmm`, `setup_page_tables` | `mem` holds the tables, `NEXT_PAGE_ADDR` is the next frame of the pool, and a TLB may load any valid translation at any time |
| `SlabHeap` | `SlabHeap` and `GlobalAlloc` | free lists as sequences, `bump_offset`, and the set of blocks held by callers |
| `Scheduler` | `Scheduler` and `Task` | one function per task field, `ready_queue` as a sequence of ids (duplicates possible), one action per method, one step per call: this is the contract of the methods, which take `&mut self`. `Spec` allows them in any order. The kernel breaks the contract, since the timer handler enters the scheduler in the middle of a command; `KernelTasks` cuts the calls the kernel makes where that can happen |
| `KernelTasks` | the shell's task commands, the timer, task mutexes, `alloc_stack`, composed with `Scheduler` | `cpu` is the context that executes, `saved` what each `saved_rsp` leads to, `held` the mutexes the shell has locked, `command` its place in a command; the commands are cut wherever they lock, unlock or change what the handler reads, `VecDeque::retain` entry by entry |
| `InterruptFrames` | stubs, IDT, handlers | registers and stack hold symbolic values; the stubs are programs executed one instruction at a time; `shadow` remembers what was interrupted (history, used by properties only) |
| `KeyFifo` | what a key buffer promises | a bounded FIFO |
| `Keyboard` | ring buffer, scancode handler, shell loop | one action per load or store of the shared indices; the timer takes the CPU from the shell for ever |
| `Acpi` | `AcpiParser` and `Rsdp::find` | operators from what the firmware left in memory to the `AcpiInfo` the kernel works with |
| `KernelBoot` | `kernel_main` and the controllers | `pc` is the phase; `platform` is the machine and its tables; a register access outside the mapped gigabyte sets `fault`; an interrupt runs the handler its vector has in the IDT, and the timer's switches to a task (`pc` becomes `switched`, interrupts off) once preemption is enabled |
| `NtfsRuns` | `parse_run_list`, `read_from_runs` | a list is packed into the on-disk form and parsed back, a run per step; bytes have base `NIBBLE` squared and words `WORD` bytes |
| `NtfsFile` | `parse_mft_record`, `from_mft_record`, `read`, composed with `NtfsRuns` | a record is a sequence of attributes laid out as the format says; `length` is how much of it the buffer holds; a buffer without the signature is refused; one action per attribute |
| `HandleTable` | what a table of handles promises | an id means one object from issue to retirement and nothing afterwards |
| `Vfs` | `Vfs` and `FileDescriptor` | `mount_points`, `open_files`, `next_fd`; paths are sequences of characters because the code compares strings |
| `ModuleManager` | `ModuleManager` | `modules`, `NEXT_MODULE_ID` |
| `KernelServices` | `KERNEL_STATE` | the two tables side by side |
| `MC...` | constants for TLC | |
| `...Proofs` | theorems | the proofs for `KernelTasks` are in `SchedulerProofs`, those for `Acpi` in `KernelBootProofs`, those for `Keyboard`, `Vfs` and `ModuleManager` in `KernelServicesProofs` |

`Fault:` comments mark mutated forms of a definition. They are not used by any
specification. Each property of a passing run has one that breaks it.

Numbers are scaled: pages of 2 bytes, tables of 2 entries, a ring of 3 slots.
In `KernelBoot` addresses are only null, low (mapped) or high, and a device
that is absent reads as zero and ignores writes.

## Runs

Passing runs:

| Run | Checks | Shows |
|:--|:--|:--|
| `pmm` | `CountMatchesBitmap`, `GrantCanBeFreed`, `ReserveCoversRange`, `ScanImplementsPmm`, `Refinement`, `ScanReturns` | the counter never drifts from the bitmap, grants can be returned, reservations cover their range; the loop of `alloc_pages` is first fit and ends; the allocator with its loop implements `Pmm`, which implements `PageAllocator` |
| `scheduler` | `SingleRunning`, `ReadyIsQueued`, `DispatchIsHighest` | one owner of the CPU, no lost wake-up and priority respected, for every order of the public calls, with signals that stop and kill tasks in the middle of a tick |
| `kernel_tasks` | `CurrentExecutes`, `NoSelfDeadlock`, `SpinsOnlyInShell`, `QueueIsExact`, `QueuedTasksRun`, `KillIsFinal` | with commands cut short anywhere by the timer: the current task executes on a stack of its own, no lock is taken twice, the handler waits for a lock only at the interrupt that takes the CPU from the shell, the queue holds every ready task once and nothing else but the victim of a kill that is not through `retain`, a killed task stays dead, and no cut-off command strands another task |
| `interrupt_frames` | `ContextIsRead`, `Acknowledged`, `Transparent` | all 32 exceptions, `int 0x80`, two lines and spurious vectors, nested twice, leave the interrupted code as it was |
| `keyboard` | `NoEmptyRead`, `RingIsFifo`, `KeysAreKept` | the ring implements `KeyFifo`, is not read empty, and drops a key only when it is full |
| `slab_heap` | `NoOverlap`, `BlocksConserved` | live blocks are disjoint, no block is lost or in two places |
| `vmm` | `TablesAreATree`, `TlbCoherent`, `BootMapIntact`, `Refinement` | outside the boot mapping the tables implement `AddressSpace`, even when the pool runs out in the middle |
| `boot` | `EoiReachesController`, `FirmwareIsUsed`, `KeysReachCpu`, `BootCompletes`, `TicksContinue` | an interrupt is ended where it was delivered, on all machines; the tables are used as the firmware wrote them; a key pressed after the hand-over has its request pending where it can interrupt the CPU, unless there is a Local APIC and the IO APIC is not used, or the MADT gives the timer the keyboard's pin; where tables and devices are mapped, `kernel_main` gets through every phase up to `enable_preemption`; ticks go on until one of them switches to a task, unless an HPET silences the PIT and there is no Local APIC |
| `ntfs` | `RecordInvertsLayout`, `ReadServesFile`, `LoopsEnd` | the walk and the decoder invert the format for whole and cut-off records, reads serve the unnamed stream inside buffer and file, loops end |
| `services` | `OpenResolvesByComponent`, `OneModulePerName`, `DescriptorsAreHandles`, `ModulesAreHandles` | paths that do not run into a mount inside a name lead to the innermost mount; descriptors and module ids implement `HandleTable` |

What stands between these components in the kernel as it is:

* The first tick after `enable_preemption` takes the CPU from `kernel_main` and
  the shell, whose context is saved nowhere (`ShellStarts`, `ShellIsScheduled`).
  So no run claims that the shell starts, goes on or reads a key: `boot` claims
  what holds until that tick, `kernel_tasks` what holds of the scheduler and its
  tasks wherever the tick falls, and `keyboard` what holds of the ring for as
  long as the shell has the CPU.
* The switch that tick makes ends in a fault with interrupts off
  (`FirstSwitchEnters`). `boot` ends there. `kernel_tasks` is about the
  scheduler behind it and takes the switch to succeed.
* The keyboard's interrupt enters the timer's stub (`LineReachesItsHandler`).
  `boot` models that; `keyboard` and `kernel_tasks` are about what lies behind
  it and take the interrupt to reach its handler.

The runs that refute what a comment says:

| Run | Property | What TLC shows |
|:--|:--|:--|
| `interrupt_line` | `LineReachesItsHandler` | the keyboard's vector enters the timer's stub |
| `shell_scheduled` | `ShellIsScheduled` | the first preemption saves the shell's context nowhere, so the shell, by `scheduler.rs:387` one of the tasks, never gets the CPU back |

Other places where the code does not do what a comment or `src/README.md`
says. Each has a configuration with which TLC refutes the property; where one
refutes several, `tlc -continue` goes on after the first:

| Configuration | Property | What TLC shows |
|:--|:--|:--|
| `SchedulerRefuted.cfg` | `PickIsComplete` | a ready Low task behind a head that is not ready is not picked |
| `SchedulerRefuted.cfg` | `KilledStaysDead` | `preempt_schedule` revives a current task that `terminate_task` or a signal has terminated (in the kernel only the shell calls `terminate_task`, while no task is current: there `KillIsFinal` holds) |
| `KernelTasksRefuted.cfg` | `HandlerReturns` | the timer interrupts a command that holds a task's mutex and waits for it with interrupts off |
| `KernelTasksRefuted.cfg` | `StacksReserved` | stacks are handed out beyond the 4 MB that `kernel_main` reserves |
| `SchedulerRefuted.cfg` | `FgResumes` | `fg` of a stopped task does not resume it |
| `KernelTasksRefuted.cfg` | `OthersCanBeKilled` | task 2 cannot be killed though it is neither shell nor idle |
| `SchedulerRefuted.cfg` | `QuantumIsRespected` | every tick preempts, whatever the quantum |
| `InterruptFirstSwitch.cfg` | `FirstSwitchEnters` | the frame `setup_initial_stack` builds is two words longer than what `timer_isr` pops, so `iretq` takes the vector and error code for `rip` and `cs` |
| `KeyboardRefuted.cfg` | `CapsLockCapitalises` | CapsLock has no effect |
| `KeyboardRefuted.cfg` | `KeysAreRead` | a key comes between the check and the `hlt`, and the interrupt that ends the `hlt` switches to a task: the key is never read |
| `SlabHeapRefuted.cfg` | `AlignmentHonoured` | a slab page taken after an odd-sized bump block is misaligned |
| `SlabHeapRefuted.cfg` | `FallsBackToBump` | a class without a page fails though the bump region has room |
| `VmmBoot.cfg` | `MapTakesEffect` | `map_page` under a huge page reports success and changes nothing |
| `KernelBootRefuted.cfg` | `OneTimerSource` | where the MADT moves IRQ 0, PIT and Local APIC timer both tick |
| `KernelBootRefuted.cfg` | `EarlyKeysArrive` | a key during the hand-over is lost and blocks the next ones |
| `KernelBootRefuted.cfg` | `RsdpIsFound` | the segment at 0x40E is used as an address, and a revision 0 structure is summed over 36 bytes, so a valid one is missed |
| `KernelBootRefuted.cfg` | `FallsBackToPic` | an unmapped Local APIC, also at the usual address 0xFEE00000, ends in an endless page fault, against the "Legacy PIC fallback" of `src/README.md:41` and the warning of `lib.rs:924` |
| `KernelBootRefuted.cfg` | `KeysFallBackToPic` | "No IO APIC found, using legacy PIC" (`apic/mod.rs:322`) comes after LINT0 was masked, so the keyboard cannot interrupt |
| `KernelBootRefuted.cfg` | `ShellStarts` | a tick between `enable_preemption` and `shell()` takes the CPU, and the boot never reaches the shell |
| `KernelServicesPrefix.cfg` | `OpenResolvesEveryPath` | a mount at `/a` captures `/ab` |
| `NtfsFileRefuted.cfg` | `ReadIsComplete` | file positions are compared with disk positions |
| `NtfsFileRefuted.cfg` | `SizeIsOfData` | a named stream after the unnamed one gives its size to the file |
| `NtfsFileRefuted.cfg` | `WideRunsInvert` | the sign of a distance as wide as the word is extended by a shift of the whole width |

The condition of `TicksContinue` is one more: `timer/mod.rs:301` says "PIT stays
as backup" of a PIT that the HPET has replaced. The conditions of `KeysReachCpu`
and `BootCompletes` are those that `KeysFallBackToPic` and `FallsBackToPic` need.

### Bounds

* PMM: 5 pages of 2 bytes and a stray byte under a bitmap of 8 bits, every
  address from one byte before to one byte after the memory, sizes that are
  zero, inside a page, across pages. Three pages per request let runs be split
  and rejoined.
* Scheduler: 2 tasks with two priorities and two signals; the queue may hold as
  many entries as tasks, so duplicates occur. Quantum 1 makes it expire. What `scheduler`
  checks is proved for any number of tasks and signals.
* Tasks: 7 tasks and 6 stacks, 2 of them reserved: the stacks run out, a kill
  can meet its task anywhere in a queue of several, and enough tasks are left
  to be switched between after it was cut off.
* Interrupts: nesting 2, so that a handler is interrupted while it interrupts.
* Keyboard: 3 slots (two keys), line of 2: both limits are reached.
* Heap: two classes, three blocks per class, 24 bytes: classes fill up and the
  region ends.
* VMM: 2 entries per table, 4 pool frames: enough for pages that share their
  tables, one too few for pages in two regions, so a call fails half way.
* Boot: one machine for each combination of controllers and tables the code
  tells apart, with devices and tables inside and outside the first gigabyte;
  two overrides fit, so a third one meets the limit.
* NTFS: `NIBBLE` 4 and `WORD` 3 make a byte 16 values and a word three bytes;
  lengths and distances of one and two bytes and of a whole word, positive and
  negative, every truncation of the list, three attributes of six kinds in
  every order, and buffers shorter than, as long as and longer than a record.
* Services: two file systems, three mount points of which one lies below
  another, paths that match a component, part of a name and nothing; two
  descriptors and two module ids, so that one is closed before the next.

### Fairness

`TasksSpec`, `Keyboard` and `KernelBoot` assume that a periodic timer that runs
and is unmasked keeps firing (hardware) and that the code that has the CPU goes
on: `kernel_main` until it faults or is switched out, a command and the shell
only while the shell has the CPU, which the timer ends for good. `KernelBoot`
assumes strong fairness of the delivery of a request that is pending and can be
taken again and again, which an interrupt of higher priority can only delay;
once a tick has switched tasks, interrupts are off and it promises nothing.
`PmmScan` and `NtfsFile` assume that a loop that is entered is executed. Nothing
is assumed of key presses, commands or kills. The liveness properties are
`ScanReturns`, `LoopsEnd`, `BootCompletes`, `TicksContinue` and `QueuedTasksRun`;
the last is about the tasks, which the timer alone drives.

## Proofs

| Theorem | Argument |
|:--|:--|
| `PmmProofs!TypeCorrect`, `CounterIsAccurate` | the counter equals the number of pages outside the bitmap; each action changes both by the same finite set |
| `PmmProofs!RefusalsAreGenuine`, `GrantsCanBeFreed`, `ReservationsCover` | from the above, by what the first fit and the page rounding return |
| `PmmProofs!ImplementsPageAllocator` | the free set of `PageAllocator` is the addresses of the clear bits, and addresses determine pages. The pages a range release frees are an interval from its start, since it stops at the first that fails; the pages a reservation walks are exactly those that overlap it, by what rounding down and up give |
| `PmmProofs!LoopInvariantHolds`, `ScanIsFirstFit` | the loop invariant names the current run and excludes every earlier fit; at the last page of the run it gives the first fit, at the end of the memory that there is none. `ScanSpec => Spec` carries the theorems above over to the loop |
| `SchedulerProofs!TypeCorrect`, `OneOwnerOfTheCpu`, `NoLostWakeup` | the inductive invariant is `TypeOK`, `SingleRunning` and `ReadyIsQueued` together: a dispatch takes a task out of the queue only as it becomes Running, which needs the first two |
| `SchedulerProofs!DispatchOrder` | by the choice `pick_next_task` makes, under the same invariant |
| `SchedulerProofs!QueueExact`, `KillsAreFinal` | under `TasksSpec`, so with `kill` cut off between marking the task and `retain`. `QueueIsExact` is not inductive. When the timer requeues the current task and `pick_next_task` then found nothing, that task would go on running with an entry in the queue; and it could find nothing when the entry of a killed task is at the head, since it looks past the head only for priorities above Low. `QueueInv` excludes this: a task can only have been killed once `run` has started two, and the first of those, id 2, cannot be killed and is Normal, so it is always current or ready above Low. This needs how far each command, finished or cut off, has got (`ReachedInv`) and, from `TasksInv`, that a cut-off command never goes on. No pick takes an entry that is not Ready, so what is Terminated stays so |
| `VmmProofs!TablesFormATree`, `TlbIsCoherent`, `BootMapSurvives` | `VmmInv`: there are a level, a parent and a place in it for every frame handed out, such that the entry at that place is the only link to it, every present entry of an upper table is such a link, and the table of huge pages is as `boot.asm` left it. A new table is empty, so linking it changes no translation; a leaf entry belongs to one page, so writing it changes one translation, and that page is flushed. The lemmas on indices and on walks through the tree are in `VmmTableProofs` |
| `VmmProofs!ImplementsAddressSpace` | step by step under `VmmInv`, each call being one step of `AddressSpace` or, when it fails after it has linked tables, none |
| `KernelBootProofs!EndOfInterruptIsRouted` | before `USING_APIC` is set nothing can reach the Local APIC, afterwards LINT0 is masked and nothing from the PIC can reach the CPU; the invariant adds this hand-over, with the step of the boot it happens at, and the shape of the controllers |
| `KernelBootProofs!TablesAreUsed`, `BootTypes`, `UnmappedNeverBoots` | `BootInv`: from `acpi` on, `acpi_info` is what `parse` makes of the platform's tables, and a device is passed only if its address is mapped, so `kernel_main` never gets past one that is not. That `parse` gives what `DescribedBy` says is induction over the tables and over the entries of the MADT: after each of them a field holds what the last matching one wrote, and the kth override stored is the entry with k overrides up to it, as long as there is room |
| `KernelBootProofs!KeysAreNotLost` | `RouteInv` beside the invariant of `EndOfInterruptIsRouted`: without a Local APIC LINT0 and the PIC stay open; with one, from the step that writes the redirections on, the keyboard's pin has the keyboard's vector; and a key counts as pressed only after the hand-over. So the request is raised where it can interrupt, and only the interrupt that takes it removes it: the end of another interrupt leaves it pending |
| `SchedulerProofs!CurrentTaskExecutes`, `OnlyTheShellIsWaitedFor`, `CommandsDoNotDeadlock` | `TasksInv`: stacks are handed out once; no saved context is the shell's, so the CPU has the current task or, while there is none, the shell; once the shell has lost the CPU it holds nothing the handler will lock, because the handler that took the CPU has locked the whole queue; nothing happens before the boot has come so far. Each part needs the others: what the handler locks depends on the queue, and what is queued has a stack |
| `KernelServicesProofs!RingImplementsFifo`, `ReadsAreNotEmpty` | `RingInv`: head and tail are indices, the slots between them hold typed characters, and past `keyboard_has_data` there is one, still the oldest when the tail advances. The handler only appends, which keeps all of it |
| `KernelServicesProofs!RoomIsUsed` | under `RingInv`: the test for a full ring compares the head's successor with the tail, which by the arithmetic of the indices holds exactly when one slot less than the buffer is in use (`RoomIsSeen`), wherever the reader stands |
| `SlabHeapProofs!MemoryIsDisjoint`, `NoBlockIsLost` | `HeapInv`: blocks in lists and with callers lie below the bump pointer and apart from each other, a caller having the room of its whole block and not only of what it asked for (the property alone is not inductive: the block goes back whole); and in each class the list and the callers add up to the blocks it was given, at most the array's size |
| `KernelServicesProofs!DescriptorsKeepTheirMeaning`, `ModuleIdsKeepTheirMeaning`, `ModuleNamesAreUnique` | `VfsInv`, `ModInv`: what is in a table has an id the counter has passed, so the next id is new; every call is a step of `HandleTable` or invisible to it |
| `KernelServicesProofs!PathsResolveByComponent` | a component is numbered by the rank of its first character among the characters that begin one, so `Components` is determined by positions and needs no induction. A mount that holds a path by components is a prefix of its characters: at the first position where they differ, one of them would have a component the other has not, or a shorter one. What follows the prefix starts at a slash, so its components are the remaining ones, shifted. So the longest prefix is the innermost mount, and both name the same inode |
| `NtfsProofs!LayoutIsInverted` | what a read of k bytes gives is the remainder by the base to the kth, by induction over k; extending the sign undoes the remainder of a number the chosen width can hold. So a header and its two numbers give back a run, and a packed list is its runs one behind the other, by induction over the list. `WalkInv`: the attributes taken are what the format says of the first ones, `offset` is where the next one starts, and in the middle of a run list `pos` is where the next run starts. Starts grow with every attribute of a positive size, so the walk stops exactly at the first one that is not all there |
| `NtfsProofs!FileIsServed` | `ReadInv` beside `WalkInv`: what has been read is at most the total of the runs visited, and the runs have the lengths of those of the first unnamed Data attribute. A step adds at most the length of its run, wherever the wrapped start and end of the run lie. It needs no `Narrow`: a wrong distance moves a run and does not change its length |

Constants are only assumed to be what the code gives them (a positive page
size, an aligned base, a bitmap that does not lie below it, memory no larger
than the bitmap can describe, callers that may ask for one page, room for at
least one override, blocks of a positive size, a ring of at least one slot, a
nonempty region of stacks that contains the reserved one, at least two ids that
`kill` refuses, tables of at least two
entries, paths over an alphabet that has the slash; in NTFS an even number of
values to a nibble, words whose size in bytes a nibble can hold, clusters of a
positive size, and records of attributes whose runs have the lengths and
distances a word can hold). No theorem bounds the number of tasks, pages,
tables, stacks, slots, blocks, files, modules or platforms, of the tables and
entries of a platform, or of the attributes and runs of a record.

`TablesAreUsed` is about firmware that is `Conforming`, as all machines of the
run are: at most one structure that looks like an RSDP has the checksum, and
there is at most one MADT. Both are needed: the search takes the first structure
with the checksum, and `parse_madt` adds the overrides of a second MADT to those
of the first, and keeps its IO APIC when the second has none. The theorems of
`VmmProofs` have one hypothesis, `CallsOutside`: no call names a page that
`boot.asm` mapped. It is needed: `map_page`, `unmap_page` and `update_flags`
follow a huge page as if it were a table, which `VmmBoot.cfg` shows.
`RecordInvertsLayout` is about records that are `Narrow`, which is needed as
`WideRunsInvert` shows.

Induction over data (the tables of the firmware, the bytes of a number, the runs
of a list, the attributes of a record) is carried out on sets: the numbers up to
which the claim holds contain zero and with every number the next one, and a set
of numbers without a least element is empty (`SetInduction`). The functions that
are defined by recursion exist because a finite beginning of one can always be
extended (`FoldExists`).

Only model-checked:

* all liveness properties: fairness and ENABLED are beyond the proof system;
* `ContextIsRead`, `Acknowledged` and `Transparent`: the stubs are programs of
  some thirty instructions each, and TLC visits every state they have: the
  gates keep handlers from being interrupted, so frames nest no deeper than two
  and a larger `MaxNesting` adds no state.

## Not modelled

* `uptime_us` and `delay_ms`: arithmetic without a caller. `uptime_ms` is only
  displayed.
* The NTFS boot sector, directories and journal: fixed fields decoded from a
  buffer. Nothing in the kernel reads a disk.
* `FileDescriptor::seek` and `context_switch`: the VFS offers no way to the
  first, and the second is reached only through `schedule`, which no task of
  the kernel gets to.
* A heap call inside an interrupted heap call: the heap has no lock, and the
  ready queue may grow in the timer handler; when it does is up to the growth
  policy of `VecDeque`.
* System calls keep no state. GDT and TSS are constant tables. VGA and serial
  are output. The C drivers and the C++ programs are not part of the running
  kernel. The boot sector runs once with interrupts off.
