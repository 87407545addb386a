------------------------- MODULE KernelServicesProofs -------------------------
(***************************************************************************)
(* What the shell is served with.  File descriptors and module ids are     *)
(* handles, and module names are unique, for any file systems, paths,      *)
(* modules and bounds.  The ring buffer of the keyboard is a FIFO queue    *)
(* for every number of slots, with the interrupt handler anywhere between  *)
(* the steps of keyboard_read_char.  A path is resolved as a comparison of *)
(* its components would, although resolve_mount_point compares characters  *)
(* and traverse_path splits only what is left, for any paths and mounts    *)
(* as long as no mount ends in the middle of a name of the path.           *)
(***************************************************************************)
EXTENDS KernelServices, Keyboard, FiniteSetTheorems, TLAPS

-----------------------------------------------------------------------------
(* File descriptors *)

\* The mount table holds file systems, and the descriptors in use are among
\* those next_fd has passed.
VfsInv ==
  /\ next_fd \in FIRST_FD .. FIRST_FD + MaxFd
  /\ DOMAIN open_files \subseteq FIRST_FD .. next_fd - 1
  /\ \A fd \in DOMAIN open_files : open_files[fd] \in [inode : Inodes, flags : FlagSets, offset : Int]
  /\ \A p \in DOMAIN mount_points : mount_points[p] \in FileSystems
  /\ unused \subseteq FileSystems

\* Whatever a path resolves to is an inode of a mounted file system.
LEMMA ResolveInodes == ASSUME VfsInv, NEW path PROVE Resolve(path) \subseteq Inodes
<1> SUFFICES ASSUME NEW inode \in Resolve(path) PROVE inode \in Inodes
  OBVIOUS
<1>1. PICK r \in resolve_mount_point(path) : inode \in traverse_path(mount_points[r[1]], r[2])
  BY DEF Resolve
<1>2. r[1] \in DOMAIN mount_points
  BY DEF resolve_mount_point, BestMount, Mounted
<1>3. mount_points[r[1]] \in FileSystems
  BY <1>2 DEF VfsInv
<1> QED
  BY <1>1, <1>3 DEF traverse_path, Inodes

\* No operation on an empty table is needed to see that it satisfies both.
LEMMA VfsInitInv == VfsInit => VfsInv /\ Descriptors!Init
<1> SUFFICES ASSUME VfsInit PROVE VfsInv /\ Descriptors!Init
  OBVIOUS
<1>1. VfsInv
  BY VfsConstants DEF VfsInit, VfsInv, FIRST_FD
<1>2. [fd \in DOMAIN open_files |-> open_files[fd].inode] = [h \in {} |-> h]
  BY DEF VfsInit
<1>3. FIRST_FD .. next_fd - 1 = {}
  BY DEF VfsInit, FIRST_FD
<1> QED
  BY <1>1, <1>2, <1>3 DEF Descriptors!Init
\* A step of the abstract table of descriptors, or none.
DescriptorStep ==
  \/ Descriptors!Next
  \/ UNCHANGED <<[fd \in DOMAIN open_files |-> open_files[fd].inode], FIRST_FD .. next_fd - 1>>

\* mount and unmount leave the descriptors alone.
LEMMA MountStep ==
  ASSUME VfsInv, NEW path, NEW fs, mount(path, fs) \/ unmount(path)
  PROVE  VfsInv' /\ DescriptorStep
<1>1. UNCHANGED <<next_fd, open_files>>
  BY DEF mount, unmount
<1>2. /\ \A p \in DOMAIN mount_points' : mount_points'[p] \in FileSystems
      /\ unused' \subseteq FileSystems
  <2>1. CASE mount(path, fs)
    BY <2>1 DEF VfsInv, mount, With
  <2>2. CASE unmount(path)
    BY <2>2 DEF VfsInv, unmount, Without
  <2> QED
    BY <2>1, <2>2
<1> QED
  BY <1>1, <1>2 DEF VfsInv, DescriptorStep

\* open issues next_fd, which was never issued before.
LEMMA OpenStep ==
  ASSUME VfsInv, NEW path, NEW flags \in FlagSets, open(path, flags)
  PROVE  VfsInv' /\ DescriptorStep
<1>1. CASE UNCHANGED <<next_fd, open_files>>
  BY <1>1 DEF open, VfsInv, DescriptorStep
<1>2. ASSUME NEW inode \in Resolve(path),
             next_fd < FIRST_FD + MaxFd,
             open_files' = With(open_files, next_fd, NewDescriptor(inode, flags)),
             next_fd' = next_fd + 1
      PROVE  VfsInv' /\ DescriptorStep
  <2>1. inode \in Inodes
    BY ResolveInodes
  <2>2. next_fd \in FIRST_FD .. FIRST_FD + MaxFd /\ next_fd \in Int /\ MaxFd \in Nat
    BY VfsConstants DEF VfsInv, FIRST_FD
  <2>3. UNCHANGED <<mount_points, unused>>
    BY DEF open
  <2>4. /\ DOMAIN open_files' = DOMAIN open_files \cup {next_fd}
        /\ open_files'[next_fd] = NewDescriptor(inode, flags)
        /\ \A fd \in DOMAIN open_files \ {next_fd} : open_files'[fd] = open_files[fd]
    BY <1>2 DEF With
  <2>5. next_fd \notin DOMAIN open_files /\ next_fd \notin FIRST_FD .. next_fd - 1
    BY <2>2 DEF VfsInv
  <2>6. NewDescriptor(inode, flags) \in [inode : Inodes, flags : FlagSets, offset : Int]
    BY <2>1 DEF NewDescriptor
  <2>7. VfsInv'
    <3>1. next_fd' \in FIRST_FD .. FIRST_FD + MaxFd
      BY <1>2, <2>2 DEF FIRST_FD
    <3>2. DOMAIN open_files' \subseteq FIRST_FD .. next_fd' - 1
      BY <1>2, <2>2, <2>4 DEF VfsInv, FIRST_FD
    <3> QED
      BY <2>3, <2>4, <2>6, <3>1, <3>2 DEF VfsInv
  <2>8. Descriptors!Issue(next_fd, inode)
    <3>1. FIRST_FD .. next_fd' - 1 = (FIRST_FD .. next_fd - 1) \cup {next_fd}
      BY <1>2, <2>2 DEF FIRST_FD
    <3>2. open_files'[next_fd].inode = inode
      BY <2>4 DEF NewDescriptor
    <3>3. [fd \in DOMAIN open_files' |-> open_files'[fd].inode]
            = [k \in DOMAIN [fd \in DOMAIN open_files |-> open_files[fd].inode] \cup {next_fd} |->
                 IF k = next_fd THEN inode
                 ELSE [fd \in DOMAIN open_files |-> open_files[fd].inode][k]]
      BY <2>4, <2>5, <3>2
    <3> QED
      BY <2>5, <3>1, <3>3 DEF Descriptors!Issue
  <2> QED
    BY <2>1, <2>2, <2>7, <2>8 DEF DescriptorStep, Descriptors!Next
<1> QED
  BY <1>1, <1>2 DEF open

\* close retires a descriptor that is open and ignores any other.
LEMMA CloseStep ==
  ASSUME VfsInv, NEW fd \in FIRST_FD .. FIRST_FD + MaxFd, close(fd)
  PROVE  VfsInv' /\ DescriptorStep
<1>1. UNCHANGED <<mount_points, unused, next_fd>>
  BY DEF close
<1>2. CASE UNCHANGED open_files
  BY <1>1, <1>2 DEF VfsInv, DescriptorStep
<1>3. CASE fd \in DOMAIN open_files /\ open_files' = Without(open_files, fd)
  <2>1. /\ DOMAIN open_files' = DOMAIN open_files \ {fd}
        /\ \A k \in DOMAIN open_files' : open_files'[k] = open_files[k]
    BY <1>3 DEF Without
  <2>2. VfsInv'
    BY <1>1, <2>1 DEF VfsInv
  <2>3. Descriptors!Retire(fd)
    BY <1>1, <1>3, <2>1 DEF Descriptors!Retire
  <2> QED
    BY <2>2, <2>3 DEF DescriptorStep, Descriptors!Next
<1> QED
  BY <1>2, <1>3 DEF close

\* A transfer moves the offset of a descriptor and not its inode.
LEMMA TransferStep ==
  ASSUME VfsInv, NEW fd, NEW needed, NEW counts \in SUBSET Int, transfer(fd, needed, counts)
  PROVE  VfsInv' /\ DescriptorStep
<1>1. UNCHANGED <<mount_points, unused, next_fd>>
  BY DEF transfer
<1>2. CASE UNCHANGED open_files
  BY <1>1, <1>2 DEF VfsInv, DescriptorStep
<1>3. ASSUME fd \in DOMAIN open_files, NEW bytes \in counts,
             open_files' = [open_files EXCEPT ![fd].offset = @ + bytes]
      PROVE  VfsInv' /\ DescriptorStep
  <2>1. /\ DOMAIN open_files' = DOMAIN open_files
        /\ \A k \in DOMAIN open_files \ {fd} : open_files'[k] = open_files[k]
        /\ open_files'[fd] = [open_files[fd] EXCEPT !.offset = @ + bytes]
    BY <1>3
  <2>2. open_files[fd] \in [inode : Inodes, flags : FlagSets, offset : Int] /\ bytes \in Int
    BY <1>3 DEF VfsInv
  <2>3. /\ open_files'[fd] \in [inode : Inodes, flags : FlagSets, offset : Int]
        /\ open_files'[fd].inode = open_files[fd].inode
    BY <2>1, <2>2
  <2>4. VfsInv'
    BY <1>1, <2>1, <2>3 DEF VfsInv
  <2>5. \A k \in DOMAIN open_files : open_files'[k].inode = open_files[k].inode
    BY <2>1, <2>3
  <2> QED
    BY <1>1, <2>1, <2>4, <2>5 DEF DescriptorStep
<1> QED
  BY <1>2, <1>3 DEF transfer

LEMMA VfsStep == VfsInv /\ [VfsNext]_vfs_vars => VfsInv' /\ DescriptorStep
<1> SUFFICES ASSUME VfsInv, [VfsNext]_vfs_vars PROVE VfsInv' /\ DescriptorStep
  OBVIOUS
<1>1. CASE UNCHANGED vfs_vars
  BY <1>1 DEF vfs_vars, VfsInv, DescriptorStep
<1>2. ASSUME NEW path, NEW fs, mount(path, fs) \/ unmount(path) PROVE VfsInv' /\ DescriptorStep
  BY <1>2, MountStep
<1>3. ASSUME NEW path, NEW flags \in FlagSets, open(path, flags) PROVE VfsInv' /\ DescriptorStep
  BY <1>3, OpenStep
<1>4. ASSUME NEW fd \in FIRST_FD .. FIRST_FD + MaxFd, close(fd) PROVE VfsInv' /\ DescriptorStep
  BY <1>4, CloseStep
<1>5. ASSUME NEW fd, NEW n, read(fd, n) \/ write(fd, n) PROVE VfsInv' /\ DescriptorStep
  <2>1. /\ InodeRead(open_files[fd].inode, n) \in SUBSET Int
        /\ InodeWrite(open_files[fd].inode, n) \in SUBSET Int
    BY DEF InodeRead, InodeWrite
  <2> QED
    BY <1>5, <2>1, TransferStep DEF read, write
<1> QED
  BY <1>1, <1>2, <1>3, <1>4, <1>5 DEF VfsNext

\* The virtual file system never lets a descriptor change its meaning: every
\* mount, unmount, open, close, read and write is a step of a table of
\* handles, or invisible to it.
THEOREM DescriptorsKeepTheirMeaning == ServicesSpec => DescriptorsAreHandles
<1>1. ServicesInit => VfsInv /\ Descriptors!Init
  BY VfsInitInv DEF ServicesInit
<1>2. [ServicesNext]_<<vfs_vars, mod_vars>> => [VfsNext]_vfs_vars
  BY DEF ServicesNext
<1>3. VfsInv /\ [ServicesNext]_<<vfs_vars, mod_vars>> => VfsInv' /\ DescriptorStep
  BY <1>2, VfsStep
<1> QED
  BY <1>1, <1>3, PTL DEF ServicesSpec, DescriptorsAreHandles, Descriptors!Spec, DescriptorStep

-----------------------------------------------------------------------------
(* Modules *)

\* The modules in the table have ids the counter has passed and known names.
ModInv ==
  /\ NEXT_MODULE_ID \in FIRST_MODULE .. FIRST_MODULE + MaxModules
  /\ DOMAIN modules \subseteq FIRST_MODULE .. NEXT_MODULE_ID - 1
  /\ \A id \in DOMAIN modules : modules[id] \in [name : ModuleNames, state : {"Loaded", "Running"}]
  /\ OneModulePerName

\* A step of the abstract table of modules, or none.
ModuleStep ==
  \/ ModuleHandles!Next
  \/ UNCHANGED <<[id \in DOMAIN modules |-> modules[id].name], FIRST_MODULE .. NEXT_MODULE_ID - 1>>

LEMMA ModInitInv == ModInit => ModInv /\ ModuleHandles!Init
<1> SUFFICES ASSUME ModInit PROVE ModInv /\ ModuleHandles!Init
  OBVIOUS
<1>1. ModInv
  BY ModuleConstants DEF ModInit, ModInv, OneModulePerName, FIRST_MODULE
<1>2. [id \in DOMAIN modules |-> modules[id].name] = [h \in {} |-> h]
  BY DEF ModInit
<1>3. FIRST_MODULE .. NEXT_MODULE_ID - 1 = {}
  BY DEF ModInit, FIRST_MODULE
<1> QED
  BY <1>1, <1>2, <1>3 DEF ModuleHandles!Init

\* A call that is refused changes nothing.
LEMMA ModStutter == ModInv /\ UNCHANGED mod_vars => ModInv' /\ ModuleStep
  BY DEF mod_vars, ModInv, OneModulePerName, ModuleStep

\* load_module issues the counter's id for a name that is not in the table.
LEMMA LoadStep ==
  ASSUME ModInv, NEW name \in ModuleNames, load_module(name)
  PROVE  ModInv' /\ ModuleStep
<1>1. CASE UNCHANGED <<modules, NEXT_MODULE_ID>>
  BY <1>1, ModStutter DEF mod_vars
<1>2. CASE /\ \A id \in DOMAIN modules : modules[id].name # name
           /\ NEXT_MODULE_ID < FIRST_MODULE + MaxModules
           /\ modules' = Insert(NEXT_MODULE_ID, NewModule(name))
           /\ NEXT_MODULE_ID' = NEXT_MODULE_ID + 1
  <2> DEFINE new == NEXT_MODULE_ID
  <2>1. new \in FIRST_MODULE .. FIRST_MODULE + MaxModules /\ new \in Int /\ MaxModules \in Nat
    BY ModuleConstants DEF ModInv, FIRST_MODULE
  <2>2. /\ DOMAIN modules' = DOMAIN modules \cup {new}
        /\ modules'[new] = NewModule(name)
        /\ \A id \in DOMAIN modules \ {new} : modules'[id] = modules[id]
    BY <1>2 DEF Insert
  <2>3. new \notin DOMAIN modules /\ new \notin FIRST_MODULE .. new - 1
    BY <2>1 DEF ModInv
  <2>4. /\ NewModule(name) \in [name : ModuleNames, state : {"Loaded", "Running"}]
        /\ NewModule(name).name = name
    BY DEF NewModule
  <2>5. ModInv'
    <3>1. NEXT_MODULE_ID' \in FIRST_MODULE .. FIRST_MODULE + MaxModules
      BY <1>2, <2>1 DEF FIRST_MODULE
    <3>2. DOMAIN modules' \subseteq FIRST_MODULE .. NEXT_MODULE_ID' - 1
      BY <1>2, <2>1, <2>2 DEF ModInv, FIRST_MODULE
    <3>3. \A id \in DOMAIN modules' : modules'[id] \in [name : ModuleNames, state : {"Loaded", "Running"}]
      BY <2>2, <2>4 DEF ModInv
    <3>4. OneModulePerName'
      BY <1>2, <2>2, <2>3, <2>4 DEF ModInv, OneModulePerName
    <3> QED
      BY <3>1, <3>2, <3>3, <3>4 DEF ModInv
  <2>6. ModuleHandles!Issue(new, name)
    <3>1. FIRST_MODULE .. NEXT_MODULE_ID' - 1 = (FIRST_MODULE .. new - 1) \cup {new}
      BY <1>2, <2>1 DEF FIRST_MODULE
    <3>2. [id \in DOMAIN modules' |-> modules'[id].name]
            = [k \in DOMAIN [id \in DOMAIN modules |-> modules[id].name] \cup {new} |->
                 IF k = new THEN name ELSE [id \in DOMAIN modules |-> modules[id].name][k]]
      BY <2>2, <2>3, <2>4
    <3> QED
      BY <2>3, <3>1, <3>2 DEF ModuleHandles!Issue
  <2> QED
    BY <2>1, <2>5, <2>6 DEF ModuleStep, ModuleHandles!Next, ModuleIds
<1> QED
  BY <1>1, <1>2 DEF load_module

\* init_module keeps the name, unload_module retires the id.
LEMMA InitUnloadStep ==
  ASSUME ModInv, NEW id \in ModuleIds, init_module(id) \/ unload_module(id)
  PROVE  ModInv' /\ ModuleStep
<1>1. CASE UNCHANGED <<modules, NEXT_MODULE_ID>>
  BY <1>1, ModStutter DEF mod_vars
<1>2. CASE /\ id \in DOMAIN modules
           /\ modules' = [modules EXCEPT ![id].state = "Running"]
           /\ UNCHANGED NEXT_MODULE_ID
  <2>1. modules[id] \in [name : ModuleNames, state : {"Loaded", "Running"}]
    BY <1>2 DEF ModInv
  <2>2. /\ DOMAIN modules' = DOMAIN modules
        /\ \A k \in DOMAIN modules \ {id} : modules'[k] = modules[k]
        /\ modules'[id] = [modules[id] EXCEPT !.state = "Running"]
    BY <1>2
  <2>3. modules'[id] \in [name : ModuleNames, state : {"Loaded", "Running"}] /\ modules'[id].name = modules[id].name
    BY <2>1, <2>2
  <2>4. \A k \in DOMAIN modules : modules'[k].name = modules[k].name
    BY <2>2, <2>3
  <2>5. ModInv'
    BY <1>2, <2>2, <2>3, <2>4 DEF ModInv, OneModulePerName
  <2> QED
    BY <1>2, <2>2, <2>4, <2>5 DEF ModuleStep
<1>3. CASE /\ id \in DOMAIN modules
           /\ modules' = [k \in DOMAIN modules \ {id} |-> modules[k]]
           /\ UNCHANGED NEXT_MODULE_ID
  <2>1. ModInv'
    BY <1>3 DEF ModInv, OneModulePerName
  <2>2. ModuleHandles!Retire(id)
    BY <1>3 DEF ModuleHandles!Retire
  <2> QED
    BY <2>1, <2>2 DEF ModuleStep, ModuleHandles!Next
<1> QED
  BY <1>1, <1>2, <1>3 DEF init_module, unload_module, Accepts, Refuses

LEMMA ModStep == ModInv /\ [ModNext]_mod_vars => ModInv' /\ ModuleStep
<1> SUFFICES ASSUME ModInv, [ModNext]_mod_vars PROVE ModInv' /\ ModuleStep
  OBVIOUS
<1>1. CASE UNCHANGED mod_vars
  BY <1>1, ModStutter
<1>2. CASE ModNext
  BY <1>2, LoadStep, InitUnloadStep DEF ModNext
<1> QED
  BY <1>1, <1>2

\* The module manager likewise never reuses the id of a module.
THEOREM ModuleIdsKeepTheirMeaning == ServicesSpec => ModulesAreHandles
<1>1. ServicesInit => ModInv /\ ModuleHandles!Init
  BY ModInitInv DEF ServicesInit
<1>2. [ServicesNext]_<<vfs_vars, mod_vars>> => [ModNext]_mod_vars
  BY DEF ServicesNext
<1>3. ModInv /\ [ServicesNext]_<<vfs_vars, mod_vars>> => ModInv' /\ ModuleStep
  BY <1>2, ModStep
<1> QED
  BY <1>1, <1>3, PTL DEF ServicesSpec, ModulesAreHandles, ModuleHandles!Spec, ModuleStep

\* Whatever is loaded, started and unloaded, load_module's comparison with the
\* whole table leaves at most one module of each name in it.
THEOREM ModuleNamesAreUnique == ServicesSpec => []OneModulePerName
<1>1. ServicesInit => ModInv
  BY ModInitInv DEF ServicesInit
<1>2. ModInv /\ [ServicesNext]_<<vfs_vars, mod_vars>> => ModInv'
  BY ModStep DEF ServicesNext
<1>3. ModInv => OneModulePerName
  BY DEF ModInv
<1> QED
  BY <1>1, <1>2, <1>3, PTL DEF ServicesSpec

-----------------------------------------------------------------------------
(* Indices modulo the size *)

LEMMA ModSmall == ASSUME NEW N \in Nat \ {0}, NEW x \in 0 .. N - 1 PROVE x % N = x
  BY Z3

LEMMA ModWrap == ASSUME NEW N \in Nat \ {0}, NEW x \in N .. 2 * N - 1 PROVE x % N = x - N
<1>1. x = N * (x \div N) + (x % N) /\ x % N \in 0 .. N - 1 /\ x \div N \in Int
  BY Z3
<1> DEFINE d == x \div N
<1>2. d >= 1
  <2>1. d <= 0 => N * d <= 0
    BY <1>1, Z3
  <2> QED
    BY <1>1, <2>1
<1>3. d < 2
  <2>1. d >= 2 => N * d >= 2 * N
    BY <1>1, Z3
  <2> QED
    BY <1>1, <2>1
<1>4. d = 1
  BY <1>1, <1>2, <1>3
<1> QED
  BY <1>1, <1>4

\* The positions the ring's expressions stand for.
LEMMA RingIndices ==
  ASSUME NEW N \in Nat \ {0}, NEW h \in 0 .. N - 1, NEW t \in 0 .. N - 1
  PROVE  /\ (h + 1) % N = IF h + 1 = N THEN 0 ELSE h + 1
         /\ (h - t + N) % N = IF h >= t THEN h - t ELSE h - t + N
         /\ \A k \in 1 .. N : (t + k - 1) % N = IF t + k - 1 < N THEN t + k - 1 ELSE t + k - 1 - N
<1>1. (h + 1) % N = IF h + 1 = N THEN 0 ELSE h + 1
  <2>1. h + 1 \in 0 .. N - 1 \/ (h + 1 = N /\ N \in N .. 2 * N - 1 /\ N - N = 0)
    OBVIOUS
  <2> QED
    BY <2>1, ModSmall, ModWrap
<1>2. (h - t + N) % N = IF h >= t THEN h - t ELSE h - t + N
  <2>1. CASE h >= t
    <3>1. h - t + N \in N .. 2 * N - 1 /\ (h - t + N) - N = h - t
      BY <2>1
    <3> QED
      BY <2>1, <3>1, ModWrap
  <2>2. CASE ~ (h >= t)
    <3>1. h - t + N \in 0 .. N - 1
      BY <2>2
    <3> QED
      BY <2>2, <3>1, ModSmall
  <2> QED
    BY <2>1, <2>2
<1>3. ASSUME NEW k \in 1 .. N
      PROVE  (t + k - 1) % N = IF t + k - 1 < N THEN t + k - 1 ELSE t + k - 1 - N
  <2>1. CASE t + k - 1 < N
    <3>1. t + k - 1 \in 0 .. N - 1
      BY <2>1
    <3> QED
      BY <2>1, <3>1, ModSmall
  <2>2. CASE ~ (t + k - 1 < N)
    <3> DEFINE x == t + k - 1
    <3>1. x \in N .. 2 * N - 1
      BY <2>2
    <3> HIDE DEF x
    <3>2. x % N = x - N
      BY <3>1, ModWrap
    <3> QED
      BY <2>2, <3>2 DEF x
  <2> QED
    BY <2>1, <2>2
<1> QED
  BY <1>1, <1>2, <1>3

-----------------------------------------------------------------------------
(* The ring *)

Fill == IF KEYBOARD_HEAD >= KEYBOARD_TAIL THEN KEYBOARD_HEAD - KEYBOARD_TAIL
        ELSE KEYBOARD_HEAD - KEYBOARD_TAIL + BUFFER_SIZE

SlotAfter(t, k) == IF t + k - 1 < BUFFER_SIZE THEN t + k - 1 ELSE t + k - 1 - BUFFER_SIZE

RingType ==
  /\ KEYBOARD_HEAD \in 0 .. BUFFER_SIZE - 1 /\ KEYBOARD_TAIL \in 0 .. BUFFER_SIZE - 1
  /\ DOMAIN KEYBOARD_BUFFER = 0 .. BUFFER_SIZE - 1
  /\ \A k \in 1 .. Fill : KEYBOARD_BUFFER[SlotAfter(KEYBOARD_TAIL, k)] \in Typed

\* The shell is past keyboard_has_data only with a character to read, and the
\* one it has loaded is still the oldest when it advances the tail.
ReadInv ==
  /\ pc \in {"load", "store"} => KEYBOARD_HEAD # KEYBOARD_TAIL
  /\ pc = "store" => ch = KEYBOARD_BUFFER[KEYBOARD_TAIL]
  /\ NoEmptyRead

RingInv == RingType /\ ReadInv

\* Sequences of one length with the same elements are equal.
LEMMA SameElements ==
  ASSUME NEW S, NEW s \in Seq(S), NEW t \in Seq(S),
         Len(s) = Len(t), \A k \in 1 .. Len(s) : s[k] = t[k]
  PROVE  s = t
OBVIOUS

\* Contents is a sequence of Fill characters.
ContentsShape ==
  /\ Fill \in 0 .. BUFFER_SIZE - 1
  /\ Contents \in Seq(Typed) /\ Len(Contents) = Fill
  /\ \A k \in 1 .. Fill : Contents[k] = KEYBOARD_BUFFER[SlotAfter(KEYBOARD_TAIL, k)]

LEMMA ContentsFacts == RingType => ContentsShape
<1> SUFFICES ASSUME RingType PROVE ContentsShape
  OBVIOUS
<1>1. BUFFER_SIZE \in Nat \ {0}
  BY KeyboardConstants
<1>2. /\ (KEYBOARD_HEAD - KEYBOARD_TAIL + BUFFER_SIZE) % BUFFER_SIZE = Fill
      /\ \A k \in 1 .. BUFFER_SIZE : (KEYBOARD_TAIL + k - 1) % BUFFER_SIZE = SlotAfter(KEYBOARD_TAIL, k)
  BY <1>1, RingIndices, Zenon DEF RingType, Fill, SlotAfter
<1>3. Fill \in 0 .. BUFFER_SIZE - 1
  BY <1>1 DEF RingType, Fill
<1>4. \A k \in 1 .. Fill : KEYBOARD_BUFFER[(KEYBOARD_TAIL + k - 1) % BUFFER_SIZE] = KEYBOARD_BUFFER[SlotAfter(KEYBOARD_TAIL, k)]
  BY <1>1, <1>2, <1>3
<1>5. Contents = [k \in 1 .. Fill |-> KEYBOARD_BUFFER[SlotAfter(KEYBOARD_TAIL, k)]]
  BY <1>2, <1>4 DEF Contents
<1>6. Contents \in [1 .. Fill -> Typed] /\ \A k \in 1 .. Fill : Contents[k] = KEYBOARD_BUFFER[SlotAfter(KEYBOARD_TAIL, k)]
  BY <1>5 DEF RingType
<1>7. Fill \in Nat
  BY <1>3, <1>1
<1>8. Contents \in Seq(Typed) /\ Len(Contents) = Fill
  <2> HIDE DEF Contents, Fill
  <2> QED
    BY <1>6, <1>7
<1> QED
  BY <1>3, <1>6, <1>8 DEF ContentsShape

LEMMA ContentsFactsNext == RingType' => ContentsShape'
  BY ContentsFacts, PTL

\* Storing a character when there is room appends it.
LEMMA StoreAppends ==
  ASSUME RingType, NEW c \in Typed, (KEYBOARD_HEAD + 1) % BUFFER_SIZE # KEYBOARD_TAIL,
         KEYBOARD_BUFFER' = [KEYBOARD_BUFFER EXCEPT ![KEYBOARD_HEAD] = c],
         KEYBOARD_HEAD' = (KEYBOARD_HEAD + 1) % BUFFER_SIZE,
         UNCHANGED KEYBOARD_TAIL
  PROVE  /\ RingType' /\ KEYBOARD_HEAD' # KEYBOARD_TAIL'
         /\ Len(Contents) < BUFFER_SIZE - 1 /\ Contents' = Append(Contents, c)
         /\ KEYBOARD_HEAD # KEYBOARD_TAIL => KEYBOARD_BUFFER'[KEYBOARD_TAIL] = KEYBOARD_BUFFER[KEYBOARD_TAIL]
<1>1. /\ BUFFER_SIZE \in Nat \ {0}
      /\ KEYBOARD_HEAD \in 0 .. BUFFER_SIZE - 1 /\ KEYBOARD_TAIL \in 0 .. BUFFER_SIZE - 1
      /\ DOMAIN KEYBOARD_BUFFER = 0 .. BUFFER_SIZE - 1
  BY KeyboardConstants DEF RingType
<1>2. KEYBOARD_HEAD' = IF KEYBOARD_HEAD + 1 = BUFFER_SIZE THEN 0 ELSE KEYBOARD_HEAD + 1
  BY <1>1, RingIndices
<1>3. Fill < BUFFER_SIZE - 1 /\ Fill' = Fill + 1 /\ Fill \in Nat
  BY <1>1, <1>2 DEF Fill
<1>4. \A k \in 1 .. Fill : SlotAfter(KEYBOARD_TAIL, k) \in 0 .. BUFFER_SIZE - 1 /\ SlotAfter(KEYBOARD_TAIL, k) # KEYBOARD_HEAD
  BY <1>1 DEF Fill, SlotAfter
<1>5. SlotAfter(KEYBOARD_TAIL, Fill + 1) = KEYBOARD_HEAD
  BY <1>1, <1>3 DEF Fill, SlotAfter
<1>6. /\ DOMAIN KEYBOARD_BUFFER' = DOMAIN KEYBOARD_BUFFER /\ KEYBOARD_BUFFER'[KEYBOARD_HEAD] = c
      /\ \A i \in 0 .. BUFFER_SIZE - 1 : i # KEYBOARD_HEAD => KEYBOARD_BUFFER'[i] = KEYBOARD_BUFFER[i]
  BY <1>1
<1>7. /\ \A k \in 1 .. Fill : KEYBOARD_BUFFER'[SlotAfter(KEYBOARD_TAIL, k)] = KEYBOARD_BUFFER[SlotAfter(KEYBOARD_TAIL, k)]
      /\ KEYBOARD_BUFFER'[SlotAfter(KEYBOARD_TAIL, Fill + 1)] = c
  BY <1>4, <1>5, <1>6
<1>8. RingType'
  <2>1. ASSUME NEW k \in 1 .. Fill' PROVE KEYBOARD_BUFFER'[SlotAfter(KEYBOARD_TAIL, k)] \in Typed
    <3>1. k \in 1 .. Fill \/ k = Fill + 1
      BY <1>3
    <3> QED
      BY <1>7, <3>1 DEF RingType
  <2>2. KEYBOARD_HEAD' \in 0 .. BUFFER_SIZE - 1 /\ KEYBOARD_TAIL' \in 0 .. BUFFER_SIZE - 1
    BY <1>1, <1>2
  <2> QED
    BY <1>1, <1>6, <2>1, <2>2 DEF RingType
<1>9. ContentsShape /\ ContentsShape'
  BY <1>8, ContentsFacts, ContentsFactsNext
<1>10. Contents' = Append(Contents, c)
  <2>1. /\ Append(Contents, c) \in Seq(Typed) /\ Len(Append(Contents, c)) = Fill + 1
        /\ \A k \in 1 .. Fill : Append(Contents, c)[k] = Contents[k]
        /\ Append(Contents, c)[Fill + 1] = c
    BY <1>9 DEF ContentsShape
  <2>2. Contents' \in Seq(Typed) /\ Len(Contents') = Fill + 1
    BY <1>3, <1>9 DEF ContentsShape
  <2>3. ASSUME NEW k \in 1 .. Fill + 1 PROVE Contents'[k] = Append(Contents, c)[k]
    <3>1. Contents'[k] = KEYBOARD_BUFFER'[SlotAfter(KEYBOARD_TAIL, k)]
      BY <1>3, <1>9 DEF ContentsShape
    <3>2. CASE k \in 1 .. Fill
      BY <1>7, <1>9, <2>1, <3>1, <3>2 DEF ContentsShape
    <3>3. CASE k = Fill + 1
      <4>1. Contents'[k] = c
        BY <1>7, <3>1, <3>3
      <4>2. Append(Contents, c)[k] = c
        BY <2>1, <3>3
      <4> QED
        BY <4>1, <4>2
    <3>4. k \in 1 .. Fill \/ k = Fill + 1
      BY <1>3
    <3> QED
      BY <3>2, <3>3, <3>4, Zenon
  <2> HIDE DEF Contents, Fill
  <2> QED
    BY <2>1, <2>2, <2>3, SameElements
<1>11. KEYBOARD_HEAD' # KEYBOARD_TAIL'
  OBVIOUS
<1> QED
  BY <1>1, <1>3, <1>6, <1>8, <1>9, <1>10, <1>11 DEF ContentsShape

\* Advancing the tail of a ring that is not empty drops its first character.
LEMMA AdvanceDrops ==
  ASSUME RingType, KEYBOARD_HEAD # KEYBOARD_TAIL,
         KEYBOARD_TAIL' = (KEYBOARD_TAIL + 1) % BUFFER_SIZE,
         UNCHANGED <<KEYBOARD_HEAD, KEYBOARD_BUFFER>>
  PROVE  /\ RingType' /\ Contents # <<>>
         /\ Head(Contents) = KEYBOARD_BUFFER[KEYBOARD_TAIL]
         /\ Contents' = Tail(Contents)
<1>1. /\ BUFFER_SIZE \in Nat \ {0}
      /\ KEYBOARD_HEAD \in 0 .. BUFFER_SIZE - 1 /\ KEYBOARD_TAIL \in 0 .. BUFFER_SIZE - 1
  BY KeyboardConstants DEF RingType
<1>2. KEYBOARD_TAIL' = IF KEYBOARD_TAIL + 1 = BUFFER_SIZE THEN 0 ELSE KEYBOARD_TAIL + 1
  BY <1>1, RingIndices
<1>3. Fill \in Nat /\ Fill >= 1 /\ Fill' = Fill - 1
  BY <1>1, <1>2 DEF Fill
<1>4. \A k \in 1 .. Fill - 1 : SlotAfter(KEYBOARD_TAIL', k) = SlotAfter(KEYBOARD_TAIL, k + 1)
  BY <1>1, <1>2 DEF Fill, SlotAfter
<1>5. SlotAfter(KEYBOARD_TAIL, 1) = KEYBOARD_TAIL
  BY <1>1 DEF SlotAfter
<1>6. RingType'
  <2>1. ASSUME NEW k \in 1 .. Fill - 1 PROVE KEYBOARD_BUFFER[SlotAfter(KEYBOARD_TAIL', k)] \in Typed
    <3>1. k + 1 \in 1 .. Fill
      BY <1>3
    <3> QED
      BY <1>4, <3>1 DEF RingType
  <2>2. KEYBOARD_TAIL' \in 0 .. BUFFER_SIZE - 1
    BY <1>1, <1>2
  <2> QED
    BY <1>1, <1>3, <2>1, <2>2 DEF RingType
<1>7. ContentsShape /\ ContentsShape'
  BY <1>6, ContentsFacts, ContentsFactsNext
<1>8. Contents # <<>> /\ Contents \in Seq(Typed) /\ Len(Contents) = Fill
  BY <1>3, <1>7 DEF ContentsShape
<1>9. Head(Contents) = KEYBOARD_BUFFER[KEYBOARD_TAIL]
  <2>1. Head(Contents) = Contents[1]
    OBVIOUS
  <2>2. Contents[1] = KEYBOARD_BUFFER[SlotAfter(KEYBOARD_TAIL, 1)]
    BY <1>3, <1>7 DEF ContentsShape
  <2> QED
    BY <1>5, <2>1, <2>2
<1>10. Contents' = Tail(Contents)
  <2>1. /\ Tail(Contents) \in Seq(Typed) /\ Len(Tail(Contents)) = Fill - 1
        /\ \A k \in 1 .. Fill - 1 : Tail(Contents)[k] = Contents[k + 1]
    BY <1>8
  <2>2. Contents' \in Seq(Typed) /\ Len(Contents') = Fill - 1
    BY <1>3, <1>7 DEF ContentsShape
  <2>3. ASSUME NEW k \in 1 .. Fill - 1 PROVE Contents'[k] = Tail(Contents)[k]
    <3>1. Contents'[k] = KEYBOARD_BUFFER[SlotAfter(KEYBOARD_TAIL', k)]
      BY <1>3, <1>7 DEF ContentsShape
    <3>2. k + 1 \in 1 .. Fill
      BY <1>3
    <3>3. Contents[k + 1] = KEYBOARD_BUFFER[SlotAfter(KEYBOARD_TAIL, k + 1)]
      BY <1>7, <3>2 DEF ContentsShape
    <3>4. Tail(Contents)[k] = Contents[k + 1]
      BY <2>1
    <3> QED
      BY <1>4, <3>1, <3>3, <3>4, Zenon
  <2> HIDE DEF Contents, Fill
  <2> QED
    BY <2>1, <2>2, <2>3, SameElements
<1> QED
  BY <1>6, <1>8, <1>9, <1>10

-----------------------------------------------------------------------------
(* The steps *)

LEMMA RingInit == Init => RingInv /\ Fifo!Init
<1> SUFFICES ASSUME Init PROVE RingInv /\ Fifo!Init
  OBVIOUS
<1>1. BUFFER_SIZE \in Nat \ {0} /\ KEYBOARD_HEAD = 0 /\ KEYBOARD_TAIL = 0 /\ pc = "halt" /\ got = NUL
  BY KeyboardConstants DEF Init
<1>2. Fill = 0
  BY <1>1 DEF Fill
<1>3. RingType
  BY <1>1, <1>2 DEF Init, RingType
<1>4. ReadInv
  BY <1>1 DEF ReadInv, NoEmptyRead
<1>5. Contents = <<>>
  <2>1. Contents \in Seq(Typed) /\ Len(Contents) = 0
    BY <1>2, <1>3, ContentsFacts DEF ContentsShape
  <2> HIDE DEF Contents
  <2> QED
    BY <2>1
<1> QED
  BY <1>1, <1>3, <1>4, <1>5 DEF RingInv, Fifo!Init

\* A step of the queue, or none.
FifoStep == Fifo!Next \/ UNCHANGED <<Contents, got>>

\* A step that leaves the ring alone.
LEMMA QuietStep ==
  ASSUME RingInv, UNCHANGED <<KEYBOARD_BUFFER, KEYBOARD_HEAD, KEYBOARD_TAIL, got>>
  PROVE  RingType' /\ UNCHANGED <<Contents, got>>
  BY DEF RingInv, RingType, Fill, SlotAfter, Contents

LEMMA DecodeTyped == \A key \in Keys : Decode(key) \in Typed \cup {NUL}
  BY DEF Keys, Decode, SCANCODE_TO_ASCII, SCANCODE_TO_ASCII_SHIFT, Typed, NUL, Newline, Backspace

\* The handlers interrupt the shell between any two of its steps.
LEMMA HandlerStep ==
  ASSUME RingInv,
         (\E key \in Keys, released \in BOOLEAN : handle_keyboard_scancode(key, released)) \/ timer
  PROVE  RingInv' /\ FifoStep
<1>1. (Wake \/ pc' = "preempted") /\ UNCHANGED <<KEYBOARD_TAIL, ch, got, input_buf>>
  BY DEF handle_keyboard_scancode, timer, shell_vars
<1>2. /\ pc' \in {"load", "store", "use"} => pc = pc'
      /\ UNCHANGED <<KEYBOARD_TAIL, ch, got>>
  BY <1>1 DEF Wake
<1>3. CASE UNCHANGED ring
  <2>1. RingType' /\ UNCHANGED <<Contents, got>>
    BY <1>2, <1>3, QuietStep DEF ring
  <2>2. ReadInv'
    BY <1>2, <1>3 DEF RingInv, ReadInv, NoEmptyRead, ring
  <2> QED
    BY <2>1, <2>2 DEF RingInv, FifoStep
<1>4. ASSUME NEW c \in Typed, (KEYBOARD_HEAD + 1) % BUFFER_SIZE # KEYBOARD_TAIL,
             KEYBOARD_BUFFER' = [KEYBOARD_BUFFER EXCEPT ![KEYBOARD_HEAD] = c],
             KEYBOARD_HEAD' = (KEYBOARD_HEAD + 1) % BUFFER_SIZE
      PROVE  RingInv' /\ FifoStep
  <2>1. /\ RingType' /\ KEYBOARD_HEAD' # KEYBOARD_TAIL'
        /\ Len(Contents) < BUFFER_SIZE - 1 /\ Contents' = Append(Contents, c)
        /\ KEYBOARD_HEAD # KEYBOARD_TAIL => KEYBOARD_BUFFER'[KEYBOARD_TAIL] = KEYBOARD_BUFFER[KEYBOARD_TAIL]
    BY <1>2, <1>4, StoreAppends, Zenon DEF RingInv
  <2>2. ReadInv'
    BY <1>2, <2>1 DEF RingInv, ReadInv, NoEmptyRead
  <2>3. Fifo!Put
    BY <1>2, <2>1 DEF Fifo!Put
  <2> QED
    BY <2>1, <2>2, <2>3 DEF RingInv, FifoStep, Fifo!Next
<1>5. ASSUME NEW key \in Keys, NEW released \in BOOLEAN, handle_keyboard_scancode(key, released)
      PROVE  RingInv' /\ FifoStep
  <2>1. UNCHANGED ring \/ Store(Decode(key))
    BY <1>5 DEF handle_keyboard_scancode
  <2>2. CASE Store(Decode(key))
    <3>1. Decode(key) \in Typed \cup {NUL}
      BY DecodeTyped
    <3> QED
      BY <1>3, <1>4, <2>2, <3>1 DEF Store
  <2> QED
    BY <1>3, <2>1, <2>2
<1>6. CASE timer
  BY <1>3, <1>6 DEF timer
<1> QED
  BY <1>5, <1>6

LEMMA ShellStep == RingInv /\ Shell => RingInv' /\ FifoStep
<1> SUFFICES ASSUME RingInv, Shell PROVE RingInv' /\ FifoStep
  OBVIOUS
<1>1. CASE keyboard_has_data \/ read_load \/ shell_edit
  <2>1. UNCHANGED <<KEYBOARD_BUFFER, KEYBOARD_HEAD, KEYBOARD_TAIL, got>>
    BY <1>1 DEF keyboard_has_data, read_load, shell_edit, ring, shell_vars
  <2>2. RingType' /\ UNCHANGED <<Contents, got>>
    BY <2>1, QuietStep
  <2>3. ReadInv'
    BY <1>1, <2>1 DEF RingInv, ReadInv, NoEmptyRead, keyboard_has_data, read_load, shell_edit,
                      shell_vars
  <2> QED
    BY <2>2, <2>3 DEF RingInv, FifoStep
<1>2. CASE read_store
  <2>1. /\ pc = "store" /\ pc' = "use" /\ got' = ch /\ UNCHANGED ch
        /\ KEYBOARD_TAIL' = (KEYBOARD_TAIL + 1) % BUFFER_SIZE
        /\ UNCHANGED <<KEYBOARD_HEAD, KEYBOARD_BUFFER>>
    BY <1>2 DEF read_store, ring
  <2>2. KEYBOARD_HEAD # KEYBOARD_TAIL /\ ch = KEYBOARD_BUFFER[KEYBOARD_TAIL]
    BY <2>1 DEF RingInv, ReadInv
  <2>3. /\ RingType' /\ Contents # <<>>
        /\ Head(Contents) = KEYBOARD_BUFFER[KEYBOARD_TAIL]
        /\ Contents' = Tail(Contents)
    BY <2>1, <2>2, AdvanceDrops DEF RingInv
  <2>4. ch \in Typed
    <3>1. Contents \in Seq(Typed)
      BY ContentsFacts DEF RingInv, ContentsShape
    <3>2. Head(Contents) \in Typed
      BY <2>3, <3>1
    <3> QED
      BY <2>2, <2>3, <3>2
  <2>5. ReadInv'
    BY <2>1, <2>4 DEF ReadInv, NoEmptyRead, Typed, NUL, Newline, Backspace
  <2>6. Fifo!Get
    BY <2>1, <2>2, <2>3 DEF Fifo!Get
  <2> QED
    BY <2>3, <2>5, <2>6 DEF RingInv, FifoStep, Fifo!Next
<1> QED
  BY <1>1, <1>2 DEF Shell

LEMMA RingStep == RingInv /\ [Next]_vars => RingInv' /\ FifoStep
<1> SUFFICES ASSUME RingInv, [Next]_vars PROVE RingInv' /\ FifoStep
  OBVIOUS
<1>1. CASE UNCHANGED vars
  <2>1. RingType' /\ UNCHANGED <<Contents, got>>
    BY <1>1, QuietStep DEF vars
  <2>2. ReadInv'
    BY <1>1 DEF RingInv, ReadInv, NoEmptyRead, vars
  <2> QED
    BY <2>1, <2>2 DEF RingInv, FifoStep
<1>2. CASE Next
  BY <1>2, HandlerStep, ShellStep DEF Next
<1> QED
  BY <1>1, <1>2

\* For every size of the buffer, the ring implements the queue: the handler
\* appends to it, keyboard_read_char takes its first character, and nothing
\* else changes it.
THEOREM RingImplementsFifo == Spec => RingIsFifo
  BY RingInit, RingStep, PTL DEF Spec, RingIsFifo, Fifo!Spec, FifoStep

\* The shell, having seen that there is a character, always gets one.
THEOREM ReadsAreNotEmpty == Spec => []NoEmptyRead
<1>1. RingInv => NoEmptyRead
  BY DEF RingInv, ReadInv
<1> QED
  BY <1>1, RingInit, RingStep, PTL DEF Spec

\* A ring with room is not taken to be full.
LEMMA RoomIsSeen ==
  ASSUME RingType, Len(Contents) < BUFFER_SIZE - 1
  PROVE  (KEYBOARD_HEAD + 1) % BUFFER_SIZE # KEYBOARD_TAIL
<1>1. /\ BUFFER_SIZE \in Nat \ {0}
      /\ KEYBOARD_HEAD \in 0 .. BUFFER_SIZE - 1 /\ KEYBOARD_TAIL \in 0 .. BUFFER_SIZE - 1
  BY KeyboardConstants DEF RingType
<1>2. Fill < BUFFER_SIZE - 1
  BY ContentsFacts DEF ContentsShape
<1>3. (KEYBOARD_HEAD + 1) % BUFFER_SIZE = IF KEYBOARD_HEAD + 1 = BUFFER_SIZE THEN 0 ELSE KEYBOARD_HEAD + 1
  BY <1>1, RingIndices
<1> QED
  BY <1>1, <1>2, <1>3 DEF Fill

\* For every size of the buffer, the handler drops a character only when
\* BUFFER_SIZE - 1 of them wait to be read.
THEOREM RoomIsUsed == Spec => KeysAreKept
<1> DEFINE Kept ==
             \A key \in Keys :
               (handle_keyboard_scancode(key, FALSE) /\ Decode(key) # NUL /\ Len(Contents) < BUFFER_SIZE - 1)
                 => Contents' = Append(Contents, Decode(key))
<1>1. RingInv => Kept
  <2> SUFFICES ASSUME RingInv, NEW key \in Keys, handle_keyboard_scancode(key, FALSE),
                      Decode(key) # NUL, Len(Contents) < BUFFER_SIZE - 1
               PROVE  Contents' = Append(Contents, Decode(key))
    BY Zenon
  <2>1. /\ RingType /\ Decode(key) \in Typed
        /\ (KEYBOARD_HEAD + 1) % BUFFER_SIZE # KEYBOARD_TAIL
    BY DecodeTyped, RoomIsSeen DEF RingInv
  <2>2. key \notin {"shift_left", "shift_right", "caps_lock"}
    BY DEF Decode, SCANCODE_TO_ASCII, SCANCODE_TO_ASCII_SHIFT
  <2>3. Store(Decode(key)) /\ UNCHANGED KEYBOARD_TAIL
    BY <2>2 DEF handle_keyboard_scancode, shell_vars
  <2>4. /\ KEYBOARD_BUFFER' = [KEYBOARD_BUFFER EXCEPT ![KEYBOARD_HEAD] = Decode(key)]
        /\ KEYBOARD_HEAD' = (KEYBOARD_HEAD + 1) % BUFFER_SIZE
    BY <2>1, <2>3 DEF Store
  <2> QED
    BY <2>1, <2>3, <2>4, StoreAppends, Zenon
<1>2. KeysAreKept <=> [][Kept]_vars
  BY DEF KeysAreKept
<1> HIDE DEF Kept
<1> QED
  BY <1>1, <1>2, RingInit, RingStep, PTL DEF Spec

-----------------------------------------------------------------------------
(* Paths and mounts.  The components are counted by where they begin: the *)
(* number of a component is the rank of its first character among those.  *)

\* The rank of a position among those kept: how many are at or before it.
Upto(kept, k) == {j \in kept : j <= k}

\* Ranks grow with the position and run from 1 to the number kept.
LEMMA Ranks ==
  ASSUME NEW kept \in SUBSET Nat, IsFiniteSet(kept)
  PROVE  /\ Cardinality(kept) \in Nat
         /\ \A k \in kept : Cardinality(Upto(kept, k)) \in 1 .. Cardinality(kept)
         /\ \A j, k \in kept : j < k => Cardinality(Upto(kept, j)) < Cardinality(Upto(kept, k))
         /\ \A j \in 1 .. Cardinality(kept) : \E k \in kept : Cardinality(Upto(kept, k)) = j
<1> DEFINE upto(k) == Upto(kept, k)
           rank == [k \in kept |-> Cardinality(upto(k))]
           n == Cardinality(kept)
<1>1. n \in Nat
  BY FS_CardinalityType
<1>2. \A k \in kept : IsFiniteSet(upto(k)) /\ Cardinality(upto(k)) \in 1 .. n
  <2> TAKE k \in kept
  <2>1. upto(k) \in SUBSET kept /\ k \in upto(k)
    BY DEF Upto
  <2> HIDE DEF upto
  <2>2. IsFiniteSet(upto(k)) /\ Cardinality(upto(k)) <= n /\ Cardinality(upto(k)) \in Nat
    BY <1>1, <2>1, FS_Subset, FS_CardinalityType
  <2>3. Cardinality(upto(k)) # 0
    BY <2>1, <2>2, FS_EmptySet
  <2> QED
    BY <1>1, <2>2, <2>3
<1>3. \A j, k \in kept : j < k => Cardinality(upto(j)) < Cardinality(upto(k))
  <2> TAKE j, k \in kept
  <2> HAVE j < k
  <2>1. upto(j) \in SUBSET upto(k) /\ k \in upto(k) /\ k \notin upto(j)
    <3>1. j \in Nat /\ k \in Nat /\ \A x \in kept : x \in Nat
      OBVIOUS
    <3>2. \A x \in kept : x <= j => x <= k
      BY <3>1
    <3>3. k \in upto(k) /\ k \notin upto(j)
      BY <3>1 DEF Upto
    <3> QED
      BY <3>2, <3>3, Zenon DEF Upto
  <2> HIDE DEF upto
  <2>2. IsFiniteSet(upto(k)) /\ Cardinality(upto(k)) \in Nat /\ Cardinality(upto(j)) \in Nat
    BY <1>1, <1>2
  <2>3. Cardinality(upto(j)) <= Cardinality(upto(k)) /\ Cardinality(upto(k)) # Cardinality(upto(j))
    BY <2>1, <2>2, FS_Subset
  <2> QED
    BY <2>2, <2>3
<1> HIDE DEF upto
<1>4. rank \in Injection(kept, 1 .. n)
  <2>1. rank \in [kept -> 1 .. n]
    BY <1>2
  <2>2. \A j, k \in kept : rank[j] = rank[k] => j = k
    <3> TAKE j, k \in kept
    <3>1. j \in Nat /\ k \in Nat /\ Cardinality(upto(j)) \in Nat /\ Cardinality(upto(k)) \in Nat
      BY <1>1, <1>2
    <3> QED
      BY <1>3, <3>1
  <2> QED
    BY <2>1, <2>2 DEF Injection, IsInjective
<1>5. rank \in Surjection(kept, 1 .. n)
  <2>1. IsFiniteSet(1 .. n) /\ Cardinality(1 .. n) = n
    BY <1>1, FS_Interval
  <2> HIDE DEF rank
  <2> QED
    BY <1>4, <2>1, FS_Injection
<1>6. \A j \in 1 .. n : \E k \in kept : Cardinality(upto(k)) = j
  <2>1. \A j \in 1 .. n : \E k \in kept : rank[k] = j
    BY <1>5, Zenon DEF Surjection
  <2> QED
    BY <2>1
<1> QED
  BY <1>1, <1>2, <1>3, <1>6 DEF upto

\* A non-empty finite set of positions has a first: the one of rank 1.
LEMMA LeastPosition ==
  ASSUME NEW F \in SUBSET Nat, IsFiniteSet(F), F # {}
  PROVE  \E k \in F : \A j \in F : k <= j
<1>1. Cardinality(F) \in Nat /\ Cardinality(F) # 0
  BY FS_CardinalityType, FS_EmptySet
<1>2. 1 \in 1 .. Cardinality(F)
  BY <1>1
<1>3. PICK k \in F : Cardinality(Upto(F, k)) = 1
  BY <1>2, Ranks
<1>4. ASSUME NEW j \in F, j < k PROVE FALSE
  <2>1. Cardinality(Upto(F, j)) < 1 /\ Cardinality(Upto(F, j)) \in 1 .. Cardinality(F)
    BY <1>3, <1>4, Ranks
  <2> QED
    BY <1>1, <2>1
<1> QED
  BY <1>4


LEMMA SubSeqFacts ==
  ASSUME NEW S, NEW s \in Seq(S), NEW i \in Nat, NEW j \in Nat, 1 <= i, i <= j + 1, j <= Len(s)
  PROVE  /\ SubSeq(s, i, j) \in Seq(S)
         /\ Len(SubSeq(s, i, j)) = j - i + 1
         /\ \A k \in 1 .. j - i + 1 : SubSeq(s, i, j)[k] = s[i + k - 1]
OBVIOUS

\* A string starts with another when their first characters agree.
LEMMA StartsWith ==
  ASSUME NEW S, NEW s \in Seq(S), NEW t \in Seq(S)
  PROVE  starts_with(s, t) <=> Len(t) <= Len(s) /\ \A j \in 1 .. Len(t) : s[j] = t[j]
<1>1. Len(s) \in Nat /\ Len(t) \in Nat
  OBVIOUS
<1>2. ASSUME Len(t) <= Len(s)
      PROVE  (SubSeq(s, 1, Len(t)) = t) <=> \A j \in 1 .. Len(t) : s[j] = t[j]
  <2> DEFINE r == SubSeq(s, 1, Len(t))
  <2>1. r \in Seq(S) /\ Len(r) = Len(t) /\ \A k \in 1 .. Len(t) : r[k] = s[k]
    BY <1>1, <1>2, SubSeqFacts
  <2> HIDE DEF r
  <2>2. (\A j \in 1 .. Len(t) : s[j] = t[j]) => r = t
    BY <2>1, SameElements
  <2>3. r = t => \A j \in 1 .. Len(t) : s[j] = t[j]
    BY <2>1
  <2> QED
    BY <2>2, <2>3 DEF r
<1> QED
  BY <1>1, <1>2 DEF starts_with

-----------------------------------------------------------------------------
(* Components *)

Path == Seq(Chars)

\* Where components begin, and where the one that begins at i ends.
Begins(p) == {i \in 1 .. Len(p) : p[i] # "/" /\ (i = 1 \/ p[i - 1] = "/")}

Ends(p, i, e) ==
  /\ e \in i .. Len(p)
  /\ \A l \in i .. e : p[l] # "/"
  /\ e = Len(p) \/ p[e + 1] = "/"

\* The number of the component that begins at i.
Rank(p, i) == Cardinality(Upto(Begins(p), i))

\* The same of one position, whose predecessor is h.
LEMMA BeginAt ==
  ASSUME NEW p, NEW i \in 1 .. Len(p), NEW h, h = i - 1
  PROVE  i \in Begins(p) <=> p[i] # "/" /\ (i = 1 \/ p[h] = "/")
BY DEF Begins

\* The beginnings are finitely many positions of the path.
LEMMA BeginsFacts ==
  ASSUME NEW p \in Path
  PROVE  Len(p) \in Nat /\ Begins(p) \in SUBSET Nat /\ Begins(p) \in SUBSET (1 .. Len(p)) /\ IsFiniteSet(Begins(p))
<1>1. Len(p) \in Nat
  BY DEF Path
<1>2. Begins(p) \in SUBSET (1 .. Len(p))
  BY DEF Begins
<1>3. IsFiniteSet(1 .. Len(p))
  BY <1>1, FS_Interval
<1>4. Begins(p) \in SUBSET Nat
  BY <1>1, <1>2
<1> QED
  BY <1>1, <1>2, <1>3, <1>4, FS_Subset, Zenon

\* Some positions up to n have a first.
LEMMA LeastOf ==
  ASSUME NEW n \in Nat, NEW F \in SUBSET (1 .. n), F # {}
  PROVE  \E k \in F : \A j \in F : k <= j
<1>1. IsFiniteSet(1 .. n)
  BY FS_Interval
<1>2. IsFiniteSet(F)
  BY <1>1, FS_Subset, Zenon
<1>3. F \in SUBSET Nat
  OBVIOUS
<1> QED
  BY <1>2, <1>3, LeastPosition

\* From a character that is not a slash, a component ends somewhere,
LEMMA EndExists ==
  ASSUME NEW p \in Path, NEW i \in 1 .. Len(p), p[i] # "/"
  PROVE  \E e \in i .. Len(p) : Ends(p, i, e)
<1> DEFINE F == {e \in i .. Len(p) : e = Len(p) \/ p[e + 1] = "/"}
<1>1. Len(p) \in Nat
  BY DEF Path
<1>2. F \in SUBSET (1 .. Len(p)) /\ Len(p) \in F
  BY <1>1
<1>3. PICK e \in F : \A x \in F : e <= x
  <2> HIDE DEF F
  <2> QED
    BY <1>1, <1>2, LeastOf, Zenon
<1>4. \A l \in i .. e : p[l] # "/"
  <2> SUFFICES ASSUME NEW l \in i .. e, p[l] = "/" PROVE FALSE
    OBVIOUS
  <2>1. l - 1 \in F
    BY <1>1
  <2>2. e \in Int /\ l \in Int /\ l <= e
    BY <1>1
  <2> HIDE DEF F
  <2> QED
    BY <1>3, <2>1, <2>2
<1> QED
  BY <1>3, <1>4 DEF Ends

\* and at one place only.
LEMMA EndUnique ==
  ASSUME NEW p \in Path, NEW i \in 1 .. Len(p), NEW d, NEW e, Ends(p, i, d), Ends(p, i, e)
  PROVE  d = e
<1>1. Len(p) \in Nat /\ d \in i .. Len(p) /\ e \in i .. Len(p)
  BY DEF Path, Ends
<1>2. ASSUME NEW x \in i .. Len(p), NEW y \in i .. Len(p), Ends(p, i, x), Ends(p, i, y), x < y PROVE FALSE
  <2>1. x + 1 \in i .. y /\ x # Len(p)
    BY <1>1, <1>2
  <2> QED
    BY <1>2, <2>1 DEF Ends
<1> QED
  BY <1>1, <1>2

\* Every character but a slash belongs to a component.
LEMMA Covering ==
  ASSUME NEW p \in Path, NEW j \in 1 .. Len(p), p[j] # "/"
  PROVE  \E i \in Begins(p) : i <= j /\ \A l \in i .. j : p[l] # "/"
<1> DEFINE F == {i \in 1 .. j : \A l \in i .. j : p[l] # "/"}
<1>1. Len(p) \in Nat
  BY DEF Path
<1>2. F \in SUBSET (1 .. Len(p)) /\ j \in F
  BY <1>1
<1>3. PICK i \in F : \A x \in F : i <= x
  <2> HIDE DEF F
  <2> QED
    BY <1>1, <1>2, LeastOf, Zenon
<1>4. i = 1 \/ p[i - 1] = "/"
  <2> SUFFICES ASSUME i # 1, p[i - 1] # "/" PROVE FALSE
    OBVIOUS
  <2>1. i - 1 \in 1 .. j /\ \A l \in i - 1 .. j : l = i - 1 \/ l \in i .. j
    BY <1>1
  <2>2. i - 1 \in F
    BY <2>1
  <2> QED
    BY <1>1, <1>3, <2>2
<1>5. i \in 1 .. Len(p) /\ i \in i .. j
  BY <1>1
<1> QED
  BY <1>3, <1>4, <1>5 DEF Begins

\* The components are the strings between the slashes, in their order.
LEMMA ComponentsFacts ==
  ASSUME NEW p \in Path
  PROVE  /\ Components(p) \in Seq(Path)
         /\ Len(Components(p)) = Cardinality(Begins(p)) /\ Len(Components(p)) \in Nat
         /\ \A i \in Begins(p) : Rank(p, i) \in 1 .. Len(Components(p))
         /\ \A k \in 1 .. Len(Components(p)) : \E i \in Begins(p) : Rank(p, i) = k
         /\ \A i \in Begins(p) : \A e \in i .. Len(p) :
              Ends(p, i, e) => Components(p)[Rank(p, i)] = SubSeq(p, i, e)
<1> DEFINE B == Begins(p)
           n == Cardinality(B)
           from(k) == CHOOSE i \in B : Cardinality({j \in B : j <= i}) = k
           part(i) == {j \in i .. Len(p) : \A l \in i .. j : p[l] # "/"}
           name(k) == SubSeq(p, from(k), from(k) + Cardinality(part(from(k))) - 1)
           c == [k \in 1 .. n |-> name(k)]
<1>1. Components(p) = c
  BY Zenon DEF Components, Begins
<1>2. /\ n \in Nat
      /\ \A i \in B : Rank(p, i) \in 1 .. n
      /\ \A i, j \in B : i < j => Rank(p, i) < Rank(p, j)
      /\ \A k \in 1 .. n : \E i \in B : Rank(p, i) = k
  BY BeginsFacts, Ranks DEF Rank
<1>3. \A i \in B : Rank(p, i) = Cardinality({j \in B : j <= i})
  BY DEF Rank, Upto
<1>4. \A i, j \in B : Rank(p, i) = Rank(p, j) => i = j
  <2>1. \A i, j \in B : i \in Nat /\ j \in Nat /\ Rank(p, i) \in Nat /\ Rank(p, j) \in Nat
    BY <1>2, BeginsFacts
  <2> HIDE DEF B
  <2> QED
    BY <1>2, <2>1
<1>5. \A k \in 1 .. n : from(k) \in B /\ Rank(p, from(k)) = k
  <2> TAKE k \in 1 .. n
  <2>1. \E i \in B : Cardinality({j \in B : j <= i}) = k
    BY <1>2, <1>3
  <2>2. from(k) \in B /\ Cardinality({j \in B : j <= from(k)}) = k
    BY <2>1, Zenon
  <2> HIDE DEF from, B
  <2> QED
    BY <1>3, <2>2
<1>6. \A i \in B : from(Rank(p, i)) = i
  <2> HIDE DEF from, B, n
  <2> QED
    BY <1>2, <1>4, <1>5
<1>7. ASSUME NEW i \in B, NEW e \in i .. Len(p), Ends(p, i, e)
      PROVE  i + Cardinality(part(i)) - 1 = e
  <2>1. i \in Nat /\ Len(p) \in Nat /\ i >= 1
    BY BeginsFacts
  <2>2. part(i) = i .. e
    <3>1. \A j \in i .. e : j \in i .. Len(p) /\ \A l \in i .. j : l \in i .. e
      BY <2>1
    <3>2. \A j \in i .. Len(p) : j \notin i .. e => e # Len(p) /\ e + 1 \in i .. j
      BY <2>1
    <3>3. \A l \in i .. e : p[l] # "/"
      BY <1>7 DEF Ends
    <3>4. e # Len(p) => p[e + 1] = "/"
      BY <1>7 DEF Ends
    <3> QED
      BY <3>1, <3>2, <3>3, <3>4
  <2>3. Cardinality(i .. e) = e - i + 1
    BY <2>1, FS_Interval
  <2> HIDE DEF part
  <2> QED
    BY <2>1, <2>2, <2>3
<1>8. \A i \in B : \E e \in i .. Len(p) : Ends(p, i, e)
  BY EndExists DEF Begins
<1>9. ASSUME NEW i \in B, NEW e \in i .. Len(p), Ends(p, i, e)
      PROVE  c[Rank(p, i)] = SubSeq(p, i, e)
  <2>1. c[Rank(p, i)] = SubSeq(p, i, i + Cardinality(part(i)) - 1)
    <3> HIDE DEF from, B, n, part
    <3> QED
      BY <1>2, <1>6, Zenon
  <2> QED
    BY <1>7, <1>9, <2>1, Zenon
<1>10. \A k \in 1 .. n : c[k] \in Path
  <2> TAKE k \in 1 .. n
  <2>1. PICK e \in from(k) .. Len(p) : Ends(p, from(k), e)
    BY <1>5, <1>8, Zenon
  <2>2. c[k] = SubSeq(p, from(k), e)
    <3> HIDE DEF c, from, B, n
    <3> QED
      BY <1>5, <1>9, <2>1
  <2>3. from(k) \in Nat /\ 1 <= from(k) /\ e \in Nat /\ from(k) <= e + 1 /\ e <= Len(p)
    <3> HIDE DEF from
    <3> QED
      BY <1>5, <2>1, BeginsFacts
  <2> HIDE DEF c, from, n
  <2> QED
    BY <2>2, <2>3, SubSeqFacts DEF Path
<1>11. c \in Seq(Path) /\ Len(c) = n
  <2> HIDE DEF name, n
  <2>1. c \in [1 .. n -> Path]
    BY <1>10
  <2> HIDE DEF c
  <2> QED
    BY <1>2, <2>1
<1> HIDE DEF c, n, name, from, part
<1> QED
  BY <1>1, <1>2, <1>9, <1>11 DEF n

\* Positions that strings share have the same number in both.
LEMMA SameRank ==
  ASSUME NEW p \in Path, NEW m \in Path, NEW i \in Begins(p), i \in Begins(m),
         \A l \in 1 .. i - 1 : p[l] = m[l]
  PROVE  Rank(p, i) = Rank(m, i)
<1>1. i \in Nat /\ i <= Len(p) /\ i <= Len(m) /\ Len(p) \in Nat /\ Len(m) \in Nat
  BY BeginsFacts
<1>2. ASSUME NEW s \in Path, NEW t \in Path, i \in Begins(t), i <= Len(t), i <= Len(s), Len(s) \in Nat, Len(t) \in Nat,
             \A l \in 1 .. i - 1 : s[l] = t[l], NEW x \in Begins(s), x <= i
      PROVE  x \in Begins(t)
  <2>1. x \in 1 .. Len(s) /\ s[x] # "/" /\ (x = 1 \/ s[x - 1] = "/")
    BY DEF Begins
  <2>2. CASE x < i
    <3>1. x \in 1 .. i - 1 /\ (x = 1 \/ x - 1 \in 1 .. i - 1) /\ x \in 1 .. Len(t)
      BY <1>1, <1>2, <2>1, <2>2
    <3> QED
      BY <1>2, <2>1, <3>1 DEF Begins
  <2>3. x = i \/ x < i
    BY <1>1, <1>2, <2>1
  <2> QED
    BY <1>2, <2>2, <2>3
<1>3. \A x \in Begins(p) : x <= i => x \in Begins(m)
  BY <1>1, <1>2
<1>4. \A x \in Begins(m) : x <= i => x \in Begins(p)
  BY <1>1, <1>2
<1>5. Upto(Begins(p), i) = Upto(Begins(m), i)
  BY <1>3, <1>4, Zenon DEF Upto
<1> QED
  BY <1>5 DEF Rank

\* A path of one character.
LEMMA OneElement ==
  ASSUME NEW S, NEW x \in S
  PROVE  <<x>> \in Seq(S) /\ Len(<<x>>) = 1 /\ <<x>>[1] = x
OBVIOUS

\* The root is a path, a single slash.
LEMMA RootFacts == Root \in Path /\ Len(Root) = 1 /\ Root[1] = "/"
<1>1. "/" \in Chars
  BY VfsConstants
<1> QED
  BY <1>1, OneElement, Zenon DEF Root, Path

\* What it means to be written normally.
LEMMA NormalFacts ==
  ASSUME NEW p \in Path, Normal(p)
  PROVE  /\ Len(p) \in Nat /\ Len(p) >= 1 /\ p[1] = "/"
         /\ p # Root => /\ Len(p) >= 2 /\ p[Len(p)] # "/"
                        /\ \A i \in 1 .. Len(p) : p[i] = "/" => i < Len(p) /\ p[i + 1] # "/"
<1>1. Len(p) \in Nat
  BY DEF Path
<1>2. Len(p) >= 1 /\ p[1] = "/"
  <2>1. starts_with(p, Root) /\ p \in Seq(Chars) /\ Root \in Seq(Chars)
    BY RootFacts DEF Normal, Path
  <2>2. Len(Root) <= Len(p) /\ \A j \in 1 .. Len(Root) : p[j] = Root[j]
    BY <2>1, StartsWith, Zenon
  <2> QED
    BY <1>1, <2>2, RootFacts
<1>3. ASSUME p # Root
      PROVE  \A i \in 1 .. Len(p) : p[i] = "/" => i < Len(p) /\ p[i + 1] # "/"
  BY <1>3 DEF Normal
<1>4. p # Root => Len(p) >= 2 /\ p[Len(p)] # "/"
  BY <1>1, <1>2, <1>3
<1> QED
  BY <1>1, <1>2, <1>3, <1>4

-----------------------------------------------------------------------------
(* Prefixes of strings and of components *)

\* A component that begins at one place of two strings, the same up to there,
\* and has the same number in both, is the same in both.
LEMMA SharedComponent ==
  ASSUME NEW p \in Path, NEW m \in Path, NEW i \in Begins(p), i \in Begins(m),
         \A l \in 1 .. i - 1 : p[l] = m[l],
         starts_with(Components(p), Components(m))
  PROVE  \E e \in i .. Len(m) : Ends(m, i, e) /\ Ends(p, i, e) /\ \A l \in i .. e : p[l] = m[l]
<1>1. i \in 1 .. Len(p) /\ i \in 1 .. Len(m) /\ p[i] # "/" /\ m[i] # "/"
  BY DEF Begins
<1>2. PICK d \in i .. Len(p) : Ends(p, i, d)
  BY <1>1, EndExists
<1>3. PICK e \in i .. Len(m) : Ends(m, i, e)
  BY <1>1, EndExists
<1>4. Components(p)[Rank(p, i)] = SubSeq(p, i, d) /\ Components(m)[Rank(m, i)] = SubSeq(m, i, e)
  BY <1>2, <1>3, ComponentsFacts, Zenon
<1>5. Rank(p, i) = Rank(m, i)
  BY SameRank
<1>6. Components(p)[Rank(m, i)] = Components(m)[Rank(m, i)]
  <2>1. Components(p) \in Seq(Path) /\ Components(m) \in Seq(Path) /\ Rank(m, i) \in 1 .. Len(Components(m))
    BY ComponentsFacts, Zenon
  <2>2. \A k \in 1 .. Len(Components(m)) : Components(p)[k] = Components(m)[k]
    BY ONLY <2>1, StartsWith, starts_with(Components(p), Components(m)), Zenon
  <2> QED
    BY <2>1, <2>2, Zenon
<1>7. SubSeq(p, i, d) = SubSeq(m, i, e)
  BY <1>4, <1>5, <1>6, Zenon
<1>8. i \in Nat /\ d \in Nat /\ e \in Nat /\ 1 <= i /\ i <= d + 1 /\ i <= e + 1 /\ d <= Len(p) /\ e <= Len(m)
  BY <1>1, BeginsFacts
<1>9. /\ Len(SubSeq(p, i, d)) = d - i + 1 /\ \A k \in 1 .. d - i + 1 : SubSeq(p, i, d)[k] = p[i + k - 1]
      /\ Len(SubSeq(m, i, e)) = e - i + 1 /\ \A k \in 1 .. e - i + 1 : SubSeq(m, i, e)[k] = m[i + k - 1]
  BY <1>8, SubSeqFacts DEF Path
<1>10. d = e
  BY <1>7, <1>8, <1>9
<1>11. ASSUME NEW l \in i .. e PROVE p[l] = m[l]
  <2>1. l - i + 1 \in 1 .. e - i + 1 /\ i + (l - i + 1) - 1 = l
    BY <1>8
  <2>2. SubSeq(p, i, d)[l - i + 1] = p[l] /\ SubSeq(m, i, e)[l - i + 1] = m[l]
    BY <1>9, <1>10, <2>1, Zenon
  <2> QED
    BY <1>7, <2>2, Zenon
<1> QED
  BY <1>2, <1>3, <1>10, <1>11

\* Where two strings agree, components begin at the same places.
LEMMA SharedBegin ==
  ASSUME NEW p \in Path, NEW m \in Path, NEW i \in Begins(m), i <= Len(p), \A l \in 1 .. i : p[l] = m[l]
  PROVE  i \in Begins(p)
<1>1. i \in Nat /\ i >= 1 /\ Len(p) \in Nat
  BY BeginsFacts
<1>2. i \in 1 .. i /\ (i = 1 \/ i - 1 \in 1 .. i) /\ i \in 1 .. Len(p)
  BY <1>1
<1> QED
  BY <1>2 DEF Begins

\* Of two strings that agree as long as the shorter lasts, the shorter has
\* fewer components if the longer goes on with another.
LEMMA FewerComponents ==
  ASSUME NEW p \in Path, NEW m \in Path, Len(p) < Len(m), \A l \in 1 .. Len(p) : p[l] = m[l],
         NEW x \in Begins(m), x > Len(p)
  PROVE  Len(Components(p)) < Len(Components(m))
<1>1. Begins(p) \in SUBSET Begins(m)
  <2> SUFFICES ASSUME NEW i \in Begins(p) PROVE i \in Begins(m)
    OBVIOUS
  <2>1. i \in Nat /\ i <= Len(p) /\ Len(p) \in Nat /\ Len(m) \in Nat
    BY BeginsFacts
  <2>2. i <= Len(m) /\ \A l \in 1 .. i : m[l] = p[l]
    BY <2>1
  <2> QED
    BY <2>2, SharedBegin
<1>2. x \notin Begins(p)
  BY BeginsFacts
<1>3. IsFiniteSet(Begins(m))
  BY BeginsFacts
<1>4. Cardinality(Begins(p)) <= Cardinality(Begins(m)) /\ Cardinality(Begins(m)) # Cardinality(Begins(p))
  BY <1>1, <1>2, <1>3, FS_Subset
<1> QED
  BY <1>4, ComponentsFacts

\* A mount that holds a path component by component is a prefix of its
\* string.
LEMMA HeldIsPrefix ==
  ASSUME NEW p \in Path, NEW m \in Path, Normal(p), Normal(m), m # Root,
         starts_with(Components(p), Components(m))
  PROVE  starts_with(p, m)
<1> DEFINE Bad == {j \in 1 .. Len(m) : j > Len(p) \/ p[j] # m[j]}
<1>1. Len(p) \in Nat /\ Len(p) >= 1 /\ p[1] = "/" /\ Len(m) \in Nat /\ Len(m) >= 2 /\ m[1] = "/"
  BY NormalFacts
<1>2. Len(Components(m)) <= Len(Components(p))
  BY ComponentsFacts, StartsWith
<1>3. ASSUME Bad = {} PROVE starts_with(p, m)
  <2>1. \A j \in 1 .. Len(m) : j <= Len(p) /\ p[j] = m[j]
    BY <1>1, <1>3
  <2>2. Len(m) \in 1 .. Len(m)
    BY <1>1
  <2> QED
    BY <2>1, <2>2, StartsWith DEF Path
<1>4. ASSUME Bad # {} PROVE FALSE
  <2>1. PICK j \in Bad : \A x \in Bad : j <= x
    <3>1. Bad \in SUBSET (1 .. Len(m))
      OBVIOUS
    <3> HIDE DEF Bad
    <3> QED
      BY <1>1, <1>4, <3>1, LeastOf, Zenon
  <2>2. j \in 1 .. Len(m) /\ (j > Len(p) \/ p[j] # m[j]) /\ j # 1
    BY <1>1
  <2>3. j - 1 <= Len(p) /\ \A l \in 1 .. j - 1 : p[l] = m[l]
    <3>1. \A l \in 1 .. j - 1 : l \notin Bad /\ l \in 1 .. Len(m)
      BY <1>1, <2>1, <2>2
    <3>2. \A l \in 1 .. j - 1 : l <= Len(p) /\ p[l] = m[l]
      BY <1>1, <3>1
    <3>3. j - 1 \in 1 .. j - 1
      BY <1>1, <2>2
    <3> QED
      BY <3>2, <3>3
  <2>4. \A l \in 1 .. Len(m) : m[l] = "/" => l < Len(m) /\ m[l + 1] # "/"
    BY NormalFacts
  <2> HIDE DEF Bad
  <2>5. CASE m[j] # "/"
    <3>1. PICK i \in Begins(m) : i <= j /\ \A l \in i .. j : m[l] # "/"
      BY <2>2, <2>5, Covering
    <3>2. i \in Nat /\ i >= 1 /\ (i = 1 \/ m[i - 1] = "/") /\ i # 1
      BY <1>1, BeginsFacts DEF Begins
    <3>3. i \in Begins(p)
      <4>1. CASE i < j
        <5>1. i <= Len(p) /\ \A l \in 1 .. i : p[l] = m[l]
          BY <1>1, <2>2, <2>3, <3>2, <4>1
        <5> QED
          BY <5>1, SharedBegin
      <4>2. CASE i = j
        <5>1. p[i - 1] = "/" /\ i - 1 \in 1 .. Len(p)
          BY <1>1, <2>2, <2>3, <3>2, <4>2
        <5>2. p # Root
          <6> SUFFICES ASSUME p = Root PROVE FALSE
            OBVIOUS
          <6>1. Len(p) = 1
            BY DEF Root
          <6>2. \A l \in 1 .. Len(p) : p[l] = m[l]
            BY <1>1, <6>1
          <6>3. Len(p) < Len(m) /\ i > Len(p)
            BY <1>1, <3>2, <6>1
          <6>4. Len(Components(p)) < Len(Components(m))
            BY <6>2, <6>3, FewerComponents
          <6> QED
            BY <1>2, <6>4, ComponentsFacts
        <5>3. i - 1 < Len(p) /\ p[i - 1 + 1] # "/"
          BY <5>1, <5>2, NormalFacts
        <5>4. i \in 1 .. Len(p) /\ p[i] # "/"
          BY <1>1, <3>2, <5>3
        <5> QED
          BY <5>1, <5>4 DEF Begins
      <4> QED
        BY <1>1, <2>2, <3>1, <3>2, <4>1, <4>2, SMTT(30)
    <3>4. \A l \in 1 .. i - 1 : p[l] = m[l]
      BY <1>1, <2>2, <2>3, <3>1, <3>2, SMTT(30)
    <3>5. PICK e \in i .. Len(m) : Ends(m, i, e) /\ Ends(p, i, e) /\ \A l \in i .. e : p[l] = m[l]
      BY <3>3, <3>4, SharedComponent
    <3>6. j <= e
      <4> SUFFICES ASSUME j > e PROVE FALSE
        BY <1>1, <2>2, <3>2
      <4>1. e + 1 \in i .. j /\ e # Len(m)
        BY <1>1, <2>2, <3>2
      <4> QED
        BY <3>1, <3>5, <4>1 DEF Ends
    <3>7. e <= Len(p)
      BY <1>1, <3>5 DEF Ends
    <3>8. j \in i .. e /\ j <= Len(p)
      BY <1>1, <2>2, <3>1, <3>2, <3>6, <3>7
    <3> QED
      BY <1>1, <2>2, <3>5, <3>8
  <2>6. CASE m[j] = "/"
    <3>1. j - 1 \in 1 .. Len(m) /\ m[j - 1] # "/"
      <4>1. j - 1 \in 1 .. Len(m) /\ j - 1 + 1 = j
        BY <1>1, <2>2
      <4> QED
        BY <2>4, <2>6, <4>1
    <3>2. PICK i \in Begins(m) : i <= j - 1 /\ \A l \in i .. j - 1 : m[l] # "/"
      BY <3>1, Covering
    <3>3. i \in Nat /\ i >= 1
      BY BeginsFacts
    <3>4. i <= Len(p) /\ (\A l \in 1 .. i : p[l] = m[l]) /\ (\A l \in 1 .. i - 1 : p[l] = m[l])
      BY <1>1, <2>2, <2>3, <3>2, <3>3
    <3>5. i \in Begins(p)
      BY <3>4, SharedBegin
    <3>6. PICK e \in i .. Len(m) : Ends(m, i, e) /\ Ends(p, i, e)
      BY <3>4, <3>5, SharedComponent
    <3>7. Ends(m, i, j - 1)
      <4>1. j - 1 \in i .. Len(m) /\ j - 1 + 1 = j
        BY <1>1, <2>2, <3>2, <3>3
      <4> QED
        BY <2>6, <3>2, <4>1 DEF Ends
    <3>8. i \in 1 .. Len(m)
      BY BeginsFacts
    <3>9. e = j - 1
      BY <3>6, <3>7, <3>8, EndUnique
    <3>10. j - 1 = Len(p) \/ p[j - 1 + 1] = "/"
      BY <3>6, <3>9 DEF Ends
    <3>11. j - 1 = Len(p)
      BY <1>1, <2>2, <2>3, <2>6, <3>10
    <3>12. j < Len(m) /\ m[j + 1] # "/"
      BY <2>2, <2>4, <2>6
    <3>13. j + 1 \in Begins(m)
      <4> DEFINE k == j + 1
      <4>1. k \in 1 .. Len(m) /\ j = k - 1
        BY <1>1, <2>2, <3>12
      <4>2. m[k] # "/" /\ m[j] = "/"
        BY <2>6, <3>12
      <4> HIDE DEF k
      <4>3. k \in Begins(m)
        BY <4>1, <4>2, BeginAt
      <4> QED
        BY <4>3 DEF k
    <3>14. Len(p) < Len(m) /\ j + 1 > Len(p) /\ \A l \in 1 .. Len(p) : p[l] = m[l]
      BY <1>1, <2>2, <2>3, <3>11
    <3>15. Len(Components(p)) < Len(Components(m))
      BY <3>13, <3>14, FewerComponents
    <3> QED
      BY <1>2, <3>15, ComponentsFacts
  <2> QED
    BY <2>5, <2>6
<1> QED
  BY <1>3, <1>4

\* It is a prefix up to the end of a name.
LEMMA HeldEndsName ==
  ASSUME NEW p \in Path, NEW m \in Path, Normal(m), m # Root,
         starts_with(p, m), starts_with(Components(p), Components(m))
  PROVE  Len(p) = Len(m) \/ p[Len(m) + 1] = "/"
<1>1. Len(p) \in Nat /\ Len(m) \in Nat /\ Len(m) >= 2 /\ m[Len(m)] # "/" /\ Len(m) \in 1 .. Len(m)
  BY NormalFacts, BeginsFacts
<1>2. Len(m) <= Len(p) /\ \A l \in 1 .. Len(m) : p[l] = m[l]
  BY StartsWith DEF Path
<1>3. PICK i \in Begins(m) : i <= Len(m) /\ \A l \in i .. Len(m) : m[l] # "/"
  BY <1>1, Covering
<1>4. i \in Nat /\ i >= 1 /\ i \in 1 .. Len(m)
  BY BeginsFacts
<1>5. i <= Len(p) /\ (\A l \in 1 .. i : p[l] = m[l]) /\ (\A l \in 1 .. i - 1 : p[l] = m[l])
  BY <1>1, <1>2, <1>3, <1>4
<1>6. i \in Begins(p)
  BY <1>5, SharedBegin
<1>7. PICK e \in i .. Len(m) : Ends(m, i, e) /\ Ends(p, i, e)
  BY <1>5, <1>6, SharedComponent
<1>8. Ends(m, i, Len(m))
  <2>1. Len(m) \in i .. Len(m)
    BY <1>1, <1>4
  <2> QED
    BY <1>3, <2>1 DEF Ends
<1>9. e = Len(m)
  BY <1>4, <1>7, <1>8, EndUnique
<1> QED
  BY <1>7, <1>9 DEF Ends

\* Positions moved by L are as many as before.
LEMMA Shifted ==
  ASSUME NEW F \in SUBSET Nat, IsFiniteSet(F), NEW L \in Nat
  PROVE  IsFiniteSet({L + x : x \in F}) /\ Cardinality({L + x : x \in F}) = Cardinality(F)
<1> DEFINE T == {L + x : x \in F}
           f == [x \in F |-> L + x]
<1>1. f \in [F -> T]
  OBVIOUS
<1>2. \A x, y \in F : f[x] = f[y] => x = y
  OBVIOUS
<1>3. \A y \in T : \E x \in F : f[x] = y
  OBVIOUS
<1> HIDE DEF f, T
<1>4. f \in Bijection(F, T)
  BY <1>1, <1>2, <1>3 DEF Bijection, Injection, Surjection, IsInjective
<1>5. ExistsBijection(F, T)
  BY <1>4 DEF ExistsBijection
<1>6. IsFiniteSet(T) /\ Cardinality(T) = Cardinality(F)
  BY <1>5, FS_Bijection
<1> QED
  BY <1>6 DEF T

\* Two sets of positions, one before L and one behind it, count together.
LEMMA CountBehind ==
  ASSUME NEW L \in Nat, NEW A \in SUBSET (1 .. L), IsFiniteSet(A), NEW F \in SUBSET (Nat \ {0}), IsFiniteSet(F)
  PROVE  Cardinality(A \cup {L + x : x \in F}) = Cardinality(A) + Cardinality(F)
<1> DEFINE T == {L + x : x \in F}
<1>1. IsFiniteSet(T) /\ Cardinality(T) = Cardinality(F)
  <2>1. F \in SUBSET Nat
    OBVIOUS
  <2> QED
    BY <2>1, Shifted, Zenon
<1>2. A \cap T = {}
  OBVIOUS
<1>3. Cardinality(A) \in Nat /\ Cardinality(F) \in Nat
  BY FS_CardinalityType
<1> HIDE DEF T
<1>4. Cardinality(A \cup T) = Cardinality(A) + Cardinality(T) - Cardinality({})
  BY <1>1, <1>2, FS_Union
<1>5. Cardinality(A \cup T) = Cardinality(A) + Cardinality(F)
  BY <1>1, <1>3, <1>4, FS_EmptySet
<1> QED
  BY <1>5 DEF T

\* Cut between components, the rest of a path has the rest of its components.
LEMMA RestComponents ==
  ASSUME NEW p \in Path, NEW m \in Path, starts_with(p, m), Len(m) >= 1,
         Len(p) = Len(m) \/ p[Len(m) + 1] = "/" \/ m[Len(m)] = "/"
  PROVE  Components(SubSeq(p, Len(m) + 1, Len(p)))
           = SubSeq(Components(p), Len(Components(m)) + 1, Len(Components(p)))
<1> DEFINE L == Len(m)
           r == SubSeq(p, L + 1, Len(p))
           n == Len(Components(m))
<1>1. L \in Nat /\ L >= 1 /\ Len(p) \in Nat /\ L <= Len(p) /\ \A l \in 1 .. L : p[l] = m[l]
  BY BeginsFacts, StartsWith DEF Path
<1>2. r \in Path /\ Len(r) = Len(p) - L /\ \A k \in 1 .. Len(p) - L : r[k] = p[L + k]
  <2>1. L + 1 \in Nat /\ 1 <= L + 1 /\ L + 1 <= Len(p) + 1 /\ Len(p) <= Len(p)
    BY <1>1
  <2>2. /\ r \in Path /\ Len(r) = Len(p) - (L + 1) + 1
        /\ \A k \in 1 .. Len(p) - (L + 1) + 1 : r[k] = p[L + 1 + k - 1]
    BY <1>1, <2>1, SubSeqFacts DEF Path
  <2> HIDE DEF r
  <2>3. Len(p) - (L + 1) + 1 = Len(p) - L /\ \A k \in 1 .. Len(p) - L : L + 1 + k - 1 = L + k
    BY <1>1
  <2> QED
    BY <2>2, <2>3
<1>3. p[L] = "/" \/ Len(p) = L \/ p[L + 1] = "/"
  BY <1>1
<1> HIDE DEF L, r
<1>4. \A i \in 1 .. Len(r) : i \in Begins(r) <=> L + i \in Begins(p)
  <2> TAKE i \in 1 .. Len(r)
  <2>1. L + i \in 1 .. Len(p) /\ r[i] = p[L + i] /\ L + i # 1
    BY <1>1, <1>2
  <2>4. L + i \in Begins(p) <=> p[L + i] # "/" /\ p[L + i - 1] = "/"
    <3> DEFINE k == L + i
               h == L + i - 1
    <3>1. k \in 1 .. Len(p) /\ k # 1 /\ h = k - 1
      BY <1>1, <2>1
    <3> HIDE DEF k, h
    <3>2. k \in Begins(p) <=> p[k] # "/" /\ p[h] = "/"
      BY <3>1, BeginAt
    <3> QED
      BY <3>2, Zenon DEF k, h
  <2>2. CASE i = 1
    <3>1. L + i - 1 = L /\ L + i = L + 1 /\ Len(p) # L
      BY <1>1, <1>2, <2>2
    <3>2. i \in Begins(r) <=> r[i] # "/"
      BY <2>2, Zenon DEF Begins
    <3> QED
      BY <1>3, <2>1, <2>4, <3>1, <3>2, Zenon
  <2>3. CASE i # 1
    <3>1. i - 1 \in 1 .. Len(p) - L /\ L + (i - 1) = L + i - 1
      BY <1>1, <1>2, <2>3
    <3>2. r[i - 1] = p[L + i - 1]
      BY <1>2, <3>1
    <3>3. i \in Begins(r) <=> r[i] # "/" /\ r[i - 1] = "/"
      BY <2>3, Zenon DEF Begins
    <3> QED
      BY <2>1, <2>4, <3>2, <3>3, Zenon
  <2> QED
    BY <2>2, <2>3
<1>5. Begins(m) \in SUBSET (1 .. L) /\ IsFiniteSet(Begins(m))
  BY BeginsFacts DEF L
<1>6. Begins(r) \in SUBSET (Nat \ {0}) /\ IsFiniteSet(Begins(r)) /\ Begins(r) \in SUBSET (1 .. Len(r)) /\ Len(r) \in Nat
  BY <1>2, BeginsFacts
<1>7. \A x \in 1 .. L : x \in Begins(p) <=> x \in Begins(m)
  <2> TAKE x \in 1 .. L
  <2>1. x \in 1 .. Len(p) /\ x \in 1 .. Len(m) /\ p[x] = m[x] /\ (x = 1 \/ p[x - 1] = m[x - 1])
    BY <1>1 DEF L
  <2> QED
    BY <2>1 DEF Begins
<1>8. Begins(p) \in SUBSET (1 .. Len(p))
  BY BeginsFacts
<1>9. Begins(p) = Begins(m) \cup {L + x : x \in Begins(r)}
  <2>1. ASSUME NEW x \in Begins(p) PROVE x \in Begins(m) \/ \E y \in Begins(r) : x = L + y
    <3>1. x \in 1 .. L \/ (x - L \in 1 .. Len(r) /\ x = L + (x - L))
      BY <1>1, <1>2, <1>8
    <3> QED
      BY <1>4, <1>7, <3>1
  <2>2. \A x \in Begins(m) : x \in Begins(p)
    BY <1>5, <1>7
  <2>3. \A y \in Begins(r) : L + y \in Begins(p)
    BY <1>4, <1>6
  <2> QED
    BY <2>1, <2>2, <2>3
<1>10. Cardinality(Begins(p)) = Cardinality(Begins(m)) + Cardinality(Begins(r))
  <2>1. Cardinality(Begins(m) \cup {L + x : x \in Begins(r)}) = Cardinality(Begins(m)) + Cardinality(Begins(r))
    BY <1>1, <1>5, <1>6, CountBehind, Zenon
  <2> QED
    BY <1>9, <2>1, Zenon
<1>11. ASSUME NEW i \in Begins(r) PROVE Rank(p, L + i) = Cardinality(Begins(m)) + Rank(r, i)
  <2> DEFINE F == Upto(Begins(r), i)
  <2>1. F \in SUBSET Begins(r) /\ F \in SUBSET (Nat \ {0})
    BY <1>6 DEF Upto
  <2>2. IsFiniteSet(F)
    BY <1>6, <2>1, FS_Subset, Zenon
  <2>3. Upto(Begins(p), L + i) = Begins(m) \cup {L + x : x \in F}
    <3>1. \A x \in Begins(m) : x <= L + i
      BY <1>1, <1>5, <1>6
    <3>2. \A x \in Begins(r) : L + x <= L + i <=> x <= i
      BY <1>1, <1>6
    <3> QED
      BY <1>9, <3>1, <3>2 DEF Upto
  <2> HIDE DEF F
  <2>4. Cardinality(Begins(m) \cup {L + x : x \in F}) = Cardinality(Begins(m)) + Cardinality(F)
    BY <1>1, <1>5, <2>1, <2>2, CountBehind, Zenon
  <2> QED
    BY <2>3, <2>4, Zenon DEF Rank, F
<1>12. /\ Len(Components(p)) = n + Len(Components(r)) /\ n = Cardinality(Begins(m))
       /\ n \in Nat /\ Len(Components(r)) \in Nat
  BY <1>2, <1>10, ComponentsFacts
<1> HIDE DEF n
<1>13. ASSUME NEW k \in 1 .. Len(Components(r)) PROVE Components(r)[k] = Components(p)[n + k]
  <2>1. PICK i \in Begins(r) : Rank(r, i) = k
    BY <1>2, ComponentsFacts
  <2>2. i \in 1 .. Len(r) /\ r[i] # "/"
    BY DEF Begins
  <2>3. PICK e \in i .. Len(r) : Ends(r, i, e)
    BY <1>2, <2>2, EndExists
  <2>4. Components(r)[k] = SubSeq(r, i, e)
    BY <1>2, <2>1, <2>3, ComponentsFacts, Zenon
  <2>5. L + i \in Begins(p) /\ Rank(p, L + i) = n + k
    BY <1>4, <1>11, <1>12, <2>1, <2>2
  <2>6. i \in Nat /\ e \in Nat /\ i >= 1 /\ i <= e /\ e <= Len(r) /\ Len(r) \in Nat /\ L + e \in L + i .. Len(p)
    BY <1>1, <1>2, <1>6, <2>2
  <2>7. Ends(p, L + i, L + e)
    <3>1. \A l \in L + i .. L + e : l - L \in i .. e /\ l - L \in 1 .. Len(p) - L /\ L + (l - L) = l
      BY <1>1, <1>2, <2>6
    <3>2. \A l \in L + i .. L + e : p[l] # "/"
      BY <1>2, <2>3, <3>1 DEF Ends
    <3>3. L + e = Len(p) \/ p[L + e + 1] = "/"
      <4>1. CASE e = Len(r)
        BY <1>1, <1>2, <4>1
      <4>2. CASE e # Len(r)
        <5>0. L \in Nat /\ Len(p) \in Nat /\ Len(r) = Len(p) - L
          BY <1>1, <1>2
        <5>1. e + 1 \in 1 .. Len(p) - L /\ L + (e + 1) = L + e + 1
          BY ONLY <2>6, <4>2, <5>0
        <5>2. r[e + 1] = "/"
          BY <2>3, <4>2 DEF Ends
        <5> QED
          BY <1>2, <5>1, <5>2
      <4> QED
        BY <4>1, <4>2
    <3> QED
      BY <2>6, <3>2, <3>3 DEF Ends
  <2>8. Components(p)[n + k] = SubSeq(p, L + i, L + e)
    BY <2>5, <2>6, <2>7, ComponentsFacts, Zenon
  <2>9. SubSeq(r, i, e) = SubSeq(p, L + i, L + e)
    <3> DEFINE s == SubSeq(r, i, e)
               t == SubSeq(p, L + i, L + e)
    <3>1. s \in Seq(Chars) /\ Len(s) = e - i + 1 /\ \A x \in 1 .. e - i + 1 : s[x] = r[i + x - 1]
      <4>1. 1 <= i /\ i <= e + 1
        BY <2>6
      <4> QED
        BY <1>2, <2>6, <4>1, SubSeqFacts DEF Path
    <3>2. PICK a \in Nat, b \in Nat : a = L + i /\ b = L + e
      BY <1>1, <2>6
    <3>3. t \in Seq(Chars) /\ Len(t) = b - a + 1 /\ \A x \in 1 .. b - a + 1 : t[x] = p[a + x - 1]
      <4>1. 1 <= a /\ a <= b + 1 /\ b <= Len(p)
        BY <1>1, <1>2, <2>6, <3>2
      <4>2. p \in Seq(Chars)
        BY DEF Path
      <4>3. t = SubSeq(p, a, b)
        BY <3>2
      <4> HIDE DEF t
      <4> QED
        BY <4>1, <4>2, <4>3, SubSeqFacts
    <3> HIDE DEF s, t
    <3>4. b - a + 1 = e - i + 1
      BY <1>1, <2>6, <3>2
    <3>5. \A x \in 1 .. e - i + 1 : s[x] = t[x]
      <4> TAKE x \in 1 .. e - i + 1
      <4>1. i + x - 1 \in 1 .. Len(p) - L /\ L + (i + x - 1) = a + x - 1
        BY <1>1, <1>2, <2>6, <3>2
      <4>2. s[x] = r[i + x - 1] /\ t[x] = p[a + x - 1]
        BY <3>1, <3>3, <3>4
      <4>3. r[i + x - 1] = p[a + x - 1]
        BY <1>2, <4>1
      <4> QED
        BY <4>2, <4>3
    <3>6. s = t
      BY <3>1, <3>3, <3>4, <3>5, SameElements
    <3> QED
      BY <3>6, Zenon DEF s, t
  <2> QED
    BY <2>4, <2>8, <2>9
<1>14. Components(r) \in Seq(Path) /\ Components(p) \in Seq(Path)
  BY <1>2, ComponentsFacts
<1> DEFINE c == Components(p)
           t == SubSeq(c, n + 1, Len(c))
<1>15. t \in Seq(Path) /\ Len(t) = Len(Components(r)) /\ \A k \in 1 .. Len(Components(r)) : t[k] = c[n + k]
  <2>1. c \in Seq(Path) /\ Len(c) = n + Len(Components(r))
    BY <1>12, <1>14
  <2> HIDE DEF c
  <2>2. n + 1 \in Nat /\ Len(c) \in Nat /\ 1 <= n + 1 /\ n + 1 <= Len(c) + 1 /\ Len(c) <= Len(c)
    BY <1>12, <2>1
  <2>3. t \in Seq(Path) /\ Len(t) = Len(c) - (n + 1) + 1 /\ \A k \in 1 .. Len(c) - (n + 1) + 1 : t[k] = c[n + 1 + k - 1]
    BY <2>1, <2>2, SubSeqFacts
  <2> HIDE DEF t
  <2>4. Len(c) - (n + 1) + 1 = Len(Components(r)) /\ \A k \in 1 .. Len(Components(r)) : n + 1 + k - 1 = n + k
    <3>1. n \in Nat /\ Len(Components(r)) \in Nat /\ Len(c) = n + Len(Components(r))
      BY <1>12, <2>1
    <3> QED
      BY ONLY <3>1
  <2> QED
    BY <2>3, <2>4
<1> HIDE DEF t
<1>16. Components(r) = t
  BY <1>13, <1>14, <1>15, SameElements, SMTT(30)
<1> QED
  BY <1>16 DEF t, r, n, L

\* Matching strings chooses the mount that matching components would.
LEMMA ResolvesByComponent ==
  ASSUME Mounted \subseteq Path, NEW path \in Path, Normal(path),
         \A m \in Mounted : Normal(m) /\ (starts_with(path, m) => m \in Holding(path))
  PROVE  Resolve(path) = Owned(path)
<1> DEFINE Inner == {h \in Holding(path) : \A o \in Holding(path) : Len(o) <= Len(h)}
           rest(m) == SubSeq(path, Len(m) + 1, Len(path))
           names(m) == SubSeq(Components(path), Len(Components(m)) + 1, Len(Components(path)))
<1>1. Root \in Path /\ Len(Root) = 1 /\ Root[1] = "/" /\ starts_with(path, Root)
  BY RootFacts, Zenon DEF Normal
<1>2. \A m \in Mounted : m \in Holding(path) <=> starts_with(path, m) /\ Len(m) > 0
  <2> TAKE m \in Mounted
  <2>1. m \in Path /\ Len(m) \in Nat /\ Len(m) >= 1
    BY NormalFacts
  <2>2. m \in Holding(path) /\ m # Root => starts_with(path, m)
    BY <2>1, HeldIsPrefix DEF Holding
  <2> QED
    BY <1>1, <2>1, <2>2
<1>3. BestMount(path) = Inner
  <2>1. {m \in Mounted : starts_with(path, m) /\ Len(m) > 0} = Holding(path)
    BY <1>2 DEF Holding
  <2> QED
    BY <2>1, Zenon DEF BestMount
<1>4. \A m \in Inner : Components(rest(m)) = names(m)
  <2> TAKE m \in Inner
  <2>1. m \in Mounted /\ m \in Path /\ starts_with(path, m) /\ starts_with(Components(path), Components(m))
    BY <1>2 DEF Holding
  <2>2. Len(m) \in Nat /\ Len(m) >= 1
    BY <2>1, NormalFacts
  <2>3. Len(path) = Len(m) \/ path[Len(m) + 1] = "/" \/ m[Len(m)] = "/"
    BY <1>1, <2>1, HeldEndsName
  <2> QED
    BY <2>1, <2>2, <2>3, RestComponents
<1>5. ASSUME Inner = {} PROVE Root \notin Mounted
  <2> SUFFICES ASSUME Root \in Mounted PROVE FALSE
    OBVIOUS
  <2> DEFINE F == {Len(path) + 1 - Len(h) : h \in Holding(path)}
  <2>1. Root \in Holding(path)
    BY <1>1
  <2>2. Len(path) \in Nat /\ \A h \in Holding(path) : Len(h) \in Nat /\ Len(h) >= 1 /\ Len(h) <= Len(path)
    <3>1. \A h \in Holding(path) : h \in Mounted /\ h \in Path /\ starts_with(path, h)
      BY <1>2 DEF Holding
    <3> QED
      BY <3>1, NormalFacts DEF starts_with
  <2>3. F \in SUBSET (1 .. Len(path)) /\ F # {}
    BY <2>1, <2>2
  <2>4. PICK x \in F : \A y \in F : x <= y
    <3> HIDE DEF F
    <3> QED
      BY <2>2, <2>3, LeastOf, Zenon
  <2>5. PICK h \in Holding(path) : x = Len(path) + 1 - Len(h)
    OBVIOUS
  <2>6. \A o \in Holding(path) : Len(o) <= Len(h)
    <3> TAKE o \in Holding(path)
    <3>1. Len(path) + 1 - Len(h) <= Len(path) + 1 - Len(o)
      BY <2>4, <2>5, Zenon
    <3> QED
      BY <2>2, <3>1
  <2> QED
    BY <1>5, <2>6
<1> HIDE DEF Inner, names, rest
<1>6. resolve_mount_point(path) = {<<m, rest(m)>> : m \in Inner}
  BY <1>3, <1>5 DEF resolve_mount_point, rest
<1>7. \A m \in Inner :
        traverse_path(mount_points[m], rest(m))
          = {<<mount_points[m], ns>> : ns \in Reachable(mount_points[m]) \cap {names(m)}}
  <2> TAKE m \in Inner
  <2>1. {Components(rest(m))} \cap Reachable(mount_points[m]) = Reachable(mount_points[m]) \cap {names(m)}
    BY <1>4, Zenon
  <2> QED
    BY <2>1, Zenon DEF traverse_path
<1>8. Resolve(path) = UNION {traverse_path(mount_points[m], rest(m)) : m \in Inner}
  <2> DEFINE at(r) == traverse_path(mount_points[r[1]], r[2])
  <2>1. Resolve(path) = UNION {at(r) : r \in {<<m, rest(m)>> : m \in Inner}}
    BY <1>6, Zenon DEF Resolve
  <2>2. \A m \in Inner : at(<<m, rest(m)>>) = traverse_path(mount_points[m], rest(m))
    OBVIOUS
  <2> HIDE DEF at
  <2>3. UNION {at(r) : r \in {<<m, rest(m)>> : m \in Inner}} = UNION {at(<<m, rest(m)>>) : m \in Inner}
    BY Zenon
  <2> QED
    BY <2>1, <2>2, <2>3, Zenon
<1>9. Owned(path) = UNION {{<<mount_points[m], ns>> : ns \in Reachable(mount_points[m]) \cap {names(m)}} : m \in Inner}
  BY DEF Owned, Inner, names
<1> QED
  BY <1>7, <1>8, <1>9

\* Only paths that mount is called with are mounted.
MountsInv == Mounted \subseteq MountPaths

LEMMA MountsStep == MountsInv /\ [VfsNext]_vfs_vars => MountsInv'
<1> SUFFICES ASSUME MountsInv, [VfsNext]_vfs_vars PROVE MountsInv'
  OBVIOUS
<1>1. CASE UNCHANGED mount_points
  BY <1>1 DEF MountsInv, Mounted
<1>2. ASSUME NEW path \in MountPaths, NEW fs, mount(path, fs) PROVE MountsInv'
  BY <1>2 DEF MountsInv, Mounted, mount, With
<1>3. ASSUME NEW path, unmount(path) PROVE MountsInv'
  BY <1>3 DEF MountsInv, Mounted, unmount, Without
<1>4. ASSUME NEW path, NEW flags, open(path, flags) PROVE UNCHANGED mount_points
  BY <1>4 DEF open
<1>5. ASSUME NEW fd, close(fd) PROVE UNCHANGED mount_points
  BY <1>5 DEF close
<1>6. ASSUME NEW fd, NEW n, read(fd, n) \/ write(fd, n) PROVE UNCHANGED mount_points
  BY <1>6 DEF read, write, transfer
<1> QED
  BY <1>1, <1>2, <1>3, <1>4, <1>5, <1>6 DEF VfsNext, vfs_vars

\* Whatever is mounted and unmounted, a path that no mount splits in the
\* middle of a name opens the inode that the innermost mount holding it,
\* component by component, has for its remaining names: the comparison of
\* characters in resolve_mount_point and the splitting in traverse_path
\* agree with that, for paths of any length over any characters.
THEOREM PathsResolveByComponent == ServicesSpec => []OpenResolvesByComponent
<1>1. ServicesInit => MountsInv
  BY DEF ServicesInit, VfsInit, MountsInv, Mounted
<1>2. [ServicesNext]_<<vfs_vars, mod_vars>> => [VfsNext]_vfs_vars
  BY DEF ServicesNext
<1>3. MountsInv /\ [ServicesNext]_<<vfs_vars, mod_vars>> => MountsInv'
  BY <1>2, MountsStep
<1>4. MountsInv => OpenResolvesByComponent
  <2> SUFFICES ASSUME MountsInv, NEW path \in Paths, Normal(path),
                      \A m \in Mounted : Normal(m) /\ (starts_with(path, m) => m \in Holding(path))
               PROVE  Resolve(path) = Owned(path)
    BY DEF OpenResolvesByComponent
  <2>1. Mounted \subseteq Path /\ path \in Path
    BY VfsConstants DEF MountsInv, Path
  <2> QED
    BY <2>1, ResolvesByComponent
<1> QED
  BY <1>1, <1>3, <1>4, PTL DEF ServicesSpec
===============================================================================
