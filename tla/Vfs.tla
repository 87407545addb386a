--------------------------------- MODULE Vfs ---------------------------------
(***************************************************************************)
(* The virtual file system, src/src/fs/vfs.rs: the mount table, the choice *)
(* of the mount for a path, the walk to an inode, and the descriptors.     *)
(*                                                                         *)
(* A path is a sequence of characters, because resolve_mount_point works   *)
(* on strings and not on components.  An inode is the file system it       *)
(* belongs to and the components that lead to it.  A file system is owned  *)
(* by the table: mount takes it, mounted or not, and unmount drops it, so  *)
(* none is mounted twice.  Which names a file system has, and how much a   *)
(* read or write transfers, is up to the implementer of the traits         *)
(* FileSystem and Inode; src/src/fs/ntfs.rs has the only one, whose lookup *)
(* finds nothing and whose root has no data.                               *)
(***************************************************************************)
EXTENDS Integers, Sequences, FiniteSets

CONSTANTS
  FileSystems,   \* the file systems that are mounted in the course of time
  Ntfs,          \* those of them that are NtfsVolumes
  Tree,          \* the inodes of the others, as sets of component sequences
  Chars,         \* the characters of paths
  MountPaths,    \* the paths given to mount and unmount
  Paths,         \* the paths given to open
  FlagSets,      \* the access flags given to open, of OpenFlags
  BufferLengths, \* bound: lengths of buffers
  MaxOffset,     \* bound: file offsets
  MaxFd          \* bound: descriptors ever opened

ASSUME VfsConstants ==
  /\ MaxFd \in Nat /\ MaxOffset \in Nat
  /\ "/" \in Chars /\ MountPaths \subseteq Seq(Chars) /\ Paths \subseteq Seq(Chars)

FIRST_FD == 3

\* The flag bits of OpenFlags that are ever looked at.
READ_ONLY == 1
WRITE_ONLY == 2
OpenFlags == SUBSET {READ_ONLY, WRITE_ONLY}

\* The inodes lookup can reach: an NtfsInode finds no name.
Reachable(fs) == IF fs \in Ntfs THEN {<<>>} ELSE Tree[fs]

Inodes == UNION {{<<fs, names>> : names \in Reachable(fs)} : fs \in FileSystems}

VARIABLES mount_points,  \* the file system at each mounted path
          unused,        \* the file systems mount has not taken yet
          next_fd,
          open_files     \* [inode, flags, offset] of each open descriptor

vfs_vars == <<mount_points, unused, next_fd, open_files>>

Mounted == DOMAIN mount_points
Without(f, x) == [k \in DOMAIN f \ {x} |-> f[k]]
With(f, x, v) == [k \in DOMAIN f \cup {x} |-> IF k = x THEN v ELSE f[k]]

VfsInit ==
  /\ mount_points = [p \in {} |-> p]
  /\ unused = FileSystems
  /\ next_fd = FIRST_FD
  /\ open_files = [fd \in {} |-> fd]

-----------------------------------------------------------------------------
(* Mounting.  The flags of a mount are stored and never read.              *)

\* Vfs::mount.  A refused file system is dropped with the call.
mount(path, fs) ==
  /\ fs \in unused
  /\ unused' = unused \ {fs}
  /\ \/ path \in Mounted /\ UNCHANGED mount_points
     \/ path \notin Mounted /\ mount_points' = With(mount_points, path, fs)
  /\ UNCHANGED <<next_fd, open_files>>

\* Vfs::unmount: open files do not stop it.
unmount(path) ==
  /\ \/ path \in Mounted /\ mount_points' = Without(mount_points, path)
     \/ path \notin Mounted /\ UNCHANGED mount_points
  /\ UNCHANGED <<unused, next_fd, open_files>>

-----------------------------------------------------------------------------
(* From a path to an inode *)

Root == <<"/">>

\* str::starts_with.
starts_with(s, t) == Len(t) <= Len(s) /\ SubSeq(s, 1, Len(t)) = t

\* Fault: the shortest of the mounts that match is taken.
BestMountShortest(path) ==
  LET matches == {m \in Mounted : starts_with(path, m) /\ Len(m) > 0}
  IN  {m \in matches : \A n \in matches : Len(m) <= Len(n)}

\* The longest mounted path the string starts with, if any.
BestMount(path) ==
  LET matches == {m \in Mounted : starts_with(path, m) /\ Len(m) > 0}
  IN  {m \in matches : \A n \in matches : Len(n) <= Len(m)}

\* resolve_mount_point: the mount and the rest of the path; the empty set for
\* FileSystemNotFound.
resolve_mount_point(path) ==
  IF BestMount(path) # {}
  THEN {<<m, SubSeq(path, Len(m) + 1, Len(path))>> : m \in BestMount(path)}
  ELSE {<<m, path>> : m \in Mounted \cap {Root}}

\* split('/') without the empty parts: one component for every place where
\* one begins.
Components(path) ==
  LET begins == {i \in 1 .. Len(path) : path[i] # "/" /\ (i = 1 \/ path[i - 1] = "/")}
      from(k) == CHOOSE i \in begins : Cardinality({j \in begins : j <= i}) = k
      part(i) == {j \in i .. Len(path) : \A l \in i .. j : path[l] # "/"}
  IN  [k \in 1 .. Cardinality(begins) |-> SubSeq(path, from(k), from(k) + Cardinality(part(from(k))) - 1)]

\* traverse_path: one lookup for each component; the first failure ends it.
traverse_path(fs, path) ==
  LET names == Components(path)
  IN  {<<fs, found>> : found \in {names} \cap Reachable(fs)}

\* The inode a path names now, if any.
Resolve(path) ==
  UNION {traverse_path(mount_points[r[1]], r[2]) : r \in resolve_mount_point(path)}

-----------------------------------------------------------------------------
(* Descriptors *)

NewDescriptor(inode, flags) == [inode |-> inode, flags |-> flags, offset |-> 0]

\* Fault: the lowest descriptor that is not open is used.
openReuses(path, flags) ==
  /\ \/ Resolve(path) = {} /\ UNCHANGED <<next_fd, open_files>>
     \/ \E inode \in Resolve(path) :
          /\ next_fd < FIRST_FD + MaxFd
          /\ LET free == (FIRST_FD .. next_fd) \ DOMAIN open_files
                 fd   == CHOOSE n \in free : \A k \in free : n <= k
             IN  open_files' = With(open_files, fd, NewDescriptor(inode, flags))
          /\ next_fd' = next_fd + 1
  /\ UNCHANGED <<mount_points, unused>>

\* Vfs::open.  CREATE, TRUNCATE, APPEND and EXCLUSIVE have no effect.
open(path, flags) ==
  /\ \/ Resolve(path) = {} /\ UNCHANGED <<next_fd, open_files>>
     \/ \E inode \in Resolve(path) :
          /\ next_fd < FIRST_FD + MaxFd
          /\ open_files' = With(open_files, next_fd, NewDescriptor(inode, flags))
          /\ next_fd' = next_fd + 1
  /\ UNCHANGED <<mount_points, unused>>

close(fd) ==
  /\ \/ fd \in DOMAIN open_files /\ open_files' = Without(open_files, fd)
     \/ fd \notin DOMAIN open_files /\ UNCHANGED open_files
  /\ UNCHANGED <<mount_points, unused, next_fd>>

\* How many of n bytes Inode::read and Inode::write transfer; none when they
\* fail.  The one inode a volume hands out, its root_inode, has no attributes
\* and so nothing to read, and an NtfsInode writes nothing.
InodeRead(inode, n) == IF inode[1] \in Ntfs THEN {0} ELSE 0 .. n
InodeWrite(inode, n) == IF inode[1] \in Ntfs THEN {0} ELSE 0 .. n

\* FileDescriptor::read and write: a descriptor that is not open, or not for
\* this, is refused.
transfer(fd, needed, counts) ==
  /\ \/ fd \notin DOMAIN open_files /\ UNCHANGED open_files
     \/ fd \in DOMAIN open_files /\ needed \notin open_files[fd].flags /\ UNCHANGED open_files
     \/ /\ fd \in DOMAIN open_files /\ needed \in open_files[fd].flags
        /\ \E bytes \in counts :
             /\ open_files[fd].offset + bytes <= MaxOffset
             /\ open_files' = [open_files EXCEPT ![fd].offset = @ + bytes]
  /\ UNCHANGED <<mount_points, unused, next_fd>>

read(fd, n) == transfer(fd, READ_ONLY, InodeRead(open_files[fd].inode, n))
write(fd, n) == transfer(fd, WRITE_ONLY, InodeWrite(open_files[fd].inode, n))

\* readdir, statfs and list_mounts resolve a path and change nothing.

VfsNext ==
  \/ \E path \in MountPaths, fs \in FileSystems : mount(path, fs)
  \/ \E path \in MountPaths : unmount(path)
  \/ \E path \in Paths, flags \in FlagSets : open(path, flags)
  \/ \E fd \in FIRST_FD .. FIRST_FD + MaxFd : close(fd)
  \/ \E fd \in FIRST_FD .. FIRST_FD + MaxFd, n \in BufferLengths : read(fd, n) \/ write(fd, n)

VfsSpec == VfsInit /\ [][VfsNext]_vfs_vars

-----------------------------------------------------------------------------
(* Properties *)

Descriptors ==
  INSTANCE HandleTable WITH
    Handles <- FIRST_FD .. FIRST_FD + MaxFd,
    Objects <- Inodes,
    bound   <- [fd \in DOMAIN open_files |-> open_files[fd].inode],
    issued  <- FIRST_FD .. next_fd - 1

\* A descriptor that open returned means the same inode until it is closed,
\* whatever is mounted, unmounted, opened or closed meanwhile, and a closed
\* descriptor never comes to mean another file (vfs.rs 244-265).
DescriptorsAreHandles == Descriptors!Spec

\* A path written without empty or trailing components, from the root.
Normal(path) ==
  /\ starts_with(path, Root)
  /\ \A i \in 1 .. Len(path) : path[i] = "/" => path = Root \/ (i < Len(path) /\ path[i + 1] # "/")

\* The mounts that hold a path, component by component.
Holding(path) == {m \in Mounted : starts_with(Components(path), Components(m))}

\* The inode the innermost of them has for the rest of the path.
Owned(path) ==
  UNION {{<<mount_points[m], names>> : names \in Reachable(mount_points[m])
            \cap {SubSeq(Components(path), Len(Components(m)) + 1, Len(Components(path)))}}
           : m \in {h \in Holding(path) : \A o \in Holding(path) : Len(o) <= Len(h)}}

\* Comparing strings decides as comparing components would, for a path that
\* no mount splits in the middle of a name: open reaches the inode that the
\* innermost mount holding the path has for it, across every mount and
\* unmount (resolve_mount_point and traverse_path, vfs.rs 288-325).
OpenResolvesByComponent ==
  \A path \in Paths :
    /\ Normal(path)
    /\ \A m \in Mounted : Normal(m) /\ (starts_with(path, m) => m \in Holding(path))
    => Resolve(path) = Owned(path)

\* The same of every path.  It does not hold: with "/a" mounted, "/ab" is
\* looked up there as "b" (vfs.rs 293).
OpenResolvesEveryPath ==
  \A path \in Paths :
    Normal(path) /\ (\A m \in Mounted : Normal(m)) => Resolve(path) = Owned(path)
=============================================================================
