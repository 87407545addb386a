--------------------------- MODULE MCKernelServices ---------------------------
(***************************************************************************)
(* A file system with a small tree and an NTFS volume, and paths chosen    *)
(* so that mounts nest, match inside a name, and miss.                     *)
(***************************************************************************)
EXTENDS KernelServices

CONSTANTS f, v

A == <<"/", "a">>
AB == <<"/", "a", "b">>
A_B == <<"/", "a", "/", "b">>

MCFileSystems == {f, v}
MCNtfs == {v}
MCTree == [fs \in MCFileSystems |-> {<<>>, << <<"a">> >>, << <<"b">> >>, << <<"a", "b">> >>, << <<"a">>, <<"b">> >>}]
MCMountPaths == {Root, A, A_B}
MCPaths == {A, AB, A_B, <<"b">>}
MCFlagSets == {{READ_ONLY}, {WRITE_ONLY}}
=============================================================================
