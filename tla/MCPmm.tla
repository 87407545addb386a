------------------------------- MODULE MCPmm -------------------------------
(***************************************************************************)
(* A small memory for PmmScan: pages of 2 bytes, memory from byte 4, five  *)
(* pages and a stray byte, and a bitmap of 8 bits, so that there are bits  *)
(* past the end of the memory.                                             *)
(***************************************************************************)
EXTENDS PmmScan

\* One byte before the memory to one byte after it.
MCAddresses == base_addr - 1 .. end_addr + 1
MCSizes == {0, 1, 3}
=============================================================================
