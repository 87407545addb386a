------------------------------- MODULE MCVmm -------------------------------
(* Ranges for the model checker: identity_map of one page below the others *)
(* and of two that share a page table.                                     *)
EXTENDS Vmm

MCRanges == {<<8, 10>>, <<4, 5>>}

\* Calls in the 1 GB that boot.asm maps with huge pages.
MCBootRanges == {<<0, 2>>}
=============================================================================
