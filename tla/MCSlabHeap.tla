----------------------------- MODULE MCSlabHeap -----------------------------
(* Two classes of 2 and 4 bytes, pages of 4 bytes. *)
EXTENDS SlabHeap

MCLayouts == {[size |-> 1, align |-> 1], [size |-> 1, align |-> 4],
              [size |-> 3, align |-> 2], [size |-> 5, align |-> 1]}
=============================================================================
