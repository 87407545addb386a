---------------------------- MODULE AddressSpace ----------------------------
(***************************************************************************)
(* What the virtual memory manager promises its callers: one partial map   *)
(* from virtual pages to mappings, changed one page at a time.  How many   *)
(* page tables the map needs is hidden, so Map may also fail for want of   *)
(* memory, and then it changes nothing a caller can see.                   *)
(***************************************************************************)
EXTENDS Naturals

CONSTANTS
    Virts,      \* virtual pages the callers name
    Physes,     \* physical pages they map
    CallFlags,  \* flag sets they pass
    Present,    \* the flag without which an entry maps nothing
    Unmapped    \* the page maps nothing

VARIABLES
    page,       \* page[v] is what v maps to
    reply       \* what the last call returned

Mapping(p, f) == IF Present \in f THEN [phys |-> p, flags |-> f] ELSE Unmapped

Init ==
    /\ page = [v \in Virts |-> Unmapped]
    /\ reply = "none"

Map(v, p, f) ==
    \/ /\ page[v] # Unmapped
       /\ reply' = "PageAlreadyMapped"
       /\ UNCHANGED page
    \/ /\ page[v] = Unmapped
       /\ reply' = "Ok"
       /\ page' = [page EXCEPT ![v] = Mapping(p, f)]
    \/ /\ page[v] = Unmapped
       /\ reply' = "OutOfMemory"
       /\ UNCHANGED page

Unmap(v) ==
    IF page[v] = Unmapped
    THEN reply' = "PageNotMapped" /\ UNCHANGED page
    ELSE reply' = "Ok" /\ page' = [page EXCEPT ![v] = Unmapped]

SetFlags(v, f) ==
    IF page[v] = Unmapped
    THEN reply' = "PageNotMapped" /\ UNCHANGED page
    ELSE reply' = "Ok" /\ page' = [page EXCEPT ![v] = Mapping(page[v].phys, f)]

Next ==
    \E v \in Virts :
        \/ \E p \in Physes, f \in CallFlags : Map(v, p, f)
        \/ Unmap(v)
        \/ \E f \in CallFlags : SetFlags(v, f)

Spec == Init /\ [][Next]_<<page, reply>>
=============================================================================
