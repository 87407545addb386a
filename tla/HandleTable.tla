----------------------------- MODULE HandleTable -----------------------------
(***************************************************************************)
(* What a table of handles promises those who keep one: a handle means one *)
(* object from the moment it is issued until it is retired, and nothing    *)
(* ever after.  File descriptors and module ids are such handles.          *)
(***************************************************************************)
CONSTANTS Handles, Objects

VARIABLES bound,   \* the object of each handle in use
          issued   \* every handle ever given out

Init == bound = [h \in {} |-> h] /\ issued = {}

Issue(h, o) ==
    /\ h \notin issued
    /\ issued' = issued \cup {h}
    /\ bound' = [k \in DOMAIN bound \cup {h} |-> IF k = h THEN o ELSE bound[k]]

Retire(h) ==
    /\ h \in DOMAIN bound
    /\ bound' = [k \in DOMAIN bound \ {h} |-> bound[k]]
    /\ UNCHANGED issued

Next ==
    \/ \E h \in Handles, o \in Objects : Issue(h, o)
    \/ \E h \in Handles : Retire(h)

Spec == Init /\ [][Next]_<<bound, issued>>
=============================================================================
