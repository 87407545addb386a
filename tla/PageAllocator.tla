--------------------------- MODULE PageAllocator ---------------------------
(***************************************************************************)
(* What a physical page allocator promises its callers, whatever data      *)
(* structure it uses: a set of free page addresses, contiguous runs handed *)
(* out of it, and a refusal only when the request cannot be met.           *)
(***************************************************************************)
EXTENDS Integers

CONSTANTS Frames,      \* the addresses of the pages managed
          PageBytes,   \* the distance between two neighbouring pages
          MaxRequest,  \* bound: most pages asked for at once
          Named,       \* bound: addresses callers name
          Lengths,     \* bound: lengths in bytes of reserved ranges
          Errors       \* the errors a release can report

VARIABLES free,        \* addresses of the pages nobody holds
          answer       \* what the last call returned

Run(a, n) == {a + k * PageBytes : k \in 0 .. n - 1}

Granted(a, n) == [kind |-> "granted", addr |-> a, count |-> n]
Failed(e, n) == [kind |-> e, addr |-> 0, count |-> n]
Reserved(a, n) == [kind |-> "reserved", addr |-> a, count |-> n]
Done == [kind |-> "done", addr |-> 0, count |-> 0]

Init == free \in SUBSET Frames /\ answer = Done

\* A grant takes one run of free pages out of the free set, and no other page.
Grant(n) ==
  /\ n > 0
  /\ \E a \in Frames :
       /\ Run(a, n) \subseteq free
       /\ free' = free \ Run(a, n)
       /\ answer' = Granted(a, n)

\* A refusal is genuine: there is no run of n free pages.  A request for no
\* page at all is refused too.
Refuse(n) ==
  /\ n > 0 => \A a \in Frames : ~ (Run(a, n) \subseteq free)
  /\ answer' = Failed("OutOfMemory", n)
  /\ UNCHANGED free

\* A release that succeeds frees exactly the run it names, all of it held.
Release(a, n) ==
  /\ Run(a, n) \subseteq Frames \ free
  /\ free' = free \cup Run(a, n)
  /\ answer' = Done

\* A release that fails has freed a proper initial part of the run.
PartialRelease(a, n) ==
  \E m \in 0 .. n - 1, e \in Errors :
    /\ Run(a, m) \subseteq Frames \ free
    /\ free' = free \cup Run(a, m)
    /\ answer' = Failed(e, 0)

\* Reserving takes every free page that overlaps the range, and no other.  A
\* range that begins below all managed memory is ignored.
Reserve(a, n) ==
  LET touched == {f \in free : f < a + n /\ a < f + PageBytes}
  IN  /\ free' = IF \E f \in Frames : f <= a THEN free \ touched ELSE free
      /\ answer' = Reserved(a, n)

Next ==
  \/ \E n \in 0 .. MaxRequest : Grant(n) \/ Refuse(n)
  \/ \E a \in Named, n \in 0 .. MaxRequest : Release(a, n) \/ PartialRelease(a, n)
  \/ \E a \in Named, n \in Lengths : Reserve(a, n)

Spec == Init /\ [][Next]_<<free, answer>>
=============================================================================
