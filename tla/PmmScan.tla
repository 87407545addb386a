------------------------------ MODULE PmmScan ------------------------------
(***************************************************************************)
(* The allocator of src/src/memory/pmm.rs with alloc_pages one iteration   *)
(* of its loop per step.  Pmm treats the call as one action that takes the *)
(* first fit; here the loop with its found_start and consecutive variables *)
(* is shown to compute that action, between any other calls.               *)
(***************************************************************************)
EXTENDS Pmm

VARIABLES pc,           \* "ready" between calls, "scan" inside the loop
          count,        \* the argument of the current call
          i,            \* the page the loop looks at next
          found_start,  \* first page of the current run, None between runs
          consecutive   \* length of the current run

scan_vars == <<pc, count, i, found_start, consecutive>>

None == -1

ScanInit ==
  /\ Init
  /\ pc = "ready" /\ count = 0 /\ i = 0 /\ found_start = None /\ consecutive = 0

\* The call returns and its locals are gone.
Return ==
  pc' = "ready" /\ count' = 0 /\ i' = 0 /\ found_start' = None /\ consecutive' = 0

\* The early exit, or the start of the loop.
Call(n) ==
  /\ pc = "ready"
  /\ \/ /\ free_page_count < n
        /\ OutOfMemory(n)
        /\ UNCHANGED scan_vars
     \/ /\ free_page_count >= n
        /\ pc' = "scan" /\ count' = n
        /\ i' = 0 /\ found_start' = None /\ consecutive' = 0
        /\ UNCHANGED vars

\* The page at i is in use: the current run ends.
UsedPage ==
  /\ pc = "scan" /\ i < total_pages /\ get_bit(i)
  /\ found_start' = None
  /\ consecutive' = 0
  /\ i' = i + 1
  /\ UNCHANGED <<pc, count, vars>>

\* Fault: the length is compared with >=, so that no pages are also granted.
FreePageAtLeast ==
  LET start == IF found_start = None THEN i ELSE found_start
  IN  /\ pc = "scan" /\ i < total_pages /\ ~ get_bit(i)
      /\ \/ /\ consecutive + 1 >= count
            /\ Take(start, count)
            /\ Return
         \/ /\ consecutive + 1 < count
            /\ found_start' = start /\ consecutive' = consecutive + 1
            /\ i' = i + 1
            /\ UNCHANGED <<pc, count, vars>>

\* The page at i is free: it begins or extends the current run, and the call
\* returns as soon as the run is long enough.
FreePage ==
  LET start == IF found_start = None THEN i ELSE found_start
  IN  /\ pc = "scan" /\ i < total_pages /\ ~ get_bit(i)
      /\ \/ /\ consecutive + 1 = count
            /\ Take(start, count)
            /\ Return
         \/ /\ consecutive + 1 # count
            /\ found_start' = start /\ consecutive' = consecutive + 1
            /\ i' = i + 1
            /\ UNCHANGED <<pc, count, vars>>

\* Fault: the loop starts again from the first page.
ExhaustedWraps ==
  /\ pc = "scan" /\ i >= total_pages
  /\ i' = 0 /\ found_start' = None /\ consecutive' = 0
  /\ UNCHANGED <<pc, count, vars>>

\* The loop ran out of pages.
Exhausted ==
  /\ pc = "scan" /\ i >= total_pages
  /\ OutOfMemory(count)
  /\ Return

\* The other calls come between two calls of alloc_pages: every method takes
\* the allocator by exclusive reference.
OtherCall ==
  /\ pc = "ready"
  /\ \/ alloc_page
     \/ \E addr \in Addresses : free_page(addr)
     \/ \E addr \in Addresses, n \in 0 .. MaxCount : free_pages_range(addr, n)
     \/ \E start \in Addresses, size \in Sizes : reserve_range(start, size)
  /\ UNCHANGED scan_vars

ScanNext ==
  \/ OtherCall
  \/ \E n \in 0 .. MaxCount : Call(n)
  \/ UsedPage
  \/ FreePage
  \/ Exhausted

ScanSpec == ScanInit /\ [][ScanNext]_<<vars, scan_vars>> /\ WF_<<vars, scan_vars>>(UsedPage \/ FreePage \/ Exhausted)

-----------------------------------------------------------------------------

\* The loop invariant of alloc_pages: consecutive counts the free pages that
\* end just before i, they start at found_start, the page before them is in
\* use, and no run of count free pages fits below i.
LoopInv ==
  pc = "scan" =>
    /\ i \in 0 .. total_pages
    /\ consecutive \in 0 .. i
    /\ found_start = IF consecutive = 0 THEN None ELSE i - consecutive
    /\ \A j \in i - consecutive .. i - 1 : ~ get_bit(j)
    /\ i > consecutive => get_bit(i - consecutive - 1)
    /\ count > 0 => consecutive < count
    /\ \A s \in FreeRuns(count) : count > 0 => s >= i - consecutive

\* The allocator with its loop implements Pmm: seen from outside, every call of
\* alloc_pages is one alloc_pages action, which takes the first run that is
\* long enough and nothing else, or refuses because there is none.
ScanImplementsPmm == Spec

\* Every call returns: the loop leaves the scan whatever the bitmap holds.
ScanReturns == pc = "scan" ~> pc = "ready"
=============================================================================
