------------------------------ MODULE KeyFifo ------------------------------
(***************************************************************************)
(* What the keyboard buffer promises: a first-in first-out queue that      *)
(* drops the newest character when it is full.                             *)
(***************************************************************************)
EXTENDS Integers, Sequences

CONSTANTS Chars, Capacity, Nothing

VARIABLES
  fifo,   \* the characters typed and not read yet
  got     \* the character the last read returned

Init == fifo = <<>> /\ got = Nothing

Put ==
  /\ Len(fifo) < Capacity
  /\ \E c \in Chars : fifo' = Append(fifo, c)
  /\ UNCHANGED got

Get ==
  /\ fifo # <<>>
  /\ got' = Head(fifo)
  /\ fifo' = Tail(fifo)

Next == Put \/ Get

Spec == Init /\ [][Next]_<<fifo, got>>
=============================================================================
