------------------------------ MODULE Keyboard ------------------------------
(***************************************************************************)
(* Keyboard input from the scancode to the shell's line: the decoder and   *)
(* ring buffer of src/src/interrupts.rs and the read loop of shell in      *)
(* src/src/lib.rs.  The interrupt handler runs with interrupts off, so it  *)
(* is one step; the shell's loop is cut at each access to the shared       *)
(* indices, and an interrupt may come between any two of its steps.        *)
(*                                                                         *)
(* The 128-entry tables are abstracted to one key of each kind: a letter,  *)
(* enter, backspace, escape (a control character) and a key without a      *)
(* character.  Echo and the commands themselves are left out.  The         *)
(* keyboard's interrupt is taken to reach its own handler (the one the     *)
(* stubs really give it is in InterruptFrames).                            *)
(***************************************************************************)
EXTENDS Integers, Sequences

CONSTANTS
  BUFFER_SIZE,   \* 256: slots of KEYBOARD_BUFFER
  LINE_MAX       \* 255: characters of input_buf the shell fills

ASSUME KeyboardConstants == BUFFER_SIZE \in Nat \ {0} /\ LINE_MAX \in Nat

NUL == "nul"     \* the byte 0
Newline == "newline"
Backspace == "backspace"
Keys == {"shift_left", "shift_right", "caps_lock", "letter", "enter", "erase", "escape", "home"}

SCANCODE_TO_ASCII(key) ==
  CASE key = "letter" -> "a" [] key = "enter" -> Newline [] key = "erase" -> Backspace
    [] key = "escape" -> "esc" [] OTHER -> NUL

SCANCODE_TO_ASCII_SHIFT(key) == IF key = "letter" THEN "A" ELSE SCANCODE_TO_ASCII(key)

Typed == {"a", "A", Newline, Backspace, "esc"}
Printable == {"a", "A"}

VARIABLES
  KEYBOARD_BUFFER, KEYBOARD_HEAD, KEYBOARD_TAIL,
  SHIFT_PRESSED, CAPS_LOCK,
  pc,          \* the shell: "halt", "has_data", "load", "store", "use", or
               \* "preempted" once a task has the CPU
  ch,          \* its character read from the buffer
  got,         \* what keyboard_read_char returned last
  input_buf    \* the line so far, input_buf[..input_pos]

vars == <<KEYBOARD_BUFFER, KEYBOARD_HEAD, KEYBOARD_TAIL, SHIFT_PRESSED, CAPS_LOCK,
          pc, ch, got, input_buf>>
ring == <<KEYBOARD_BUFFER, KEYBOARD_HEAD>>
modifiers == <<SHIFT_PRESSED, CAPS_LOCK>>
shell_vars == <<KEYBOARD_TAIL, ch, got, input_buf>>

Init ==
  /\ KEYBOARD_BUFFER = [i \in 0 .. BUFFER_SIZE - 1 |-> NUL]
  /\ KEYBOARD_HEAD = 0 /\ KEYBOARD_TAIL = 0
  /\ SHIFT_PRESSED = FALSE /\ CAPS_LOCK = FALSE
  /\ pc = "halt" /\ ch = NUL /\ got = NUL
  /\ input_buf = <<>>

-----------------------------------------------------------------------------
(* The interrupt handlers *)

\* The interrupt ends the shell's hlt.
Wake == pc' = IF pc = "halt" THEN "has_data" ELSE pc

\* Fault: a full buffer is not noticed.
StoreWhenFull(c) ==
  IF c # NUL
  THEN /\ KEYBOARD_BUFFER' = [KEYBOARD_BUFFER EXCEPT ![KEYBOARD_HEAD] = c]
       /\ KEYBOARD_HEAD' = (KEYBOARD_HEAD + 1) % BUFFER_SIZE
  ELSE UNCHANGED ring

\* Fault: the buffer is taken to be full one character too early.
StoreLeavesTwo(c) ==
  LET next_head == (KEYBOARD_HEAD + 1) % BUFFER_SIZE
  IN  IF c # NUL /\ next_head # KEYBOARD_TAIL /\ (next_head + 1) % BUFFER_SIZE # KEYBOARD_TAIL
      THEN /\ KEYBOARD_BUFFER' = [KEYBOARD_BUFFER EXCEPT ![KEYBOARD_HEAD] = c]
           /\ KEYBOARD_HEAD' = next_head
      ELSE UNCHANGED ring

\* The last part of handle_keyboard_scancode: store unless the buffer is full.
Store(c) ==
  LET next_head == (KEYBOARD_HEAD + 1) % BUFFER_SIZE
  IN  IF c # NUL /\ next_head # KEYBOARD_TAIL
      THEN /\ KEYBOARD_BUFFER' = [KEYBOARD_BUFFER EXCEPT ![KEYBOARD_HEAD] = c]
           /\ KEYBOARD_HEAD' = next_head
      ELSE UNCHANGED ring

Decode(key) == IF SHIFT_PRESSED THEN SCANCODE_TO_ASCII_SHIFT(key) ELSE SCANCODE_TO_ASCII(key)

handle_keyboard_scancode(key, released) ==
  /\ Wake /\ UNCHANGED shell_vars
  /\ \/ /\ key \in {"shift_left", "shift_right"}
        /\ SHIFT_PRESSED' = ~ released
        /\ UNCHANGED <<CAPS_LOCK, ring>>
     \/ /\ key = "caps_lock"
        /\ CAPS_LOCK' = IF released THEN CAPS_LOCK ELSE ~ CAPS_LOCK
        /\ UNCHANGED <<SHIFT_PRESSED, ring>>
     \/ /\ key \notin {"shift_left", "shift_right", "caps_lock"}
        /\ IF released THEN UNCHANGED ring ELSE Store(Decode(key))
        /\ UNCHANGED modifiers

\* The timer interrupt.  The shell runs with preemption enabled and is not a
\* task: preempt_schedule saves its context nowhere and switches to a task.
timer ==
  /\ pc' = "preempted"
  /\ UNCHANGED <<ring, modifiers, shell_vars>>

-----------------------------------------------------------------------------
(* The shell *)

\* Fault: the shell reads without looking.
keyboard_has_dataSkipped ==
  /\ pc = "has_data"
  /\ pc' = "load"
  /\ UNCHANGED <<ring, modifiers, shell_vars>>

keyboard_has_data ==
  /\ pc = "has_data"
  /\ pc' = IF KEYBOARD_HEAD # KEYBOARD_TAIL THEN "load" ELSE "halt"
  /\ UNCHANGED <<ring, modifiers, shell_vars>>

\* keyboard_read_char up to the load from the buffer
read_load ==
  /\ pc = "load"
  /\ IF KEYBOARD_HEAD = KEYBOARD_TAIL
     THEN ch' = NUL /\ pc' = "use"
     ELSE ch' = KEYBOARD_BUFFER[KEYBOARD_TAIL] /\ pc' = "store"
  /\ UNCHANGED <<ring, modifiers, KEYBOARD_TAIL, got, input_buf>>

\* keyboard_read_char: advance the tail and return
read_store ==
  /\ pc = "store"
  /\ KEYBOARD_TAIL' = (KEYBOARD_TAIL + 1) % BUFFER_SIZE
  /\ got' = ch
  /\ pc' = "use"
  /\ UNCHANGED <<ring, modifiers, ch, input_buf>>

\* The body of the loop for the character read; a newline hands the line to
\* execute_command and starts the next one.
shell_edit ==
  /\ pc = "use"
  /\ pc' = "halt"
  /\ \/ /\ ch = Newline
        /\ input_buf' = <<>>
     \/ /\ ch = Backspace
        /\ input_buf' = IF input_buf # <<>> THEN SubSeq(input_buf, 1, Len(input_buf) - 1) ELSE <<>>
     \/ /\ ch \notin {Newline, Backspace}
        /\ input_buf' = IF ch \in Printable /\ Len(input_buf) < LINE_MAX
                        THEN Append(input_buf, ch) ELSE input_buf
  /\ UNCHANGED <<ring, modifiers, KEYBOARD_TAIL, ch, got>>

Shell == keyboard_has_data \/ read_load \/ read_store \/ shell_edit

Next ==
  \/ \E key \in Keys, released \in BOOLEAN : handle_keyboard_scancode(key, released)
  \/ timer
  \/ Shell

\* The shell goes on while it has the CPU and is not halted, and the timer is
\* periodic.  Key presses are not forced.
Spec == Init /\ [][Next]_vars /\ WF_vars(Shell) /\ WF_vars(timer)

-----------------------------------------------------------------------------
(* Properties *)

\* Indices stay in the buffer and the line within input_buf and its final NUL.
TypeOK ==
  /\ KEYBOARD_BUFFER \in [0 .. BUFFER_SIZE - 1 -> Typed \cup {NUL}]
  /\ KEYBOARD_HEAD \in 0 .. BUFFER_SIZE - 1
  /\ KEYBOARD_TAIL \in 0 .. BUFFER_SIZE - 1
  /\ SHIFT_PRESSED \in BOOLEAN /\ CAPS_LOCK \in BOOLEAN
  /\ pc \in {"halt", "has_data", "load", "store", "use", "preempted"}
  /\ ch \in Typed \cup {NUL} /\ got \in Typed \cup {NUL}
  /\ input_buf \in Seq(Printable) /\ Len(input_buf) <= LINE_MAX

\* The characters from the tail up to the head.
Contents ==
  [k \in 1 .. (KEYBOARD_HEAD - KEYBOARD_TAIL + BUFFER_SIZE) % BUFFER_SIZE |->
     KEYBOARD_BUFFER[(KEYBOARD_TAIL + k - 1) % BUFFER_SIZE]]

Fifo == INSTANCE KeyFifo WITH
  Chars <- Typed, Capacity <- BUFFER_SIZE - 1, Nothing <- NUL, fifo <- Contents

\* The ring, with the handler interrupting keyboard_read_char between its load
\* and its store of the tail, is a FIFO of one character less than its slots:
\* nothing is overwritten, reordered or read twice.
RingIsFifo == Fifo!Spec

\* The shell never takes the empty answer of keyboard_read_char for a key: a
\* character seen by keyboard_has_data is still there when it is read.
NoEmptyRead == pc = "use" => ch # NUL

\* A key with a character is dropped only when the buffer is full: as long as
\* fewer than BUFFER_SIZE - 1 characters wait to be read, wherever the indices
\* are and wherever in keyboard_read_char the shell was interrupted, the
\* handler appends the key's character to them.
KeysAreKept ==
  [][\A key \in Keys :
       (handle_keyboard_scancode(key, FALSE) /\ Decode(key) # NUL /\ Len(Contents) < BUFFER_SIZE - 1)
         => Contents' = Append(Contents, Decode(key))]_vars

-----------------------------------------------------------------------------
(* What the documentation says and the code does not do; each is violated. *)

\* "PS/2 scancode -> ASCII with Shift/CapsLock": with caps lock on and shift
\* up, a letter key stores the capital letter.
CapsLockCapitalises ==
  [][(KEYBOARD_HEAD' # KEYBOARD_HEAD /\ CAPS_LOCK /\ ~ SHIFT_PRESSED)
       => KEYBOARD_BUFFER'[KEYBOARD_HEAD] # "a"]_vars

\* "Type 'help' for available commands." (shell): a character that was typed is
\* read.  A key that comes between the check and the hlt waits for the next
\* interrupt, and the timer's takes the CPU from the shell.
KeysAreRead ==
  \A n \in 0 .. BUFFER_SIZE - 1 :
    (KEYBOARD_TAIL = n /\ KEYBOARD_HEAD # n) ~> KEYBOARD_TAIL # n
=============================================================================
