------------------------------- MODULE KeyRing -------------------------------
(***************************************************************************)
(* The ring buffer of kernel/ps2kbd.h between its two users: the IRQ 1     *)
(* handler, which pushes, and ps2_readline, which waits in ps2_wait_char   *)
(* and pops.  The handler runs to its end between two instructions of the  *)
(* reader, so a push is one step and a pop is one step per access to the   *)
(* shared (volatile) variables.                                            *)
(***************************************************************************)
EXTENDS Integers, Sequences

CONSTANTS
    KBD_BUF_SIZE,       \* 64 in the code
    Printable,          \* characters ps2_readline stores
    Enter, Back,        \* the two it acts on
    Other,              \* one it ignores (tab, escape)
    NoChar,             \* the byte 0
    MaxLen              \* ps2_readline's maxlen

Chars == Printable \cup {Enter, Back, Other}

ASSUME RingAssumptions ==
    /\ KBD_BUF_SIZE \in Nat \ {0}
    /\ NoChar \notin Chars
    /\ Enter # Back /\ {Enter, Back, Other} \cap Printable = {}
    /\ MaxLen \in Nat \ {0}

VARIABLES
    kbd_buf, kbd_head, kbd_tail,
    pc,                 \* where the reader is
    c,                  \* what _kbd_buf_pop has read
    line,               \* ps2_readline's buf[0 .. len - 1]
    offers,             \* history: flips with every character pushed or dropped
    got                 \* history: what ps2_wait_char returned last

ring == <<kbd_buf, kbd_head, kbd_tail>>
vars == <<ring, pc, c, line, offers, got>>

Indices == 0 .. KBD_BUF_SIZE - 1
Places == {"test", "halt", "asleep", "read", "advance"}

Init ==
    /\ kbd_buf = [i \in Indices |-> NoChar] /\ kbd_head = 0 /\ kbd_tail = 0
    /\ pc = "test" /\ c = NoChar /\ line = <<>>
    /\ offers = 0 /\ got = NoChar

After(i) == (i + 1) % KBD_BUF_SIZE

\* An interrupt ends the reader's hlt.
Wake == pc' = IF pc = "asleep" THEN "test" ELSE pc

NeverFull == FALSE                              \* mutant: overwrites when full
Full == After(kbd_tail) = kbd_head

\* The handler has a character: _kbd_buf_push.
PushIrq(ch) ==
    /\ Wake
    /\ IF Full
         THEN UNCHANGED <<kbd_buf, kbd_tail>>
         ELSE /\ kbd_buf' = [kbd_buf EXCEPT ![kbd_tail] = ch]
              /\ kbd_tail' = After(kbd_tail)
    /\ offers' = 1 - offers
    /\ UNCHANGED <<kbd_head, c, line, got>>

\* The timer interrupt matters to the reader only when it sleeps.
TimerMasked == FALSE                            \* mutant: IRQ0 stays masked
TimerIrq ==
    /\ pc = "asleep"
    /\ pc' = "test"
    /\ UNCHANGED <<ring, c, line, offers, got>>

\* _kbd_buf_pop tests for an empty buffer ...
PopTest ==
    /\ pc = "test"
    /\ pc' = IF kbd_head = kbd_tail THEN "halt" ELSE "read"
    /\ UNCHANGED <<ring, c, line, offers, got>>

\* ... and ps2_wait_char halts when it was.
Halt ==
    /\ pc = "halt"
    /\ pc' = "asleep"
    /\ UNCHANGED <<ring, c, line, offers, got>>

PopRead ==
    /\ pc = "read"
    /\ c' = kbd_buf[kbd_head]
    /\ pc' = "advance"
    /\ UNCHANGED <<ring, line, offers, got>>

\* ps2_readline's buffer after a character; after Enter the next line starts.
LineTooLong(l, ch) ==                           \* mutant: "maxlen" for "maxlen - 1"
    CASE ch = Enter -> <<>>
      [] ch = Back -> SubSeq(l, 1, Len(l) - 1)
      [] ch \in Printable /\ Len(l) < MaxLen -> Append(l, ch)
      [] OTHER -> l

LineAfter(l, ch) ==
    CASE ch = Enter -> <<>>
      [] ch = Back -> SubSeq(l, 1, Len(l) - 1)
      [] ch \in Printable /\ Len(l) < MaxLen - 1 -> Append(l, ch)
      [] OTHER -> l

PopAdvance ==
    /\ pc = "advance"
    /\ kbd_head' = After(kbd_head)
    /\ got' = c
    /\ line' = LineAfter(line, c)
    /\ pc' = "test"
    /\ UNCHANGED <<kbd_buf, kbd_tail, c, offers>>

Reader == PopTest \/ Halt \/ PopRead \/ PopAdvance

Next == (\E ch \in Chars : PushIrq(ch)) \/ TimerIrq \/ Reader

Spec == Init /\ [][Next]_vars

\* The reader has the CPU between interrupts, and the PIT ticks.
FairSpec == Spec /\ WF_vars(Reader) /\ WF_vars(TimerIrq)

------------------------------------------------------------------------------
\* The indices stay inside the buffer, and a line leaves room for its terminator
\* (buf[len] = '\0' with len <= maxlen - 1).
TypeOK ==
    /\ kbd_buf \in [Indices -> Chars \cup {NoChar}]
    /\ kbd_head \in Indices /\ kbd_tail \in Indices
    /\ pc \in Places
    /\ c \in Chars \cup {NoChar}
    /\ line \in Seq(Printable) /\ Len(line) <= MaxLen - 1
    /\ offers \in {0, 1}
    /\ got \in Chars \cup {NoChar}

(***************************************************************************)
(* The ring seen as a queue: the characters from head up to tail.          *)
(***************************************************************************)
Span(head, tail) == IF head <= tail THEN tail - head ELSE tail - head + KBD_BUF_SIZE
Wrapped(i) == IF i < KBD_BUF_SIZE THEN i ELSE i - KBD_BUF_SIZE
Contents(buf, head, tail) == [k \in 1 .. Span(head, tail) |-> buf[Wrapped(head + k - 1)]]

Waiting == Span(kbd_head, kbd_tail)
queue == Contents(kbd_buf, kbd_head, kbd_tail)

Queue == INSTANCE KeyQueue WITH Capacity <- KBD_BUF_SIZE - 1

\* The driver's buffer is a queue, whatever interrupts the reader and wherever:
\* ps2_wait_char returns the characters the handler pushed, in order and once, and
\* the handler drops one only when KBD_BUF_SIZE - 1 are waiting.
QueueSpec == Queue!Spec

\* A character that waits is returned: the interrupt that comes between the test of
\* the buffer and the hlt costs the reader a tick, not the character.
WaitingIsRead == (Waiting > 0) ~> (pc = "advance")
==============================================================================
