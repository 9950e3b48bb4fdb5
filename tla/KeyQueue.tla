------------------------------ MODULE KeyQueue -------------------------------
(***************************************************************************)
(* What the keyboard driver's buffer promises: characters come out in the  *)
(* order they went in, each once, and a character is dropped only when as  *)
(* many are waiting as the buffer holds.                                   *)
(***************************************************************************)
EXTENDS Integers, Sequences

CONSTANTS
    Chars,              \* characters keys produce
    NoChar,             \* a value that is no character
    Capacity            \* characters that may wait

VARIABLES
    queue,              \* characters waiting
    offers,             \* flips with every character offered
    got                 \* the last character taken

vars == <<queue, offers, got>>

Init == queue = <<>> /\ offers = 0 /\ got = NoChar

Put(ch) ==
    /\ offers' = 1 - offers
    /\ queue' = IF Len(queue) < Capacity THEN Append(queue, ch) ELSE queue
    /\ UNCHANGED got

Take ==
    /\ queue # <<>>
    /\ got' = Head(queue)
    /\ queue' = Tail(queue)
    /\ UNCHANGED offers

Next == (\E ch \in Chars : Put(ch)) \/ Take

Spec == Init /\ [][Next]_vars
==============================================================================
