---------------------------- MODULE KeyboardProofs ----------------------------
(***************************************************************************)
(* Proofs about KeyRing for every buffer size, alphabet and line length:   *)
(* type correctness, and that the ring implements KeyQueue; and about      *)
(* KeyPort: no loop takes a byte twice.                                    *)
(***************************************************************************)
EXTENDS KeyRing, KeyPort, SequenceTheorems, TLAPS

\* The reader is between its test and its advance only when a character waits, and
\* what it has read is still the one at head: the handler writes at tail only.
ReaderInv ==
    /\ pc \in {"read", "advance"} => kbd_head # kbd_tail
    /\ pc = "advance" => c = kbd_buf[kbd_head]

IInv == TypeOK /\ ReaderInv

\* The successor of an index, without the remainder.
LEMMA AfterIs ==
  ASSUME NEW i \in Indices
  PROVE  /\ After(i) = IF i + 1 = KBD_BUF_SIZE THEN 0 ELSE i + 1
         /\ After(i) \in Indices
PROOF
<1>1. KBD_BUF_SIZE \in Nat \ {0}  BY RingAssumptions
<1>2. CASE i + 1 = KBD_BUF_SIZE
  <2>1. KBD_BUF_SIZE % KBD_BUF_SIZE = 0  BY <1>1
  <2>. QED  BY <1>1, <1>2, <2>1 DEF After, Indices
<1>3. CASE i + 1 # KBD_BUF_SIZE
  <2>1. i + 1 \in 0 .. KBD_BUF_SIZE - 1  BY <1>1, <1>3 DEF Indices
  <2>2. (i + 1) % KBD_BUF_SIZE = i + 1  BY <1>1, <2>1
  <2>. QED  BY <1>1, <1>3, <2>1, <2>2 DEF After, Indices
<1>. QED  BY <1>2, <1>3

\* What ps2_readline keeps is a line of printable characters that fits its buffer.
LEMMA LineFits ==
  ASSUME NEW l \in Seq(Printable), Len(l) <= MaxLen - 1, NEW ch
  PROVE  LineAfter(l, ch) \in Seq(Printable) /\ Len(LineAfter(l, ch)) <= MaxLen - 1
PROOF
<1>1. MaxLen \in Nat \ {0}  BY RingAssumptions
<1>2. CASE ch = Enter
  BY <1>1, <1>2, RingAssumptions DEF LineAfter
<1>3. CASE ch # Enter /\ ch = Back
  <2>1. LineAfter(l, ch) = SubSeq(l, 1, Len(l) - 1)
    BY <1>3, RingAssumptions DEF LineAfter
  <2>2. Len(l) \in Nat /\ \A i \in 1 .. Len(l) : l[i] \in Printable  OBVIOUS
  <2>3. Len(l) - 1 \in Int /\ \A i \in 1 .. Len(l) - 1 : l[i] \in Printable  BY <2>2
  <2>4. /\ SubSeq(l, 1, Len(l) - 1) \in Seq(Printable)
        /\ Len(SubSeq(l, 1, Len(l) - 1)) = IF 1 <= Len(l) - 1 THEN Len(l) - 1 - 1 + 1 ELSE 0
    BY <2>3, SubSeqProperties
  <2>. QED  BY <1>1, <2>1, <2>2, <2>4
<1>4. CASE ch # Enter /\ ch # Back /\ ch \in Printable /\ Len(l) < MaxLen - 1
  <2>1. LineAfter(l, ch) = Append(l, ch)  BY <1>4 DEF LineAfter
  <2>. QED  BY <1>1, <1>4, <2>1
<1>5. CASE ch # Enter /\ ch # Back /\ ~ (ch \in Printable /\ Len(l) < MaxLen - 1)
  <2>1. LineAfter(l, ch) = l  BY <1>5 DEF LineAfter
  <2>. QED  BY <2>1
<1>. QED  BY <1>2, <1>3, <1>4, <1>5

\* The buffer starts empty and the reader at its test.
LEMMA InitInv == Init => IInv
PROOF
<1>. SUFFICES ASSUME Init PROVE IInv  OBVIOUS
<1>1. KBD_BUF_SIZE \in Nat \ {0} /\ MaxLen \in Nat \ {0}  BY RingAssumptions
<1>2. 0 \in Indices  BY <1>1 DEF Indices
<1>3. <<>> \in Seq(Printable) /\ Len(<<>>) <= MaxLen - 1  BY <1>1
<1>. QED  BY <1>2, <1>3 DEF Init, IInv, TypeOK, ReaderInv, Places

\* The interrupt may come at any place of the reader.
LEMMA PushInv ==
  ASSUME IInv, NEW ch \in Chars, PushIrq(ch)
  PROVE  IInv'
PROOF
<1>. USE DEF IInv, TypeOK
<1>1. After(kbd_tail) \in Indices  BY AfterIs
<1>2. CASE Full
  <2>1. UNCHANGED ring  BY <1>2 DEF PushIrq, ring
  <2>. QED  BY <2>1 DEF PushIrq, ReaderInv, Wake, Places, ring
<1>3. CASE ~ Full
  <2>1. kbd_buf' = [kbd_buf EXCEPT ![kbd_tail] = ch] /\ kbd_tail' = After(kbd_tail)
    BY <1>3 DEF PushIrq
  <2>2. TypeOK'  BY <1>1, <2>1 DEF PushIrq, Wake, Places
  <2>3. ReaderInv'  BY <1>3, <2>1 DEF PushIrq, Wake, ReaderInv, Full
  <2>. QED  BY <2>2, <2>3
<1>. QED  BY <1>2, <1>3

\* No step of the handler, the timer or the reader breaks the invariant.
LEMMA StepInv == IInv /\ [Next]_vars => IInv'
PROOF
<1>. SUFFICES ASSUME IInv, [Next]_vars PROVE IInv'  OBVIOUS
<1>1. ASSUME NEW ch \in Chars, PushIrq(ch) PROVE IInv'  BY <1>1, PushInv
<1>2. CASE TimerIrq
  BY <1>2 DEF IInv, TypeOK, ReaderInv, TimerIrq, Places, ring
<1>3. CASE PopTest
  BY <1>3 DEF IInv, TypeOK, ReaderInv, PopTest, Places, ring
<1>4. CASE Halt
  BY <1>4 DEF IInv, TypeOK, ReaderInv, Halt, Places, ring
<1>5. CASE PopRead
  BY <1>5 DEF IInv, TypeOK, ReaderInv, PopRead, Places, ring
<1>6. CASE PopAdvance
  <2>1. After(kbd_head) \in Indices  BY AfterIs DEF IInv, TypeOK
  <2>2. line' \in Seq(Printable) /\ Len(line') <= MaxLen - 1
    BY <1>6, LineFits DEF IInv, TypeOK, PopAdvance
  <2>. QED  BY <1>6, <2>1, <2>2 DEF IInv, TypeOK, ReaderInv, PopAdvance, Places
<1>7. CASE UNCHANGED vars
  BY <1>7 DEF IInv, TypeOK, ReaderInv, vars, ring
<1>. QED  BY <1>1, <1>2, <1>3, <1>4, <1>5, <1>6, <1>7 DEF Next, Reader

\* The indices stay inside the buffer and lines leave room for their terminator,
\* for every buffer size and every maxlen.
THEOREM RingTypeCorrect == Spec => []TypeOK
PROOF
<1>1. IInv => TypeOK  BY DEF IInv
<1>. QED  BY <1>1, InitInv, StepInv, PTL DEF Spec

------------------------------------------------------------------------------
(***************************************************************************)
(* The ring implements the queue                                           *)
(***************************************************************************)

Bytes == Chars \cup {NoChar}

\* What lies between head and tail is a sequence of characters, shorter than the
\* buffer, and the buffer is full exactly when one place is left.
LEMMA ContentsShape ==
  ASSUME NEW buf \in [Indices -> Bytes], NEW head \in Indices, NEW tail \in Indices
  PROVE  /\ Span(head, tail) \in 0 .. KBD_BUF_SIZE - 1
         /\ Contents(buf, head, tail) \in Seq(Bytes)
         /\ Len(Contents(buf, head, tail)) = Span(head, tail)
         /\ \A k \in 1 .. Span(head, tail) :
                Contents(buf, head, tail)[k] = buf[Wrapped(head + k - 1)]
         /\ After(tail) = head <=> Span(head, tail) = KBD_BUF_SIZE - 1
PROOF
<1>. DEFINE n == Span(head, tail)
            q == Contents(buf, head, tail)
<1>1. KBD_BUF_SIZE \in Nat \ {0}  BY RingAssumptions
<1>2. n \in 0 .. KBD_BUF_SIZE - 1  BY <1>1 DEF Span, Indices
<1>3. ASSUME NEW k \in 1 .. n PROVE buf[Wrapped(head + k - 1)] \in Bytes
  <2>1. Wrapped(head + k - 1) \in Indices  BY <1>1, <1>2 DEF Wrapped, Indices
  <2>. QED  BY <2>1
<1>4. n \in Nat  BY <1>1, <1>2
<1>5. q = [k \in 1 .. n |-> buf[Wrapped(head + k - 1)]]  BY DEF Contents
<1>6. After(tail) = head <=> n = KBD_BUF_SIZE - 1
  BY SMTT(30), <1>1, AfterIs DEF Span, Indices
<1>. HIDE DEF n, q
<1>7. q \in [1 .. n -> Bytes]  BY <1>3, <1>5
<1>8. q \in Seq(Bytes) /\ Len(q) = n  BY <1>4, <1>7
<1>9. \A k \in 1 .. n : q[k] = buf[Wrapped(head + k - 1)]  BY <1>5
<1>. QED  BY <1>2, <1>6, <1>8, <1>9 DEF n, q

\* Writing at tail and moving it on appends.
LEMMA ContentsPush ==
  ASSUME NEW buf \in [Indices -> Bytes], NEW head \in Indices, NEW tail \in Indices,
         NEW ch \in Chars, After(tail) # head
  PROVE  Contents([buf EXCEPT ![tail] = ch], head, After(tail))
             = Append(Contents(buf, head, tail), ch)
PROOF
<1>. DEFINE buf2 == [buf EXCEPT ![tail] = ch]
            tail2 == After(tail)
            n == Span(head, tail)
            q == Contents(buf, head, tail)
            q2 == Contents(buf2, head, tail2)
<1>1. KBD_BUF_SIZE \in Nat \ {0}  BY RingAssumptions
<1>2. tail2 \in Indices /\ tail2 = IF tail + 1 = KBD_BUF_SIZE THEN 0 ELSE tail + 1
  BY AfterIs
<1>3. buf2 \in [Indices -> Bytes] /\ ch \in Bytes  BY DEF Bytes
<1>4. Span(head, tail2) = n + 1  BY <1>1, <1>2 DEF Span, Indices
<1>5. /\ n \in 0 .. KBD_BUF_SIZE - 1
      /\ q \in Seq(Bytes) /\ Len(q) = n
      /\ \A k \in 1 .. n : q[k] = buf[Wrapped(head + k - 1)]
  BY ContentsShape
<1>6. /\ q2 \in Seq(Bytes) /\ Len(q2) = n + 1
      /\ \A k \in 1 .. n + 1 : q2[k] = buf2[Wrapped(head + k - 1)]
  <2>. HIDE DEF buf2, tail2
  <2>1. /\ q2 \in Seq(Bytes) /\ Len(q2) = Span(head, tail2)
        /\ \A k \in 1 .. Span(head, tail2) : q2[k] = buf2[Wrapped(head + k - 1)]
    <3>1. buf2 \in [Indices -> Bytes] /\ tail2 \in Indices  BY <1>2, <1>3
    <3>. QED  BY <3>1, ContentsShape
  <2>. HIDE DEF q2, n
  <2>. QED  BY <1>4, <2>1
<1>7. /\ Append(q, ch) \in Seq(Bytes) /\ Len(Append(q, ch)) = n + 1
      /\ \A k \in 1 .. n : Append(q, ch)[k] = q[k]
      /\ Append(q, ch)[n + 1] = ch
  BY <1>3, <1>5, AppendProperties
<1>8. ASSUME NEW k \in 1 .. n PROVE q2[k] = q[k]
  <2>1. Wrapped(head + k - 1) \in Indices /\ Wrapped(head + k - 1) # tail
    BY <1>1, <1>5 DEF Wrapped, Span, Indices
  <2>2. q2[k] = buf2[Wrapped(head + k - 1)]
    <3>. HIDE DEF q2, n, buf2
    <3>1. n \in Nat  BY <1>1, <1>5
    <3>2. k \in 1 .. n + 1  BY <3>1
    <3>. QED  BY <1>6, <3>2
  <2>. QED  BY <1>5, <2>1, <2>2
<1>9. q2[n + 1] = ch
  <2>1. Wrapped(head + (n + 1) - 1) = tail  BY <1>1 DEF Wrapped, Span, Indices
  <2>2. q2[n + 1] = buf2[Wrapped(head + (n + 1) - 1)]
    <3>. HIDE DEF q2, n, buf2
    <3>1. n \in Nat  BY <1>1, <1>5
    <3>2. n + 1 \in 1 .. n + 1  BY <3>1
    <3>. QED  BY <1>6, <3>2
  <2>. QED  BY <2>1, <2>2
<1>10. \A k \in 1 .. n + 1 : q2[k] = Append(q, ch)[k]
  <2>. HIDE DEF q, q2, n
  <2>1. n \in Nat  BY <1>1, <1>5
  <2>2. TAKE k \in 1 .. n + 1
  <2>3. k \in 1 .. n \/ k = n + 1  BY <2>1
  <2>. QED  BY <1>7, <1>8, <1>9, <2>3
<1>. HIDE DEF q, q2, n
<1>11. q2 = Append(q, ch)  BY <1>6, <1>7, <1>10, SeqEqual
<1>. QED  BY <1>11 DEF q, q2

\* Moving head on takes the first character away.
LEMMA ContentsPop ==
  ASSUME NEW buf \in [Indices -> Bytes], NEW head \in Indices, NEW tail \in Indices,
         head # tail
  PROVE  /\ Contents(buf, head, tail) # <<>>
         /\ Head(Contents(buf, head, tail)) = buf[head]
         /\ Contents(buf, After(head), tail) = Tail(Contents(buf, head, tail))
PROOF
<1>. DEFINE head2 == After(head)
            n == Span(head, tail)
            q == Contents(buf, head, tail)
            q2 == Contents(buf, head2, tail)
<1>1. KBD_BUF_SIZE \in Nat \ {0}  BY RingAssumptions
<1>2. head2 \in Indices /\ head2 = IF head + 1 = KBD_BUF_SIZE THEN 0 ELSE head + 1
  BY AfterIs
<1>3. Span(head2, tail) = n - 1 /\ n > 0  BY <1>1, <1>2 DEF Span, Indices
<1>4. /\ n \in 0 .. KBD_BUF_SIZE - 1
      /\ q \in Seq(Bytes) /\ Len(q) = n
      /\ \A k \in 1 .. n : q[k] = buf[Wrapped(head + k - 1)]
  BY ContentsShape
<1>5. /\ q2 \in Seq(Bytes) /\ Len(q2) = n - 1
      /\ \A k \in 1 .. n - 1 : q2[k] = buf[Wrapped(head2 + k - 1)]
  <2>. HIDE DEF head2
  <2>1. /\ q2 \in Seq(Bytes) /\ Len(q2) = Span(head2, tail)
        /\ \A k \in 1 .. Span(head2, tail) : q2[k] = buf[Wrapped(head2 + k - 1)]
    BY <1>2, ContentsShape
  <2>. HIDE DEF q2, n
  <2>. QED  BY <1>3, <2>1
<1>6. q # <<>>
  <2>. HIDE DEF q, n
  <2>. QED  BY <1>3, <1>4, EmptySeq
<1>7. /\ Tail(q) \in Seq(Bytes) /\ Len(Tail(q)) = n - 1
      /\ \A k \in 1 .. n - 1 : Tail(q)[k] = q[k + 1]
  <2>. HIDE DEF q, n
  <2>. QED  BY <1>4, <1>6, HeadTailProperties
<1>8. Head(q) = buf[head]
  <2>1. Wrapped(head + 1 - 1) = head  BY <1>1 DEF Wrapped, Indices
  <2>2. 1 \in 1 .. n  BY <1>1, <1>3, <1>4
  <2>3. q[1] = buf[head]  BY <1>4, <2>1, <2>2
  <2>. HIDE DEF q, n
  <2>. QED  BY <1>4, <1>6, <2>3
<1>9. ASSUME NEW k \in 1 .. n - 1 PROVE q2[k] = Tail(q)[k]
  <2>1. Wrapped(head2 + k - 1) = Wrapped(head + (k + 1) - 1)
    BY <1>1, <1>2, <1>4 DEF Wrapped, Span, Indices
  <2>2. k + 1 \in 1 .. n  BY <1>1, <1>4
  <2>3. q[k + 1] = buf[Wrapped(head + (k + 1) - 1)]  BY <1>4, <2>2
  <2>. HIDE DEF q, q2, n, head2
  <2>. QED  BY <1>5, <1>7, <2>1, <2>3
<1>. HIDE DEF q, q2, n
<1>10. q2 = Tail(q)  BY <1>5, <1>7, <1>9, SeqEqual
<1>. QED  BY <1>6, <1>8, <1>10 DEF q, q2

\* Every step of the ring is a step of the queue or leaves it alone.
LEMMA StepRefines == IInv /\ [Next]_vars => [Queue!Next]_Queue!vars
PROOF
<1>. SUFFICES ASSUME IInv, [Next]_vars PROVE [Queue!Next]_Queue!vars  OBVIOUS
<1>1. /\ kbd_buf \in [Indices -> Bytes] /\ kbd_head \in Indices /\ kbd_tail \in Indices
      /\ KBD_BUF_SIZE \in Nat \ {0}
  BY RingAssumptions DEF IInv, TypeOK, Bytes
<1>2. ASSUME UNCHANGED <<ring, offers, got>> PROVE UNCHANGED Queue!vars
  BY <1>2 DEF Queue!vars, ring, queue, Contents, Span, Wrapped
<1>3. ASSUME NEW ch \in Chars, PushIrq(ch) PROVE Queue!Put(ch)
  <2>1. offers' = 1 - offers /\ got' = got /\ kbd_head' = kbd_head  BY <1>3 DEF PushIrq
  <2>2. /\ Len(queue) = Span(kbd_head, kbd_tail)
        /\ Full <=> Span(kbd_head, kbd_tail) = KBD_BUF_SIZE - 1
        /\ Span(kbd_head, kbd_tail) \in 0 .. KBD_BUF_SIZE - 1
    BY <1>1, ContentsShape DEF queue, Full
  <2>3. Full <=> ~ (Len(queue) < KBD_BUF_SIZE - 1)  BY <1>1, <2>2
  <2>4. CASE Full
    <3>1. queue' = queue  BY <1>3, <2>1, <2>4 DEF PushIrq, queue, Contents, Span, Wrapped
    <3>. QED  BY <2>1, <2>3, <2>4, <3>1 DEF Queue!Put
  <2>5. CASE ~ Full
    <3>1. queue' = Contents([kbd_buf EXCEPT ![kbd_tail] = ch], kbd_head, After(kbd_tail))
      BY <1>3, <2>1, <2>5 DEF PushIrq, queue
    <3>2. queue' = Append(queue, ch)
      BY <1>1, <2>5, <3>1, ContentsPush DEF Full, queue
    <3>. QED  BY <2>1, <2>3, <2>5, <3>2 DEF Queue!Put
  <2>. QED  BY <2>4, <2>5
<1>4. CASE PopAdvance
  <2>1. /\ kbd_head # kbd_tail /\ c = kbd_buf[kbd_head]
        /\ kbd_buf' = kbd_buf /\ kbd_tail' = kbd_tail /\ offers' = offers
        /\ kbd_head' = After(kbd_head) /\ got' = c
    BY <1>4 DEF PopAdvance, IInv, ReaderInv
  <2>2. queue' = Contents(kbd_buf, After(kbd_head), kbd_tail)  BY <2>1 DEF queue
  <2>3. queue # <<>> /\ Head(queue) = kbd_buf[kbd_head] /\ queue' = Tail(queue)
    BY <1>1, <2>1, <2>2, ContentsPop DEF queue
  <2>. QED  BY <2>1, <2>3 DEF Queue!Next, Queue!Take
<1>5. CASE TimerIrq  BY <1>2, <1>5 DEF TimerIrq
<1>6. CASE PopTest  BY <1>2, <1>6 DEF PopTest
<1>7. CASE Halt  BY <1>2, <1>7 DEF Halt
<1>8. CASE PopRead  BY <1>2, <1>8 DEF PopRead
<1>9. CASE UNCHANGED vars  BY <1>2, <1>9 DEF vars
<1>. QED
  BY <1>3, <1>4, <1>5, <1>6, <1>7, <1>8, <1>9 DEF Next, Reader, Queue!Next

\* The ring implements the queue for every buffer size: what the reader gets is
\* what the handler pushed, in order and once, and nothing is dropped while there
\* is room.
THEOREM RingIsQueue == Spec => QueueSpec
PROOF
<1>1. Init => Queue!Init
  <2>. SUFFICES ASSUME Init PROVE Queue!Init  OBVIOUS
  <2>1. Span(0, 0) = 0  BY DEF Span
  <2>2. queue = [k \in 1 .. 0 |-> kbd_buf[Wrapped(0 + k - 1)]]
    BY <2>1 DEF Init, queue, Contents
  <2>3. queue = <<>>  BY <2>2
  <2>. QED  BY <2>3 DEF Init, Queue!Init
<1>. QED  BY <1>1, InitInv, StepInv, StepRefines, PTL DEF Spec, QueueSpec, Queue!Spec

------------------------------------------------------------------------------
(***************************************************************************)
(* The safety half of WaitingIsRead.                                       *)
(***************************************************************************)
\* The reader's steps from a place to the character at head, when one waits.
StepsToRead ==
    CASE pc = "halt" -> 4 [] pc = "asleep" -> 3 [] pc = "test" -> 2
      [] pc = "read" -> 1 [] pc = "advance" -> 0

\* While a character waits the reader gets nearer to it with every step it makes and
\* with every tick it sleeps through; the handler never takes it back nor sends the
\* reader back, whenever it comes.
ReaderNears ==
    Waiting > 0 /\ pc # "advance" =>
        /\ Waiting' > 0
        /\ \/ StepsToRead' < StepsToRead
           \/ (\E ch \in Chars : PushIrq(ch)) /\ StepsToRead' = StepsToRead

LEMMA WaitingIs ==
  ASSUME NEW h \in Indices, NEW t \in Indices
  PROVE  Span(h, t) > 0 <=> h # t
PROOF
<1>1. KBD_BUF_SIZE \in Nat \ {0}  BY RingAssumptions
<1>. QED  BY <1>1 DEF Span, Indices

\* A reader that finds the buffer empty while it fills sleeps through one tick at most:
\* the character that came between its test and its hlt is read four steps later.
THEOREM ReaderGetsThere == Spec => [][ReaderNears]_vars
PROOF
<1>1. IInv /\ IInv' /\ [Next]_vars => [ReaderNears]_vars
  <2>. SUFFICES ASSUME IInv, IInv', Next, Waiting > 0, pc # "advance"
                PROVE  /\ Waiting' > 0
                       /\ \/ StepsToRead' < StepsToRead
                          \/ (\E ch \in Chars : PushIrq(ch)) /\ StepsToRead' = StepsToRead
    BY DEF ReaderNears
  <2>1. /\ kbd_head \in Indices /\ kbd_tail \in Indices /\ pc \in Places
        /\ kbd_head' \in Indices /\ kbd_tail' \in Indices
    BY DEF IInv, TypeOK
  <2>2. kbd_head # kbd_tail  BY <2>1, WaitingIs DEF Waiting
  <2>3. ASSUME kbd_head' # kbd_tail' PROVE Waiting' > 0
    BY <2>1, <2>3, WaitingIs DEF Waiting
  <2>4. ASSUME NEW ch \in Chars, PushIrq(ch)
        PROVE  /\ kbd_head' # kbd_tail'
               /\ StepsToRead' < StepsToRead \/ StepsToRead' = StepsToRead
    <3>1. kbd_head' # kbd_tail'
      <4>1. kbd_head' = kbd_head  BY <2>4 DEF PushIrq
      <4>2. CASE Full  BY <2>2, <2>4, <4>1, <4>2 DEF PushIrq
      <4>3. CASE ~ Full  BY <2>4, <4>1, <4>3 DEF PushIrq, Full
      <4>. QED  BY <4>2, <4>3
    <3>2. CASE pc = "asleep"
      <4>1. pc' = "test"  BY <2>4, <3>2 DEF PushIrq, Wake
      <4>2. StepsToRead' = 2 /\ StepsToRead = 3  BY <3>2, <4>1 DEF StepsToRead
      <4>. QED  BY <3>1, <4>2
    <3>3. CASE pc # "asleep"
      <4>1. pc' = pc  BY <2>4, <3>3 DEF PushIrq, Wake
      <4>. QED  BY <3>1, <4>1 DEF StepsToRead
    <3>. QED  BY <3>2, <3>3
  <2>5. ASSUME TimerIrq \/ Reader
        PROVE  kbd_head' # kbd_tail' /\ StepsToRead' < StepsToRead
    <3>1. /\ UNCHANGED <<kbd_head, kbd_tail>>
          /\ \/ pc = "asleep" /\ pc' = "test"
             \/ pc = "test" /\ pc' = "read"
             \/ pc = "halt" /\ pc' = "asleep"
             \/ pc = "read" /\ pc' = "advance"
      BY <2>2, <2>5 DEF TimerIrq, Reader, PopTest, Halt, PopRead, PopAdvance, ring
    <3>. QED  BY <2>2, <3>1 DEF StepsToRead
  <2>. QED  BY <2>3, <2>4, <2>5 DEF Next
<1>. QED  BY <1>1, InitInv, StepInv, PTL DEF Spec

------------------------------------------------------------------------------
(***************************************************************************)
(* The port: a polling loop never takes a byte twice, for every set of     *)
(* keys, number of screens, buffer size and length of input.               *)
(***************************************************************************)
\* A full output buffer holds a byte no loop has read, and so does the port of a
\* loop that is on its way from the status to the data: the handler empties the
\* port without touching the byte, and a new byte has a higher number.
PortInv ==
    /\ num \in Nat /\ seen \in Nat /\ num >= seen
    /\ obf => num > seen
    /\ ppc \in {"data", "data2"} => num > seen

\* A loop that has seen the buffer full reads a byte it has not read before,
\* whatever the interrupt handler did in between.
THEOREM NoByteTwice == PortSpec => []PollerReadsNew
PROOF
<1>1. PortInit => PortInv  BY DEF PortInit, PortInv
<1>2. PortInv /\ [PortNext]_portVars => PortInv'
  <2>. SUFFICES ASSUME PortInv, [PortNext]_portVars PROVE PortInv'  OBVIOUS
  <2>. USE DEF PortInv
  <2>1. ASSUME NEW key \in Keys, Press(key) \/ Release(key) PROVE PortInv'
    BY <2>1 DEF Press, Release, loop
  <2>2. CASE Transfer  BY <2>2 DEF Transfer, loop
  <2>3. CASE ps2kbd_irq_handler  BY <2>3 DEF ps2kbd_irq_handler, loop
  <2>4. CASE PollStatus  BY <2>4 DEF PollStatus, device
  <2>5. CASE WizardReads  BY <2>5 DEF WizardReads, TakeByte
  <2>6. CASE ShellReads
    <3>1. ppc' \in {"status", "status2", "enter"}  BY <2>6 DEF ShellReads
    <3>. QED  BY <2>6, <3>1 DEF ShellReads, TakeByte
  <2>7. CASE ShellReadsSecond  BY <2>7 DEF ShellReadsSecond, TakeByte
  <2>8. CASE WizardEnter  BY <2>8 DEF WizardEnter, device
  <2>9. CASE ShellEnter  BY <2>9 DEF ShellEnter, device
  <2>10. CASE TaskEnds  BY <2>10 DEF TaskEnds, device
  <2>11. CASE UNCHANGED portVars  BY <2>11 DEF portVars, device, loop
  <2>. QED
    BY <2>1, <2>2, <2>3, <2>4, <2>5, <2>6, <2>7, <2>8, <2>9, <2>10, <2>11
    DEF PortNext, Poller
<1>3. PortInv => PollerReadsNew  BY DEF PortInv, PollerReadsNew
<1>. QED  BY <1>1, <1>2, <1>3, PTL DEF PortSpec

------------------------------------------------------------------------------
(***************************************************************************)
(* The safety half of EnterReachesLoop: with interrupts off an Enter that  *)
(* is on its way stays on its way until a loop acts on it.                 *)
(***************************************************************************)
\* The bytes that follow a prefix: those of the one key with two, pressed and released.
SecondBytes == {72, 200}

\* A prefix is followed by its second byte.
Whole(bytes) ==
    /\ bytes \in Seq(Nat)
    /\ \A i \in 1 .. Len(bytes) :
           bytes[i] = E0 => i + 1 \in 1 .. Len(bytes) /\ bytes[i + 1] \in SecondBytes

NextIsSecond == fifo # <<>> /\ Head(fifo) \in SecondBytes

\* Only prefixes open a second read, and with interrupts off the byte it takes is the
\* second one: a loop that begins with interrupts off begins at its first read.
PrefixInv ==
    /\ Whole(fifo) /\ obf \in BOOLEAN
    /\ data = E0 => NextIsSecond
    /\ who = "task" => ppc = "status"
    /\ ~ ifl /\ ppc = "status2" => IF obf THEN data \in SecondBytes ELSE NextIsSecond
    /\ ~ ifl /\ ppc = "data2" => obf /\ data \in SecondBytes

\* With interrupts off no step loses an Enter that is on its way: it stays on its way
\* or it is the byte the loop has just acted on.
EnterStays == ~ ifl /\ EnterComing => EnterComing' \/ ppc' = "enter"

\* What a key sends, pressed or released, is whole.
LEMMA CodesWhole ==
  ASSUME NEW key \in Keys
  PROVE  /\ Whole(Codes[key])
         /\ Whole([i \in DOMAIN Codes[key] |-> Released(Codes[key][i])])
PROOF
<1>1. key \in {"enter", "a", "lshift", "rshift", "up"}  BY PortAssumptions DEF Codes
<1>2. ASSUME NEW b \in {28, 30, 42, 54}, Codes[key] = <<b>>
      PROVE  /\ Whole(Codes[key])
             /\ Whole([i \in DOMAIN Codes[key] |-> Released(Codes[key][i])])
  <2>1. [i \in DOMAIN <<b>> |-> Released(<<b>>[i])] = <<b + 128>>  BY DEF Released, E0
  <2>2. Whole(<<b>>) /\ Whole(<<b + 128>>)  BY DEF Whole, E0
  <2>. QED  BY <1>2, <2>1, <2>2
<1>3. CASE Codes[key] = <<224, 72>>
  <2>1. [i \in DOMAIN <<224, 72>> |-> Released(<<224, 72>>[i])] = <<224, 200>>
    BY DEF Released, E0
  <2>2. Whole(<<224, 72>>) /\ Whole(<<224, 200>>)  BY DEF Whole, E0, SecondBytes
  <2>. QED  BY <1>3, <2>1, <2>2
<1>. QED  BY <1>1, <1>2, <1>3 DEF Codes

LEMMA WholeConcat ==
  ASSUME NEW s, NEW t, Whole(s), Whole(t)
  PROVE  Whole(s \o t)
PROOF
<1>. DEFINE u == s \o t
<1>1. s \in Seq(Nat) /\ t \in Seq(Nat)  BY DEF Whole
<1>2. u \in Seq(Nat) /\ Len(u) = Len(s) + Len(t)  BY <1>1
<1>3. \A i \in 1 .. Len(u) : u[i] = IF i <= Len(s) THEN s[i] ELSE t[i - Len(s)]  BY <1>1
<1>4. Len(s) \in Nat /\ Len(t) \in Nat  BY <1>1
<1>. HIDE DEF u
<1>5. ASSUME NEW i \in 1 .. Len(u), u[i] = E0
      PROVE  i + 1 \in 1 .. Len(u) /\ u[i + 1] \in SecondBytes
  <2>1. CASE i <= Len(s)
    <3>1. i \in 1 .. Len(s) /\ s[i] = E0  BY <1>2, <1>3, <1>4, <1>5, <2>1
    <3>2. i + 1 \in 1 .. Len(s) /\ s[i + 1] \in SecondBytes  BY <3>1 DEF Whole
    <3>3. i + 1 \in 1 .. Len(u) /\ i + 1 <= Len(s)  BY <1>2, <1>4, <3>2
    <3>. QED  BY <1>3, <3>2, <3>3
  <2>2. CASE ~ i <= Len(s)
    <3>. DEFINE j == i - Len(s)
    <3>1. j \in 1 .. Len(t) /\ t[j] = E0  BY <1>2, <1>3, <1>4, <1>5, <2>2
    <3>2. j + 1 \in 1 .. Len(t) /\ t[j + 1] \in SecondBytes  BY <3>1 DEF Whole
    <3>3. /\ i + 1 \in 1 .. Len(u) /\ ~ i + 1 <= Len(s) /\ (i + 1) - Len(s) = j + 1
      BY <1>2, <1>4, <3>2
    <3>4. u[i + 1] = t[j + 1]  BY <1>3, <3>3
    <3>. QED  BY <3>2, <3>3, <3>4
  <2>. QED  BY <2>1, <2>2
<1>. QED  BY <1>2, <1>5 DEF u, Whole

\* A whole sequence stays whole, and what its prefix needs comes first, when its first
\* byte is taken.
LEMMA WholeTail ==
  ASSUME NEW s, Whole(s), s # <<>>
  PROVE  /\ Whole(Tail(s)) /\ Head(s) \in Nat
         /\ Head(s) = E0 => Tail(s) # <<>> /\ Head(Tail(s)) \in SecondBytes
PROOF
<1>. DEFINE t == Tail(s)
<1>1. s \in Seq(Nat)  BY DEF Whole
<1>2. /\ Len(s) \in Nat /\ Len(s) >= 1
      /\ t \in Seq(Nat) /\ Len(t) = Len(s) - 1 /\ Head(s) = s[1] /\ s[1] \in Nat
  BY <1>1
<1>3. \A i \in 1 .. Len(t) : t[i] = s[i + 1]  BY <1>1
<1>. HIDE DEF t
<1>4. ASSUME NEW i \in 1 .. Len(t), t[i] = E0
      PROVE  i + 1 \in 1 .. Len(t) /\ t[i + 1] \in SecondBytes
  <2>1. i + 1 \in 1 .. Len(s) /\ s[i + 1] = E0  BY <1>2, <1>3, <1>4
  <2>2. (i + 1) + 1 \in 1 .. Len(s) /\ s[(i + 1) + 1] \in SecondBytes  BY <2>1 DEF Whole
  <2>3. i + 1 \in 1 .. Len(t)  BY <1>2, <2>2
  <2>. QED  BY <1>3, <2>2, <2>3
<1>5. ASSUME Head(s) = E0 PROVE t # <<>> /\ Head(t) \in SecondBytes
  <2>1. 1 \in 1 .. Len(s) /\ s[1] = E0  BY <1>2, <1>5
  <2>2. 1 + 1 \in 1 .. Len(s) /\ s[1 + 1] \in SecondBytes  BY <2>1 DEF Whole
  <2>3. 1 \in 1 .. Len(t)  BY <1>2, <2>2
  <2>4. t[1] = s[1 + 1]  BY <1>3, <2>3
  <2>. QED  BY <1>2, <2>2, <2>3, <2>4
<1>. QED  BY <1>2, <1>4, <1>5 DEF t, Whole

\* Bytes are appended whole and behind what is there.
LEMMA SendsKeeps ==
  ASSUME NEW bytes, Whole(bytes), Whole(fifo), Sends(bytes)
  PROVE  /\ Whole(fifo')
         /\ NextIsSecond => NextIsSecond'
         /\ \A b \in Nat : (\E i \in 1 .. Len(fifo) : fifo[i] = b)
                           => (\E i \in 1 .. Len(fifo') : fifo'[i] = b)
PROOF
<1>1. fifo' = fifo \o bytes  BY DEF Sends
<1>2. fifo \in Seq(Nat) /\ bytes \in Seq(Nat)  BY DEF Whole
<1>3. Whole(fifo')  BY <1>1, WholeConcat
<1>4. Len(fifo') = Len(fifo) + Len(bytes) /\ Len(fifo) \in Nat /\ Len(bytes) \in Nat
  BY <1>1, <1>2
<1>5. \A i \in 1 .. Len(fifo) : i \in 1 .. Len(fifo') /\ fifo'[i] = fifo[i]
  BY <1>1, <1>2, <1>4
<1>6. NextIsSecond => NextIsSecond'
  <2>. SUFFICES ASSUME NextIsSecond PROVE NextIsSecond'  OBVIOUS
  <2>1. 1 \in 1 .. Len(fifo) /\ Head(fifo) = fifo[1]  BY <1>2 DEF NextIsSecond
  <2>2. 1 \in 1 .. Len(fifo') /\ fifo'[1] = fifo[1]  BY <1>5, <2>1
  <2>3. fifo' \in Seq(Nat)  BY <1>3 DEF Whole
  <2>4. fifo' # <<>> /\ Head(fifo') = fifo'[1]  BY <2>2, <2>3
  <2>. QED  BY <2>1, <2>2, <2>4 DEF NextIsSecond
<1>. QED  BY <1>3, <1>5, <1>6

\* A key sends whole codes and touches nothing the loops look at.
LEMMA KeySends ==
  ASSUME NEW key \in Keys, Press(key) \/ Release(key), Whole(fifo)
  PROVE  /\ Whole(fifo') /\ (NextIsSecond => NextIsSecond')
         /\ EnterComing => EnterComing'
         /\ UNCHANGED <<obf, data, ifl, who, ppc>>
PROOF
<1>1. \E bytes : Whole(bytes) /\ Sends(bytes)
  BY CodesWhole DEF Press, Release
<1>2. UNCHANGED <<obf, data, ifl, who, ppc>>  BY DEF Press, Release, loop
<1>3. SC_ENTER \in Nat  BY DEF SC_ENTER
<1>. QED  BY <1>1, <1>2, <1>3, SendsKeeps DEF EnterComing

\* The controller takes the first byte, and an Enter stays on its way.
LEMMA TransferKeeps ==
  ASSUME Transfer, Whole(fifo)
  PROVE  /\ Whole(fifo') /\ obf' = TRUE /\ data' = Head(fifo)
         /\ data' = E0 => NextIsSecond'
         /\ EnterComing => EnterComing'
         /\ UNCHANGED <<ifl, who, ppc>>
PROOF
<1>1. /\ fifo # <<>> /\ fifo' = Tail(fifo) /\ data' = Head(fifo) /\ obf' = TRUE /\ obf = FALSE
      /\ UNCHANGED <<ifl, who, ppc>>
  <2>1. ~ obf /\ obf' = TRUE  BY DEF Transfer
  <2>. QED  BY <2>1 DEF Transfer, loop
<1>2. Whole(fifo') /\ (data' = E0 => NextIsSecond')  BY <1>1, WholeTail DEF NextIsSecond
<1>3. ASSUME EnterComing PROVE EnterComing'
  <2>1. PICK i \in 1 .. Len(fifo) : fifo[i] = SC_ENTER  BY <1>1, <1>3 DEF EnterComing
  <2>2. fifo \in Seq(Nat)  BY DEF Whole
  <2>3. CASE i = 1
    <3>1. data' = SC_ENTER  BY <1>1, <2>1, <2>2, <2>3
    <3>. QED  BY <1>1, <3>1 DEF EnterComing
  <2>4. CASE i # 1
    <3>1. i - 1 \in 1 .. Len(fifo') /\ fifo'[i - 1] = fifo[i]
      BY <1>1, <2>1, <2>2, <2>4
    <3>. QED  BY <2>1, <3>1 DEF EnterComing
  <2>. QED  BY <2>3, <2>4
<1>. QED  BY <1>1, <1>2, <1>3

LEMMA PrefixStep == PrefixInv /\ [PortNext]_portVars => PrefixInv'
PROOF
<1>. SUFFICES ASSUME PrefixInv, [PortNext]_portVars PROVE PrefixInv'  OBVIOUS
<1>1. ASSUME NEW key \in Keys, Press(key) \/ Release(key) PROVE PrefixInv'
  BY <1>1, KeySends DEF PrefixInv
<1>2. CASE Transfer
  <2>1. ~ obf  BY <1>2 DEF Transfer
  <2>. QED  BY <1>2, <2>1, TransferKeeps DEF PrefixInv, NextIsSecond
<1>3. CASE ps2kbd_irq_handler
  <2>1. /\ ifl /\ ifl' = ifl /\ obf' = FALSE
        /\ UNCHANGED <<fifo, data, who, ppc>>
    BY <1>3 DEF ps2kbd_irq_handler, loop
  <2>. QED  BY <2>1 DEF PrefixInv, NextIsSecond
<1>4. CASE PollStatus
  <2>1. /\ UNCHANGED <<fifo, obf, data, ifl, who>> /\ who # "task"
        /\ \/ ppc = "status" /\ ppc' = IF obf THEN "data" ELSE "status"
           \/ ppc = "status2" /\ ppc' = IF obf THEN "data2" ELSE "status2"
    BY <1>4 DEF PollStatus, Polling, device
  <2>. QED  BY <2>1 DEF PrefixInv, NextIsSecond
<1>5. CASE WizardReads
  <2>1. /\ UNCHANGED <<fifo, data, ifl, who>> /\ who # "task"
        /\ obf' = FALSE /\ ppc' \in {"enter", "status"}
    BY <1>5 DEF WizardReads, TakeByte
  <2>. QED  BY <2>1 DEF PrefixInv, NextIsSecond
<1>6. CASE ShellReads
  <2>1. /\ UNCHANGED <<fifo, data, ifl, who>> /\ who # "task" /\ obf' = FALSE
    BY <1>6 DEF ShellReads, TakeByte
  <2>2. ppc' \in {"enter", "status"} \/ (data = E0 /\ ppc' = "status2")
    BY <1>6 DEF ShellReads
  <2>. QED  BY <2>1, <2>2 DEF PrefixInv, NextIsSecond
<1>7. CASE ShellReadsSecond
  <2>1. /\ UNCHANGED <<fifo, data, ifl, who>> /\ who # "task"
        /\ obf' = FALSE /\ ppc' = "status"
    BY <1>7 DEF ShellReadsSecond, TakeByte
  <2>. QED  BY <2>1 DEF PrefixInv, NextIsSecond
<1>8. CASE WizardEnter \/ ShellEnter
  <2>1. UNCHANGED <<fifo, obf, data>> /\ ppc' = "status"
    BY <1>8 DEF WizardEnter, ShellEnter, device
  <2>. QED  BY <2>1 DEF PrefixInv, NextIsSecond
<1>9. CASE TaskEnds
  <2>1. UNCHANGED <<fifo, obf, data, ppc>> /\ who = "task" /\ who' = "shell"
    BY <1>9 DEF TaskEnds, device
  <2>. QED  BY <2>1 DEF PrefixInv, NextIsSecond
<1>10. CASE UNCHANGED portVars
  <2>1. UNCHANGED <<fifo, obf, data, ifl, who, ppc>>
    BY <1>10 DEF portVars, device, loop
  <2>. QED  BY <2>1 DEF PrefixInv, NextIsSecond
<1>. QED
  BY <1>1, <1>2, <1>3, <1>4, <1>5, <1>6, <1>7, <1>8, <1>9, <1>10 DEF PortNext, Poller

LEMMA PrefixHolds == PortSpec => []PrefixInv
PROOF
<1>1. PortInit => PrefixInv
  <2>1. Whole(<<>>)  BY DEF Whole
  <2>2. ASSUME PortInit
        PROVE  /\ fifo = <<>> /\ obf \in BOOLEAN /\ data # E0 /\ ppc = "status"
    <3>1. obf = FALSE /\ data = 0 /\ 0 # E0  BY <2>2 DEF PortInit, E0
    <3>2. fifo = <<>> /\ ppc = "status"  BY <2>2 DEF PortInit
    <3>. QED  BY <3>1, <3>2
  <2>. QED  BY <2>1, <2>2 DEF PrefixInv
<1>. QED  BY <1>1, PrefixStep, PTL DEF PortSpec

\* With interrupts off the shell, and a wizard started from it, loses no Enter: neither
\* the byte taken with a prefix nor a change of loop drops one that is on its way.
THEOREM EnterNotSwallowed == PortSpec => [][EnterStays]_portVars
PROOF
<1>1. PrefixInv /\ [PortNext]_portVars => [EnterStays]_portVars
  <2>. SUFFICES ASSUME PrefixInv, PortNext, ~ ifl, EnterComing
                PROVE  EnterComing' \/ ppc' = "enter"
    BY DEF EnterStays
  <2>1. ASSUME NEW key \in Keys, Press(key) \/ Release(key) PROVE EnterComing'
    BY <2>1, KeySends DEF PrefixInv
  <2>2. CASE Transfer  BY <2>2, TransferKeeps DEF PrefixInv
  <2>3. ~ ps2kbd_irq_handler  BY DEF ps2kbd_irq_handler
  <2>4. CASE WizardReads \/ ShellReads
    <3>1. fifo' = fifo  BY <2>4 DEF WizardReads, ShellReads, TakeByte
    <3>2. ASSUME data = SC_ENTER PROVE ppc' = "enter"
      <4>1. CASE WizardReads  BY <3>2, <4>1 DEF WizardReads
      <4>2. CASE ShellReads
        <5>1. data # E0  BY <3>2 DEF SC_ENTER, E0
        <5>. QED  BY <3>2, <4>2, <5>1 DEF ShellReads
      <4>. QED  BY <2>4, <4>1, <4>2
    <3>. QED  BY <3>1, <3>2 DEF EnterComing
  <2>5. CASE ShellReadsSecond
    <3>1. fifo' = fifo /\ ppc = "data2"  BY <2>5 DEF ShellReadsSecond, TakeByte
    <3>2. data # SC_ENTER  BY <3>1 DEF PrefixInv, SecondBytes, SC_ENTER
    <3>. QED  BY <3>1, <3>2 DEF EnterComing
  <2>6. CASE PollStatus \/ WizardEnter \/ ShellEnter \/ TaskEnds
    <3>1. UNCHANGED <<fifo, obf, data>>
      BY <2>6 DEF PollStatus, WizardEnter, ShellEnter, TaskEnds, device
    <3>. QED  BY <3>1 DEF EnterComing
  <2>. QED  BY <2>1, <2>2, <2>3, <2>4, <2>5, <2>6 DEF PortNext, Poller
<1>. QED  BY <1>1, PrefixHolds, PTL DEF PortSpec
==============================================================================
