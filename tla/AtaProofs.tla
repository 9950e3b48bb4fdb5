------------------------------ MODULE AtaProofs -------------------------------
(***************************************************************************)
(* What ata_read_sectors and ata_init have stored is what the drive holds  *)
(* of the sectors asked for, for every number of polls, sector size, disk  *)
(* and argument, and whatever an earlier command left the drive doing.     *)
(***************************************************************************)
EXTENDS Ata, SequenceTheorems, TLAPS

------------------------------------------------------------------------------
(***************************************************************************)
(* Sectors and words                                                       *)
(***************************************************************************)
LEMMA Multiples ==
  ASSUME NEW size \in Nat, NEW n \in Nat
  PROVE  n * size \in Nat /\ 0 * size = 0 /\ (n + 1) * size = n * size + size
OBVIOUS

LEMMA NextMultiple ==
  ASSUME NEW size \in Nat, NEW a \in Int, NEW b \in Int, a < b
  PROVE  a * size + size <= b * size
<1>1. PICK d \in Nat : b = a + 1 + d  BY b - a - 1 \in Nat /\ b = a + 1 + (b - a - 1)
<1>2. b * size = a * size + size + d * size  BY <1>1
<1>3. d * size >= 0  OBVIOUS
<1>4. a * size \in Int /\ d * size \in Int /\ b * size \in Int  OBVIOUS
<1>. QED  BY <1>2, <1>3, <1>4

LEMMA Position ==
  ASSUME NEW size \in Nat \ {0}, NEW a \in Nat, NEW b \in 0 .. size - 1
  PROVE  (a * size + b) \div size = a /\ (a * size + b) % size = b
<1>. DEFINE n == a * size + b
            q == n \div size
            m == n % size
<1>1. n \in Nat /\ q \in Int /\ m \in 0 .. size - 1 /\ n = size * q + m  OBVIOUS
<1>. HIDE DEF q, m
<1>2. ~ q < a
  BY <1>1, NextMultiple
<1>3. ~ a < q
  BY <1>1, NextMultiple
<1>. QED  BY <1>1, <1>2, <1>3 DEF q, m

LEMMA Remainder ==
  ASSUME NEW size \in Nat \ {0}, NEW b \in 0 .. size - 1
  PROVE  b % size = b
<1>. DEFINE z == 0
<1>1. z \in Nat /\ z * size = 0  OBVIOUS
<1>. HIDE DEF z
<1>2. (z * size + b) % size = b  BY <1>1, Position
<1>. QED  BY <1>1, <1>2

LEMMA SectorsType ==
  ASSUME NEW l \in Int, NEW n \in Nat
  PROVE  /\ Sectors(l, n) \in Seq(Int \X Int)
         /\ Len(Sectors(l, n)) = n * SectorWords
         /\ \A k \in 1 .. n * SectorWords :
              Sectors(l, n)[k] = Word(l + (k - 1) \div SectorWords, (k - 1) % SectorWords)
<1>1. n * SectorWords \in Nat  BY AtaAssumptions
<1>2. \A k \in 1 .. n * SectorWords :
        Word(l + (k - 1) \div SectorWords, (k - 1) % SectorWords) \in Int \X Int
  BY <1>1, AtaAssumptions DEF Word
<1>. QED  BY <1>1, <1>2 DEF Sectors

------------------------------------------------------------------------------
(***************************************************************************)
(* The invariant: where the driver is in its loops, that the drive is at   *)
(* the same word of this call's command, and what is stored.               *)
(***************************************************************************)
First == IF op = "init" THEN IDENT ELSE lba % LbaSize

TypeInv ==
    /\ dsector \in Int /\ dword \in Nat
    /\ pc \in {"idle", "ready", "status", "command", "again", "drq", "word"}
    /\ lba \in Nat /\ count \in Nat
    /\ s \in Nat /\ w \in 0 .. SectorWords - 1
    /\ buf \in Seq(Int \X Int)
    /\ present \in BOOLEAN

PlaceInv ==
    /\ pc # "idle" => s < count
    /\ pc \in {"ready", "status", "command", "again"} => s = 0 /\ w = 0
    /\ pc = "drq" => w = 0
    /\ op = "init" => count = 1

\* A command sent before is gone, and the drive does not move while the driver waits.
TransferInv ==
    /\ pc \in {"again", "drq", "word"} /\ bus = "drive" => dsector = First + s /\ dword = w
    /\ pc = "word" => bus = "drive" /\ dstate = "data"

Matches ==
    \A k \in 1 .. Len(buf) :
       buf[k] = Word(First + (k - 1) \div SectorWords, (k - 1) % SectorWords)

BufferInv ==
    /\ Matches
    /\ pc # "idle" => Len(buf) = s * SectorWords + w
    /\ Len(buf) <= count * SectorWords
    /\ pc = "idle" /\ result = 1 => Len(buf) = count * SectorWords

PresentInv ==
    /\ present => bus = "drive"
    /\ present /\ op = "init" => pc = "idle" /\ result = 1

AtaInv == TypeInv /\ PlaceInv /\ TransferInv /\ BufferInv /\ PresentInv

LEMMA FirstType == ASSUME lba \in Nat PROVE First \in Int
BY AtaAssumptions DEF First, IDENT

LEMMA InitInv == Init => AtaInv
<1>. SUFFICES ASSUME Init PROVE AtaInv  OBVIOUS
<1>1. SectorWords \in Nat \ {0}  BY AtaAssumptions
<1>2. TypeInv
  <2>1. present \in BOOLEAN  BY DEF Init
  <2>. QED  BY <1>1, <2>1 DEF Init, TypeInv, IDENT
<1>3. BufferInv  BY <1>1 DEF Init, BufferInv, Matches
<1>. QED  BY <1>2, <1>3 DEF Init, AtaInv, PlaceInv, TransferInv, PresentInv

------------------------------------------------------------------------------
\* A call starts with nothing stored.
LEMMA CallStep ==
  ASSUME AtaInv,
         ata_init \/ (\E l \in Lbas, n \in Counts : ata_read_sectors(l, n))
  PROVE  AtaInv'
<1>0. SectorWords \in Nat \ {0}  BY AtaAssumptions
<1>1. /\ buf' = <<>> /\ s' = 0 /\ w' = 0 /\ lba' \in Nat /\ count' \in Nat
      /\ op' = "init" => count' = 1
  BY AtaAssumptions DEF ata_init, ata_read_sectors, Call
<1>2. \/ pc' = "ready" /\ count' > 0 /\ result' = -1
      \/ pc' = "idle" /\ count' = 0 /\ op' = "read"
  BY AtaAssumptions DEF ata_init, ata_read_sectors, Call, Goto
<1>3. dsector' \in Int /\ dword' \in Nat
  BY DEF ata_init, ata_read_sectors, Command, AtaInv, TypeInv, drive, IDENT
<1>4. /\ present' \in BOOLEAN
      /\ \/ op' = "init" /\ ~ present'
         \/ op' = "read" /\ present' = present /\ bus' = bus
  <2>1. CASE ata_init
    <3>1. op' = "init" /\ present' = FALSE  BY <2>1 DEF ata_init, Call
    <3>. QED  BY <3>1
  <2>2. CASE \E l \in Lbas, n \in Counts : ata_read_sectors(l, n)
    <3>1. op' = "read" /\ present' = present /\ bus' = bus
      BY <2>2 DEF ata_read_sectors, Call, drive
    <3>. QED  BY <3>1 DEF AtaInv, TypeInv
  <2>. QED  BY <2>1, <2>2
<1>5. TypeInv' /\ PlaceInv'  BY <1>0, <1>1, <1>2, <1>3, <1>4 DEF TypeInv, PlaceInv
<1>6. TransferInv'  BY <1>2 DEF TransferInv
<1>7. BufferInv'
  <2>1. Len(buf') = 0  BY <1>1
  <2>. DEFINE words == count' * SectorWords
  <2>2. words \in Nat /\ (count' = 0 => words = 0)  BY <1>0, <1>1, Multiples
  <2>3. Matches'  BY <2>1 DEF Matches
  <2>4. s' * SectorWords + w' = 0  BY <1>0, <1>1, Multiples
  <2>. HIDE DEF words
  <2>5. /\ Len(buf') <= words
        /\ pc' = "idle" /\ result' = 1 => Len(buf') = words
    BY <1>2, <2>1, <2>2
  <2>. QED  BY <2>1, <2>3, <2>4, <2>5 DEF BufferInv, words
<1>8. PresentInv'
  <2>1. present => bus = "drive"  BY DEF AtaInv, PresentInv
  <2>. QED  BY <1>4, <2>1 DEF PresentInv
<1>. QED  BY <1>5, <1>6, <1>7, <1>8 DEF AtaInv

\* What giving up leaves: a part from the front, and no drive reported.
LEMMA GiveUp ==
  ASSUME AtaInv, Return(0), pc # "idle", UNCHANGED <<drive, args, s, w, buf>>
  PROVE  AtaInv'
<1>1. /\ pc' = "idle" /\ result' = 0
      /\ UNCHANGED <<bus, dstate, dsector, dword, op, lba, count, s, w, buf>>
  BY DEF Return, drive, args
<1>2. /\ present' \in BOOLEAN /\ (present' => present)
      /\ op = "init" => ~ present'
  <2>1. CASE op = "init"
    <3>1. present' = FALSE
      <4>1. present' = (0 = 1)  BY <2>1 DEF Return
      <4>2. (0 = 1) = FALSE  OBVIOUS
      <4>. QED  BY <4>1, <4>2
    <3>. QED  BY <3>1
  <2>2. CASE op # "init"
    <3>1. present' = present  BY <2>2 DEF Return
    <3>. QED  BY <2>2, <3>1 DEF AtaInv, TypeInv
  <2>. QED  BY <2>1, <2>2
<1>3. First' = First /\ (Matches => Matches')  BY <1>1 DEF First, Matches
<1>4. PresentInv'
  <2>1. present => bus = "drive"  BY DEF AtaInv, PresentInv
  <2>. QED  BY <1>1, <1>2, <2>1 DEF PresentInv
<1>. QED
  BY <1>1, <1>2, <1>3, <1>4 DEF AtaInv, TypeInv, PlaceInv, TransferInv, BufferInv

\* Going on to another place without a word read.
LEMMA GoOn ==
  ASSUME AtaInv, UNCHANGED <<drive, args, s, w, buf, result, present>>,
         pc # "idle",
         \/ pc' = pc
         \/ pc = "ready" /\ pc' \in {"status", "command"}
         \/ pc = "status" /\ pc' = "command"
         \/ pc = "again" /\ pc' = "drq"
         \/ pc = "drq" /\ pc' = "word" /\ bus = "drive" /\ dstate = "data"
  PROVE  AtaInv'
<1>1. UNCHANGED <<bus, dstate, dsector, dword, op, lba, count, s, w, buf, result, present>>
  BY DEF drive, args
<1>2. First' = First  BY <1>1 DEF First
<1>3. TypeInv' /\ PlaceInv'  BY <1>1 DEF AtaInv, TypeInv, PlaceInv
<1>4. TransferInv'
  BY <1>1, <1>2 DEF AtaInv, TransferInv
<1>5. BufferInv'
  <2>1. Matches => Matches'  BY <1>1, <1>2 DEF Matches
  <2>. QED  BY <1>1, <2>1 DEF AtaInv, BufferInv
<1>6. PresentInv'  BY <1>1 DEF AtaInv, PresentInv
<1>. QED  BY <1>3, <1>4, <1>5, <1>6 DEF AtaInv

LEMMA WaitStep ==
  ASSUME AtaInv, _ata_wait_not_busy \/ CheckStatus \/ CheckAgain \/ _ata_wait_drq
  PROVE  AtaInv'
<1>1. pc # "idle" /\ UNCHANGED <<drive, args, s, w, buf>>
  BY DEF _ata_wait_not_busy, CheckStatus, CheckAgain, _ata_wait_drq
<1>2. \/ Return(0)
      \/ /\ UNCHANGED <<result, present>>
         /\ \/ pc' = pc
            \/ pc = "ready" /\ pc' \in {"status", "command"}
            \/ pc = "status" /\ pc' = "command"
            \/ pc = "again" /\ pc' = "drq"
            \/ pc = "drq" /\ pc' = "word" /\ Drq /\ ~ Err
  BY DEF _ata_wait_not_busy, CheckStatus, CheckAgain, _ata_wait_drq, Poll, Goto
<1>3. Drq /\ ~ Err => bus = "drive" /\ dstate = "data"
  BY DEF Drq, Err
<1>. QED  BY <1>1, <1>2, <1>3, GiveUp, GoOn

\* The command takes the place of whatever the drive was doing.
LEMMA CommandStep ==
  ASSUME AtaInv, SendCommand
  PROVE  AtaInv'
<1>1. UNCHANGED <<bus, op, lba, count, s, w, buf, result, present>>
  BY DEF SendCommand, Command, drive, args
<1>2. /\ pc = "command" /\ pc' \in {"again", "drq"}
      /\ bus = "drive" => dsector' = First /\ dword' = 0
      /\ bus # "drive" => UNCHANGED <<dsector, dword>>
  BY DEF SendCommand, Command, Goto, First, Registers, drive
<1>3. First' = First  BY <1>1 DEF First
<1>4. First \in Int  BY FirstType DEF AtaInv, TypeInv
<1>5. TypeInv' /\ PlaceInv'  BY <1>1, <1>2, <1>4 DEF AtaInv, TypeInv, PlaceInv
<1>6. TransferInv'  BY <1>1, <1>2, <1>3, <1>4 DEF AtaInv, PlaceInv, TransferInv
<1>7. BufferInv'
  <2>1. Matches => Matches'  BY <1>1, <1>3 DEF Matches
  <2>. QED  BY <1>1, <1>2, <2>1 DEF AtaInv, BufferInv
<1>8. PresentInv'  BY <1>1, <1>2 DEF AtaInv, PresentInv
<1>. QED  BY <1>5, <1>6, <1>7, <1>8 DEF AtaInv

\* The word stored is the next one of this call's sectors.
LEMMA ReadWordStep ==
  ASSUME AtaInv, ReadWord
  PROVE  AtaInv'
<1>0. SectorWords \in Nat \ {0}  BY AtaAssumptions
<1>1. /\ s \in Nat /\ w \in 0 .. SectorWords - 1 /\ count \in Nat /\ s < count
      /\ lba \in Nat /\ buf \in Seq(Int \X Int)
  BY DEF AtaInv, TypeInv, PlaceInv, ReadWord
<1>2. First \in Int /\ First' = First
  BY <1>1, FirstType DEF ReadWord, args, First
<1>3. /\ pc = "word" /\ bus = "drive" /\ dstate = "data"
      /\ dsector = First + s /\ dword = w
  BY DEF AtaInv, TransferInv, ReadWord
<1>4. Data = Word(First + s, w)  BY <1>3 DEF Data, Drq
<1>5. Len(buf) = s * SectorWords + w /\ s * SectorWords \in Nat
  BY <1>0, <1>1, <1>3 DEF AtaInv, BufferInv
<1>6. buf' \in Seq(Int \X Int) /\ Len(buf') = s * SectorWords + w + 1 /\ Matches'
  <2>1. buf' = Append(buf, Word(First + s, w)) /\ Word(First + s, w) \in Int \X Int
    BY <1>1, <1>2, <1>4 DEF ReadWord, Word
  <2>. DEFINE n == Len(buf)
  <2>2. n \div SectorWords = s /\ n % SectorWords = w
    <3>1. (s * SectorWords + w) \div SectorWords = s /\ (s * SectorWords + w) % SectorWords = w
      BY <1>0, <1>1, Position, Zenon
    <3>. QED  BY <1>5, <3>1
  <2>3. /\ n \in Nat /\ buf' \in Seq(Int \X Int) /\ Len(buf') = n + 1
        /\ buf'[n + 1] = Word(First + s, w)
        /\ \A k \in 1 .. n : buf'[k] = buf[k]
    BY <1>1, <2>1
  <2>4. \A k \in 1 .. n :
          buf[k] = Word(First + (k - 1) \div SectorWords, (k - 1) % SectorWords)
    BY DEF AtaInv, BufferInv, Matches
  <2>5. n = s * SectorWords + w  BY <1>5
  <2>. HIDE DEF n
  <2>6. \A k \in 1 .. n + 1 : (k = n + 1 /\ k - 1 = n) \/ k \in 1 .. n  BY <2>3
  <2>7. \A k \in 1 .. n + 1 :
          buf'[k] = Word(First + (k - 1) \div SectorWords, (k - 1) % SectorWords)
    BY <2>2, <2>3, <2>4, <2>6
  <2>. QED  BY <1>2, <2>3, <2>5, <2>7 DEF Matches
<1>7. UNCHANGED <<bus, op, lba, count>>
  BY <1>3 DEF ReadWord, Take, Drq, args, drive
<1>. DEFINE done == s * SectorWords
            more == (s + 1) * SectorWords
            all == count * SectorWords
<1>8. done + SectorWords <= all
  BY <1>0, <1>1, NextMultiple
<1>9. all \in Nat /\ done \in Nat /\ more = done + SectorWords  BY <1>0, <1>1, Multiples
<1>. HIDE DEF done, more, all
<1>10. CASE w + 1 < SectorWords
  <2>1. /\ w' = w + 1 /\ UNCHANGED <<pc, s, result, present>>
        /\ dword' = w + 1 /\ UNCHANGED <<dsector, dstate>>
    <3>1. w' = w + 1 /\ UNCHANGED <<pc, s, result, present>> /\ Take
      BY <1>0, <1>1, <1>10 DEF ReadWord
    <3>. QED  BY <1>3, <1>10, <3>1 DEF Take, Drq
  <2>2. TypeInv' /\ PlaceInv' /\ TransferInv' /\ PresentInv'
    BY <1>0, <1>1, <1>2, <1>3, <1>6, <1>7, <1>10, <2>1
    DEF AtaInv, TypeInv, PlaceInv, TransferInv, PresentInv
  <2>3. BufferInv'
    <3>1. Len(buf') = done + w + 1  BY <1>6 DEF done
    <3>2. Len(buf') = done + w' /\ Len(buf') <= all /\ pc' # "idle"
      BY <1>0, <1>1, <1>3, <1>8, <1>9, <2>1, <3>1
    <3>. QED  BY <1>6, <1>7, <2>1, <3>2 DEF BufferInv, done, all
  <2>. QED  BY <2>2, <2>3 DEF AtaInv
<1>11. CASE w + 1 = SectorWords /\ ~ LastSector
  <2>1. /\ w' = 0 /\ s' = s + 1 /\ pc' = "drq" /\ UNCHANGED <<result, present>>
        /\ dword' = 0 /\ dsector' = dsector + 1
    <3>1. ~ (w + 1 < SectorWords)  BY <1>0, <1>1, <1>11
    <3>2. w' = 0 /\ s' = s + 1 /\ pc' = "drq" /\ UNCHANGED <<result, present>> /\ Take
      BY <1>11, <3>1 DEF ReadWord, Goto
    <3>. QED  BY <1>3, <3>1, <3>2 DEF Take, Drq
  <2>2. s + 1 < count  BY <1>1, <1>11 DEF LastSector
  <2>3. TypeInv' /\ PlaceInv' /\ TransferInv' /\ PresentInv'
    BY <1>0, <1>1, <1>2, <1>3, <1>6, <1>7, <2>1, <2>2
    DEF AtaInv, TypeInv, PlaceInv, TransferInv, PresentInv
  <2>4. BufferInv'
    <3>1. Len(buf') = done + w + 1  BY <1>6 DEF done
    <3>2. Len(buf') = more + w' /\ Len(buf') <= all /\ pc' # "idle"
      BY <1>0, <1>1, <1>8, <1>9, <1>11, <2>1, <3>1
    <3>. QED  BY <1>6, <1>7, <2>1, <3>2 DEF BufferInv, more, all
  <2>. QED  BY <2>3, <2>4 DEF AtaInv
<1>12. CASE w + 1 = SectorWords /\ LastSector
  <2>1. /\ w' = 0 /\ s' = s /\ pc' = "idle" /\ result' = 1
        /\ present' \in BOOLEAN
        /\ dword' = 0 /\ dsector' = dsector + 1
    <3>1. ~ (w + 1 < SectorWords)  BY <1>0, <1>1, <1>12
    <3>2. w' = 0 /\ s' = s /\ Return(1) /\ Take
      BY <1>12, <3>1 DEF ReadWord
    <3>3. present' \in BOOLEAN
      BY <3>2 DEF Return, AtaInv, TypeInv
    <3>. QED  BY <1>3, <3>1, <3>2, <3>3 DEF Take, Drq, Return
  <2>2. s + 1 = count  BY <1>1, <1>12 DEF LastSector
  <2>3. TypeInv' /\ PlaceInv' /\ TransferInv' /\ PresentInv'
    BY <1>0, <1>1, <1>2, <1>3, <1>6, <1>7, <2>1
    DEF AtaInv, TypeInv, PlaceInv, TransferInv, PresentInv
  <2>4. BufferInv'
    <3>1. Len(buf') = done + w + 1  BY <1>6 DEF done
    <3>2. all = more  BY <2>2 DEF all, more
    <3>3. Len(buf') = all
      BY <1>0, <1>1, <1>9, <1>12, <3>1, <3>2
    <3>. QED  BY <1>6, <1>7, <1>9, <2>1, <3>3 DEF BufferInv, all
  <2>. QED  BY <2>3, <2>4 DEF AtaInv
<1>. QED  BY <1>0, <1>1, <1>10, <1>11, <1>12

LEMMA AnswerStep ==
  ASSUME AtaInv, DriveAnswers
  PROVE  AtaInv'
<1>1. UNCHANGED <<bus, dsector, dword, pc, op, lba, count, s, w, buf, result, present>>
  BY DEF DriveAnswers, driver, args
<1>2. pc # "word"  BY DEF DriveAnswers, AtaInv, TransferInv
<1>3. First' = First  BY <1>1 DEF First
<1>4. Matches => Matches'  BY <1>1, <1>3 DEF Matches
<1>. QED
  BY <1>1, <1>2, <1>3, <1>4
  DEF AtaInv, TypeInv, PlaceInv, TransferInv, BufferInv, PresentInv

LEMMA InvStep == AtaInv /\ [Next]_vars => AtaInv'
<1>. SUFFICES ASSUME AtaInv, [Next]_vars PROVE AtaInv'  OBVIOUS
<1>1. CASE UNCHANGED vars
  <2>1. UNCHANGED <<bus, dstate, dsector, dword, pc, op, lba, count, s, w, buf, result, present>>
    BY <1>1 DEF vars, drive, driver, args
  <2>2. First' = First  BY <2>1 DEF First
  <2>3. Matches => Matches'  BY <2>1, <2>2 DEF Matches
  <2>. QED
    BY <2>1, <2>2, <2>3
    DEF AtaInv, TypeInv, PlaceInv, TransferInv, BufferInv, PresentInv
<1>. QED
  BY <1>1, AnswerStep, CallStep, WaitStep, CommandStep, ReadWordStep DEF Next, Driver

\* The driver's loops and the drive keep step: a word is only ever read at the place of
\* this call's command that it is stored for, and the drive is known to be there.
THEOREM AtaInvariant == Spec => []AtaInv
PROOF BY InitInv, InvStep, PTL DEF Spec

\* A read that returns 1 has stored the sectors asked for and one that fails a part of
\* them from the front, also when the drive answers an earlier command late.
THEOREM ReadsAreExact == Spec => []ReadExact
PROOF
<1>1. AtaInv => ReadExact
  <2>. SUFFICES ASSUME AtaInv, op = "read", lba < LbaSize
                PROVE  /\ buf = SubSeq(Sectors(lba, count), 1, Len(buf))
                       /\ pc = "idle" /\ result = 1 => Len(buf) = count * SectorWords
    BY DEF ReadExact
  <2>. DEFINE all == Sectors(lba, count)
  <2>0. SectorWords \in Nat \ {0} /\ LbaSize \in Nat \ {0}  BY AtaAssumptions
  <2>1. First = lba /\ lba \in Nat /\ count \in Nat /\ buf \in Seq(Int \X Int)
    <3>1. lba \in Nat /\ count \in Nat /\ buf \in Seq(Int \X Int)  BY DEF AtaInv, TypeInv
    <3>2. lba % LbaSize = lba
      <4>1. lba \in 0 .. LbaSize - 1  BY <2>0, <3>1
      <4>. QED  BY <2>0, <4>1, Remainder
    <3>. QED  BY <3>1, <3>2 DEF First
  <2>2. Len(buf) \in 0 .. count * SectorWords
    BY <2>0, <2>1 DEF AtaInv, BufferInv
  <2>3. /\ all \in Seq(Int \X Int) /\ Len(all) = count * SectorWords
        /\ \A k \in 1 .. Len(buf) : buf[k] = all[k]
    <3>1. /\ all \in Seq(Int \X Int) /\ Len(all) = count * SectorWords
          /\ \A k \in 1 .. count * SectorWords :
               all[k] = Word(lba + (k - 1) \div SectorWords, (k - 1) % SectorWords)
      <4>1. lba \in Int /\ count \in Nat  BY <2>1
      <4>. QED  BY <4>1, SectorsType, Zenon
    <3>2. \A k \in 1 .. Len(buf) : k \in 1 .. count * SectorWords
      <4>. DEFINE words == count * SectorWords
      <4>1. words \in Nat  BY <2>0, <2>1, Multiples
      <4>. HIDE DEF words
      <4>2. Len(buf) \in 0 .. words  BY <2>2 DEF words
      <4>3. \A k \in 1 .. Len(buf) : k \in 1 .. words  BY <4>1, <4>2
      <4>. QED  BY <4>3 DEF words
    <3>3. \A k \in 1 .. Len(buf) :
            buf[k] = Word(lba + (k - 1) \div SectorWords, (k - 1) % SectorWords)
      BY <2>1 DEF AtaInv, BufferInv, Matches
    <3>. HIDE DEF all
    <3>. QED  BY <3>1, <3>2, <3>3
  <2>. HIDE DEF all
  <2>4. /\ SubSeq(all, 1, Len(buf)) \in Seq(Int \X Int)
        /\ Len(SubSeq(all, 1, Len(buf))) = Len(buf)
        /\ \A k \in 1 .. Len(buf) : SubSeq(all, 1, Len(buf))[k] = all[k]
    BY <2>2, <2>3
  <2>5. buf = SubSeq(all, 1, Len(buf))
    BY <2>1, <2>3, <2>4, SeqEqual
  <2>. QED  BY <2>5 DEF all, AtaInv, BufferInv
<1>. QED  BY <1>1, AtaInvariant, PTL

\* The drive is reported present only when it is there and has handed over all of this
\* IDENTIFY's data.
THEOREM PresentHasAnswered == Spec => []PresentAnswered
PROOF
<1>1. AtaInv => PresentAnswered
  <2>. SUFFICES ASSUME AtaInv, present
                PROVE  bus = "drive" /\ (op = "init" => buf = Sectors(IDENT, 1))
    BY DEF PresentAnswered
  <2>1. bus = "drive"  BY DEF AtaInv, PresentInv
  <2>2. ASSUME op = "init" PROVE buf = Sectors(IDENT, 1)
    <3>. DEFINE all == Sectors(IDENT, 1)
    <3>0. SectorWords \in Nat \ {0}  BY AtaAssumptions
    <3>1. count = 1 /\ First = IDENT /\ buf \in Seq(Int \X Int) /\ pc = "idle" /\ result = 1
      BY <2>2 DEF AtaInv, TypeInv, PlaceInv, PresentInv, First
    <3>2. Len(buf) = 1 * SectorWords /\ 1 * SectorWords = SectorWords
      BY <3>0, <3>1 DEF AtaInv, BufferInv
    <3>3. IDENT \in Int  BY DEF IDENT
    <3>4. /\ all \in Seq(Int \X Int) /\ Len(all) = Len(buf)
          /\ \A k \in 1 .. Len(buf) : buf[k] = all[k]
      BY <3>1, <3>2, <3>3, SectorsType DEF AtaInv, BufferInv, Matches
    <3>. QED  BY <3>1, <3>4, SeqEqual
  <2>. QED  BY <2>1, <2>2
<1>. QED  BY <1>1, AtaInvariant, PTL

------------------------------------------------------------------------------
(***************************************************************************)
(* The safety half of CallReturns: a call has a bounded number of steps    *)
(* left, whatever the drive does.                                          *)
(***************************************************************************)
\* Steps a sector may take: the polls before its data and its words.
Block == MaxPolls + SectorWords

\* Steps this call may still take.
StepsLeft ==
    CASE pc = "idle" -> 0
      [] pc = "word" -> (count - s - 1) * Block + (SectorWords - w)
      [] pc = "drq" -> (count - s - 1) * Block + SectorWords + (MaxPolls - polls)
      [] pc = "again" -> count * Block + 1
      [] pc = "command" -> count * Block + 2
      [] pc = "status" -> count * Block + 3
      [] pc = "ready" -> count * Block + 3 + (MaxPolls - polls)

PollsInv == polls \in 0 .. MaxPolls - 1

\* A step of the driver in a call leaves it fewer steps, and the drive costs it none: no
\* call takes more than MaxPolls + 3 steps, and MaxPolls + SectorWords for each sector.
StepCounts ==
    pc # "idle" =>
        /\ StepsLeft \in 1 .. MaxPolls + 3 + count * Block
        /\ \/ StepsLeft' \in 0 .. StepsLeft - 1
           \/ DriveAnswers /\ StepsLeft' = StepsLeft

LEMMA SectorsLeft ==
  ASSUME NEW b \in Nat, NEW n \in Nat, NEW k \in Nat, k < n
  PROVE  /\ (n - k - 1) * b \in Nat /\ n * b \in Nat
         /\ (n - k - 1) * b + b <= n * b
         /\ k = 0 => (n - k - 1) * b + b = n * b
         /\ k + 1 < n => (n - (k + 1) - 1) * b + b = (n - k - 1) * b
<1>. DEFINE j == n - k - 1
<1>1. j \in Nat /\ n = j + 1 + k  OBVIOUS
<1>2. /\ j * b \in Nat /\ (j + 1) * b = j * b + b /\ n * b \in Nat
  BY <1>1, Multiples
<1>3. j * b + b <= n * b
  BY <1>1, NextMultiple
<1>4. ASSUME k = 0 PROVE j * b + b = n * b
  <2>1. n = j + 1  BY <1>1, <1>4
  <2>. QED  BY <1>2, <2>1
<1>5. ASSUME k + 1 < n PROVE (n - (k + 1) - 1) * b + b = j * b
  <2>. DEFINE i == n - (k + 1) - 1
  <2>1. i \in Nat /\ j = i + 1  BY <1>1, <1>5
  <2>. HIDE DEF i, j
  <2>2. (i + 1) * b = i * b + b  BY <2>1, Multiples
  <2>. QED  BY <2>1, <2>2 DEF i
<1>. QED  BY <1>2, <1>3, <1>4, <1>5

LEMMA PollsStep == AtaInv /\ PollsInv /\ [Next]_vars => PollsInv'
<1>. SUFFICES ASSUME PollsInv, [Next]_vars PROVE PollsInv'  OBVIOUS
<1>0. MaxPolls \in Nat \ {0} /\ polls \in 0 .. MaxPolls - 1
  BY AtaAssumptions DEF PollsInv
<1>1. CASE polls' = 0 \/ polls' = polls \/ (polls + 1 < MaxPolls /\ polls' = polls + 1)
  BY <1>0, <1>1 DEF PollsInv
<1>2. CASE UNCHANGED vars  BY <1>1, <1>2 DEF vars, driver
<1>3. CASE DriveAnswers  BY <1>1, <1>3 DEF DriveAnswers, driver
<1>4. CASE ata_init \/ \E l \in Lbas, n \in Counts : ata_read_sectors(l, n)
  BY <1>1, <1>4 DEF ata_init, ata_read_sectors, Goto
<1>5. CASE _ata_wait_not_busy \/ CheckStatus \/ CheckAgain \/ _ata_wait_drq
  BY <1>1, <1>5
  DEF _ata_wait_not_busy, CheckStatus, CheckAgain, _ata_wait_drq, Poll, Goto, Return
<1>6. CASE SendCommand  BY <1>1, <1>6 DEF SendCommand, Goto
<1>7. CASE ReadWord
  <2>1. polls' = 0 \/ polls' = polls  BY <1>7 DEF ReadWord, Goto, Return
  <2>. QED  BY <1>1, <2>1
<1>. QED  BY <1>2, <1>3, <1>4, <1>5, <1>6, <1>7 DEF Next, Driver

\* The steps left at each place, with the products as atoms.
LEMMA StepsLeftIs ==
  ASSUME AtaInv, PollsInv, pc # "idle"
  PROVE  \E here, all \in Nat :
           /\ here = (count - s - 1) * Block /\ all = count * Block
           /\ here + Block <= all /\ (s = 0 => here + Block = all)
           /\ s + 1 < count => (count - (s + 1) - 1) * Block + Block = here
           /\ pc = "word" => StepsLeft = here + (SectorWords - w)
           /\ pc = "drq" => StepsLeft = here + SectorWords + (MaxPolls - polls)
           /\ pc = "again" => StepsLeft = all + 1
           /\ pc = "command" => StepsLeft = all + 2
           /\ pc = "status" => StepsLeft = all + 3
           /\ pc = "ready" => StepsLeft = all + 3 + (MaxPolls - polls)
<1>1. /\ s \in Nat /\ count \in Nat /\ s < count
  BY DEF AtaInv, TypeInv, PlaceInv
<1>2. Block \in Nat  BY AtaAssumptions DEF Block
<1>. DEFINE here == (count - s - 1) * Block
            all == count * Block
<1>3. /\ here \in Nat /\ all \in Nat /\ here + Block <= all
      /\ s = 0 => here + Block = all
      /\ s + 1 < count => (count - (s + 1) - 1) * Block + Block = here
  BY <1>1, <1>2, SectorsLeft
<1>4. /\ pc = "word" => StepsLeft = here + (SectorWords - w)
      /\ pc = "drq" => StepsLeft = here + SectorWords + (MaxPolls - polls)
      /\ pc = "again" => StepsLeft = all + 1
      /\ pc = "command" => StepsLeft = all + 2
      /\ pc = "status" => StepsLeft = all + 3
      /\ pc = "ready" => StepsLeft = all + 3 + (MaxPolls - polls)
  BY DEF StepsLeft
<1>. HIDE DEF here, all
<1>. QED  BY <1>3, <1>4 DEF here, all

LEMMA StepsStep ==
  ASSUME AtaInv, PollsInv, Next, pc # "idle"
  PROVE  /\ StepsLeft \in 1 .. MaxPolls + 3 + count * Block
         /\ \/ StepsLeft' \in 0 .. StepsLeft - 1
            \/ DriveAnswers /\ StepsLeft' = StepsLeft
<1>1. PICK here \in Nat, all \in Nat :
        /\ here = (count - s - 1) * Block /\ all = count * Block
        /\ here + Block <= all /\ (s = 0 => here + Block = all)
        /\ s + 1 < count => (count - (s + 1) - 1) * Block + Block = here
        /\ pc = "word" => StepsLeft = here + (SectorWords - w)
        /\ pc = "drq" => StepsLeft = here + SectorWords + (MaxPolls - polls)
        /\ pc = "again" => StepsLeft = all + 1
        /\ pc = "command" => StepsLeft = all + 2
        /\ pc = "status" => StepsLeft = all + 3
        /\ pc = "ready" => StepsLeft = all + 3 + (MaxPolls - polls)
  BY StepsLeftIs
<1>2. /\ pc \in {"ready", "status", "command", "again", "drq", "word"}
      /\ w \in 0 .. SectorWords - 1 /\ polls \in 0 .. MaxPolls - 1
      /\ SectorWords \in Nat \ {0} /\ MaxPolls \in Nat \ {0}
      /\ Block = MaxPolls + SectorWords
      /\ pc \in {"ready", "status", "command", "again"} => s = 0
      /\ pc = "drq" => w = 0
  BY AtaAssumptions DEF AtaInv, TypeInv, PlaceInv, PollsInv, Block
<1>3. StepsLeft \in 1 .. MaxPolls + 3 + all
  <2>1. /\ MaxPolls - polls \in 1 .. MaxPolls /\ SectorWords - w \in 1 .. SectorWords
        /\ here + MaxPolls + SectorWords <= all
    BY <1>1, <1>2
  <2>. HIDE DEF StepsLeft
  <2>. QED  BY ONLY <1>1, <1>2, <2>1
<1>4. CASE DriveAnswers
  <2>1. UNCHANGED <<pc, count, s, w, polls>>  BY <1>4 DEF DriveAnswers, driver, args
  <2>2. StepsLeft' = StepsLeft  BY <2>1 DEF StepsLeft
  <2>. QED  BY <1>1, <1>3, <1>4, <2>2
\* What is left at the place a step goes to, in the numbers of the place it leaves.
<1>5. /\ pc' = "idle" => StepsLeft' = 0
      /\ UNCHANGED <<count, s>> =>
           /\ pc' = "word" => StepsLeft' = here + (SectorWords - w')
           /\ pc' = "drq" => StepsLeft' = here + SectorWords + (MaxPolls - polls')
           /\ pc' = "again" => StepsLeft' = all + 1
           /\ pc' = "command" => StepsLeft' = all + 2
           /\ pc' = "status" => StepsLeft' = all + 3
           /\ pc' = "ready" => StepsLeft' = all + 3 + (MaxPolls - polls')
  <2>1. pc' = "idle" => StepsLeft' = 0  BY DEF StepsLeft
  <2>2. ASSUME UNCHANGED <<count, s>>
        PROVE  /\ pc' = "word" => StepsLeft' = here + (SectorWords - w')
               /\ pc' = "drq" => StepsLeft' = here + SectorWords + (MaxPolls - polls')
               /\ pc' = "again" => StepsLeft' = all + 1
               /\ pc' = "command" => StepsLeft' = all + 2
               /\ pc' = "status" => StepsLeft' = all + 3
               /\ pc' = "ready" => StepsLeft' = all + 3 + (MaxPolls - polls')
    <3>1. /\ (count' - s' - 1) * Block = here /\ count' * Block = all  BY <1>1, <2>2
    <3>. QED  BY <3>1 DEF StepsLeft, Block
  <2>. QED  BY <2>1, <2>2
<1>6. pc' = "idle" => StepsLeft' \in 0 .. StepsLeft - 1
  BY <1>3, <1>5, <1>1
\* Waiting goes on, gives up or uses up a poll.
<1>7. ASSUME _ata_wait_not_busy \/ CheckStatus \/ CheckAgain \/ _ata_wait_drq \/ SendCommand
      PROVE  StepsLeft' \in 0 .. StepsLeft - 1
  <2>1. UNCHANGED <<count, s, w>>
    BY <1>7
    DEF _ata_wait_not_busy, CheckStatus, CheckAgain, _ata_wait_drq, SendCommand, args
  <2>2. \/ pc' = "idle"
        \/ /\ pc \in {"ready", "drq"} /\ pc' = pc
           /\ polls + 1 < MaxPolls /\ polls' = polls + 1
        \/ /\ polls' = 0
           /\ \/ pc = "ready" /\ pc' \in {"status", "command"}
              \/ pc = "status" /\ pc' = "command"
              \/ pc = "command" /\ pc' \in {"again", "drq"}
              \/ pc = "again" /\ pc' = "drq"
              \/ pc = "drq" /\ pc' = "word"
    BY <1>7
    DEF _ata_wait_not_busy, CheckStatus, CheckAgain, _ata_wait_drq, SendCommand, Poll, Goto,
        Return
  <2>3. /\ w' = w
        /\ pc' = "word" => StepsLeft' = here + (SectorWords - w')
        /\ pc' = "drq" => StepsLeft' = here + SectorWords + (MaxPolls - polls')
        /\ pc' = "again" => StepsLeft' = all + 1
        /\ pc' = "command" => StepsLeft' = all + 2
        /\ pc' = "status" => StepsLeft' = all + 3
        /\ pc' = "ready" => StepsLeft' = all + 3 + (MaxPolls - polls')
    BY <1>5, <2>1
  <2>. DEFINE L == StepsLeft
              M == StepsLeft'
  <2>4. /\ pc = "word" => L = here + (SectorWords - w)
        /\ pc = "drq" => L = here + SectorWords + (MaxPolls - polls)
        /\ pc = "again" => L = all + 1
        /\ pc = "command" => L = all + 2
        /\ pc = "status" => L = all + 3
        /\ pc = "ready" => L = all + 3 + (MaxPolls - polls)
        /\ here \in Nat /\ all \in Nat /\ (s = 0 => here + MaxPolls + SectorWords = all)
    BY <1>1, <1>2
  <2>5. /\ pc' = "word" => M = here + (SectorWords - w)
        /\ pc' = "drq" => M = here + SectorWords + (MaxPolls - polls')
        /\ pc' = "again" => M = all + 1
        /\ pc' = "command" => M = all + 2
        /\ pc' = "status" => M = all + 3
        /\ pc' = "ready" => M = all + 3 + (MaxPolls - polls')
        /\ pc' = "idle" => M \in 0 .. L - 1
    BY <1>6, <2>3
  <2>. HIDE DEF L, M
  <2>6. M \in 0 .. L - 1
    BY ONLY <1>2, <2>2, <2>4, <2>5
  <2>. QED  BY <2>6 DEF L, M
\* A word is one step, and the last of a sector that is not the last makes room for the
\* next sector's polls and words.
<1>8. ASSUME ReadWord PROVE StepsLeft' \in 0 .. StepsLeft - 1
  <2>1. pc = "word" /\ count' = count /\ StepsLeft = here + (SectorWords - w)
    BY <1>1, <1>8 DEF ReadWord, args
  <2>2. \/ pc' = "idle"
        \/ pc' = "word" /\ s' = s /\ w + 1 < SectorWords /\ w' = w + 1
        \/ pc' = "drq" /\ polls' = 0 /\ s' = s + 1 /\ s + 1 < count
    <3>1. w + 1 < SectorWords \/ w + 1 = SectorWords  BY <1>2
    <3>2. s \in Nat /\ count \in Nat  BY DEF AtaInv, TypeInv
    <3>3. CASE w + 1 < SectorWords
      <4>1. w + 1 # SectorWords  BY <1>2, <3>3
      <4>2. pc' = pc /\ s' = s /\ w' = w + 1  BY <1>8, <3>3, <4>1 DEF ReadWord
      <4>. QED  BY <2>1, <3>3, <4>2
    <3>4. CASE w + 1 = SectorWords /\ ~ LastSector
      <4>1. ~ w + 1 < SectorWords  BY <1>2, <3>4
      <4>2. pc' = "drq" /\ polls' = 0 /\ s' = s + 1  BY <1>8, <3>4, <4>1 DEF ReadWord, Goto
      <4>. QED  BY <3>2, <3>4, <4>2 DEF LastSector
    <3>5. CASE w + 1 = SectorWords /\ LastSector
      <4>1. ~ w + 1 < SectorWords  BY <1>2, <3>5
      <4>. QED  BY <1>8, <3>5, <4>1 DEF ReadWord, Return
    <3>. QED  BY <3>1, <3>3, <3>4, <3>5
  <2>3. CASE pc' = "idle"  BY <1>6, <2>3
  <2>4. CASE pc' = "word" /\ s' = s /\ w + 1 < SectorWords /\ w' = w + 1
    <3>1. StepsLeft' = here + (SectorWords - (w + 1))  BY <1>5, <2>1, <2>4
    <3>. QED  BY <1>1, <1>2, <2>1, <2>4, <3>1
  <2>5. CASE pc' = "drq" /\ polls' = 0 /\ s' = s + 1 /\ s + 1 < count
    <3>. DEFINE next == (count - (s + 1) - 1) * Block
    <3>1. StepsLeft' = next + SectorWords + (MaxPolls - 0)
      BY <2>1, <2>5 DEF StepsLeft, Block
    <3>2. next + Block = here  BY <1>1, <2>5
    <3>3. next \in Int
      BY <1>2, <3>2 DEF AtaInv, TypeInv
    <3>. HIDE DEF next
    <3>4. StepsLeft' = here  BY ONLY <1>2, <3>1, <3>2, <3>3
    <3>. QED  BY <1>1, <1>2, <2>1, <3>4
  <2>. QED  BY <2>2, <2>3, <2>4, <2>5
<1>9. DriveAnswers \/ Driver
  BY DEF Next, ata_init, ata_read_sectors, Call
<1>. QED  BY <1>1, <1>3, <1>4, <1>7, <1>8, <1>9 DEF Driver

\* A call of the driver is over after a number of its own steps that the arguments bound:
\* neither a drive that is late, nor one that is not there, keeps it longer.
THEOREM CallsAreBounded == Spec => [][StepCounts]_vars
PROOF
<1>1. Init => PollsInv  BY AtaAssumptions DEF Init, PollsInv
<1>2. AtaInv /\ PollsInv /\ [Next]_vars => [StepCounts]_vars
  <2>. SUFFICES ASSUME AtaInv, PollsInv, Next PROVE StepCounts  OBVIOUS
  <2>. QED  BY StepsStep DEF StepCounts
<1>. QED  BY <1>1, <1>2, PollsStep, AtaInvariant, PTL DEF Spec
==============================================================================
