--------------------------------- MODULE Ata ----------------------------------
(***************************************************************************)
(* The ATA PIO driver, kernel/ata.h, against a drive that answers when it  *)
(* likes, reports errors, or is not there.  The driver polls the status    *)
(* register a bounded number of times; a drive that is late goes on with   *)
(* its command after the driver has given up.                              *)
(***************************************************************************)
EXTENDS Integers, Sequences

CONSTANTS
    Bus,                \* what may be on the channel: "drive", "float", "zero"
    Lbas, Counts,       \* arguments of ata_read_sectors
    LbaSize,            \* 2^28: sector numbers the registers can hold
    SectorWords,        \* 256 in the code
    MaxPolls            \* 1000000 in the code

ASSUME AtaAssumptions ==
    /\ Bus \subseteq {"drive", "float", "zero"}
    /\ Lbas \subseteq Nat /\ Counts \subseteq Nat
    /\ LbaSize \in Nat \ {0} /\ SectorWords \in Nat \ {0} /\ MaxPolls \in Nat \ {0}

VARIABLES
    bus,
    dstate,             \* the drive: idle, busy, data, error
    dsector,            \* the sector it works on; IDENTIFY's data is sector -1
    dleft,              \* sectors left of the command, this one included
    dword,              \* words of this sector the host has read
    pc, op, lba, count, \* the driver: its place, and the call with its arguments
    polls, s, w,        \* polls made, sector and word of the loops
    buf,                \* what has been stored through dst, or in ident
    result,             \* what the call returned, -1 before it does
    present             \* ata->present

drive == <<bus, dstate, dsector, dleft, dword>>
args == <<op, lba, count>>
driver == <<pc, args, polls, s, w, buf, result, present>>
vars == <<drive, driver>>

IDENT == -1
Word(sector, n) == <<sector, n>>
Junk == <<-2, 0>>                               \* read when the drive has no data

Init ==
    /\ bus \in Bus
    /\ dstate = "idle" /\ dsector = IDENT /\ dleft = 0 /\ dword = 0
    /\ pc = "idle" /\ op = "none" /\ lba = 0 /\ count = 0
    /\ polls = 0 /\ s = 0 /\ w = 0 /\ buf = <<>> /\ result = 1 /\ present = FALSE

------------------------------------------------------------------------------
(***************************************************************************)
(* The drive.  While it is busy its other status bits are clear; a command *)
(* makes it busy at once and takes the place of one it has not finished.   *)
(***************************************************************************)
Busy == bus = "float" \/ (bus = "drive" /\ dstate = "busy")
Drq == bus = "float" \/ (bus = "drive" /\ dstate = "data")
Err == bus = "float" \/ (bus = "drive" /\ dstate = "error")

DriveAnswers ==
    /\ bus = "drive" /\ dstate = "busy"
    /\ dstate' \in IF dleft = 0 THEN {"idle"} ELSE {"data", "error"}
    /\ UNCHANGED <<bus, dsector, dleft, dword, driver>>

Command(sector, n) ==
    /\ dstate' = "busy" /\ dsector' = sector /\ dleft' = n /\ dword' = 0
    /\ UNCHANGED bus

\* A read of the data register; after the last word of a sector the drive goes on to
\* the next one.
Take ==
    IF Drq /\ bus = "drive"
      THEN IF dword + 1 < SectorWords
             THEN dword' = dword + 1 /\ UNCHANGED <<bus, dstate, dsector, dleft>>
             ELSE /\ dword' = 0 /\ dleft' = dleft - 1 /\ dsector' = dsector + 1
                  /\ dstate' = IF dleft > 1 THEN "busy" ELSE "idle"
                  /\ UNCHANGED bus
      ELSE UNCHANGED drive

Data == IF Drq /\ bus = "drive" THEN Word(dsector, dword) ELSE Junk

------------------------------------------------------------------------------
(***************************************************************************)
(* The driver                                                              *)
(***************************************************************************)
Goto(place) == pc' = place /\ polls' = 0

Return(value) ==
    /\ pc' = "idle" /\ polls' = 0
    /\ result' = value
    /\ present' = (IF op = "init" THEN value = 1 ELSE present)

Call(o, l, n) ==
    /\ pc = "idle"
    /\ op' = o /\ lba' = l /\ count' = n
    /\ s' = 0 /\ w' = 0 /\ buf' = <<>>

\* Up to the first wait: reset and select the drive.
ata_init ==
    /\ Call("init", 0, 1)
    /\ Goto("ready")
    /\ result' = -1
    /\ present' = FALSE
    /\ IF bus = "drive" THEN Command(IDENT, 0) ELSE UNCHANGED drive

ata_read_sectors(l, n) ==
    /\ Call("read", l, n)
    /\ IF n = 0 THEN pc' = "idle" /\ result' = 1 ELSE pc' = "ready" /\ result' = -1
    /\ polls' = 0
    /\ UNCHANGED <<drive, present>>

\* One poll of a loop with a bound: go on, give up, or poll again.
Poll(done, next) ==
    \/ done /\ Goto(next) /\ UNCHANGED <<result, present>>
    \/ ~ done /\ polls + 1 = MaxPolls /\ Return(0)
    \/ ~ done /\ polls + 1 < MaxPolls /\ pc' = pc /\ polls' = polls + 1
       /\ UNCHANGED <<result, present>>

WaitForever ==                                  \* mutant: the polls are not counted
    /\ pc = "ready"
    /\ IF Busy THEN pc' = pc /\ polls' = polls /\ UNCHANGED <<result, present>>
               ELSE Poll(TRUE, IF op = "init" THEN "status" ELSE "command")
    /\ UNCHANGED <<drive, args, s, w, buf>>

_ata_wait_not_busy ==
    /\ pc = "ready"
    /\ Poll(~ Busy, IF op = "init" THEN "status" ELSE "command")
    /\ UNCHANGED <<drive, args, s, w, buf>>

\* ata_init takes a status of 0x00 or 0xFF for an empty channel.
CheckStatus ==
    /\ pc = "status"
    /\ IF bus \in {"zero", "float"} THEN Return(0)
                                    ELSE Goto("command") /\ UNCHANGED <<result, present>>
    /\ UNCHANGED <<drive, args, s, w, buf>>

Registers == lba % LbaSize

SendCommand ==
    /\ pc = "command"
    /\ IF bus = "drive"
         THEN IF op = "init" THEN Command(IDENT, 1) ELSE Command(Registers, count)
         ELSE UNCHANGED drive
    /\ Goto(IF op = "init" THEN "again" ELSE "drq")
    /\ UNCHANGED <<args, s, w, buf, result, present>>

\* ata_init's second look for an empty channel.
CheckAgain ==
    /\ pc = "again"
    /\ IF bus = "zero" THEN Return(0)
                       ELSE Goto("drq") /\ UNCHANGED <<result, present>>
    /\ UNCHANGED <<drive, args, s, w, buf>>

WaitDrqGoesOn ==                                \* mutant: a timeout is not an error
    /\ pc = "drq"
    /\ IF Err THEN Return(0)
              ELSE Poll(Drq \/ polls + 1 = MaxPolls, "word")
    /\ UNCHANGED <<drive, args, s, w, buf>>

_ata_wait_drq ==
    /\ pc = "drq"
    /\ IF Err THEN Return(0) ELSE Poll(Drq, "word")
    /\ UNCHANGED <<drive, args, s, w, buf>>

LastSectorEarly == s + 2 >= count               \* mutant: one sector short

LastSector == s + 1 >= count

ReadWord ==
    /\ pc = "word"
    /\ buf' = Append(buf, Data)
    /\ Take
    /\ CASE w + 1 < SectorWords ->
              /\ w' = w + 1
              /\ UNCHANGED <<pc, polls, s, result, present>>
         [] w + 1 = SectorWords /\ ~ LastSector ->
              /\ w' = 0 /\ s' = s + 1
              /\ Goto("drq")
              /\ UNCHANGED <<result, present>>
         [] OTHER -> w' = 0 /\ UNCHANGED s /\ Return(1)
    /\ UNCHANGED args

Driver ==
    \/ _ata_wait_not_busy \/ CheckStatus \/ SendCommand \/ CheckAgain
    \/ _ata_wait_drq \/ ReadWord

Next ==
    \/ DriveAnswers
    \/ ata_init
    \/ \E l \in Lbas, n \in Counts : ata_read_sectors(l, n)
    \/ Driver

Spec == Init /\ [][Next]_vars

\* The driver's own code does not stop.  Nothing is assumed of the drive.
FairSpec == Spec /\ WF_vars(Driver)

------------------------------------------------------------------------------
\* The words of n sectors from l on, as the drive holds them.
Sectors(l, n) ==
    [k \in 1 .. n * SectorWords |-> Word(l + (k - 1) \div SectorWords, (k - 1) % SectorWords)]

\* A read that returns 1 has stored exactly the sectors asked for, and one that fails
\* a part of them from the front: never words of an earlier command that the drive
\* answered late, and never words read while it had none.
ReadExact ==
    op = "read" /\ lba < LbaSize =>
        /\ buf = SubSeq(Sectors(lba, count), 1, Len(buf))
        /\ pc = "idle" /\ result = 1 => Len(buf) = count * SectorWords

\* The drive is reported present only when it is there and has answered this
\* IDENTIFY with all of its data.
PresentAnswered ==
    present => bus = "drive" /\ (op = "init" => buf = Sectors(IDENT, 1))

\* Every call returns, even when the drive never answers.
CallReturns == (pc # "idle") ~> (pc = "idle")
==============================================================================
