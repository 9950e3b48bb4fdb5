------------------------------- MODULE KeyPort -------------------------------
(***************************************************************************)
(* The keyboard controller's data port and everyone who reads it: the      *)
(* IRQ 1 handler (kernel/ps2kbd.h), wz_wait_key (kernel/wizard.h) and the  *)
(* shell's loop (kernel/shell.h).  The two loops poll the status port; the *)
(* handler runs whenever interrupts are on, between any two of their port  *)
(* accesses too.                                                           *)
(*                                                                         *)
(* Interrupts are on from ps2kbd_init until the first ring-3 task ends:    *)
(* exit and fault leave the interrupt gate by longjmp, which does not set  *)
(* IF again, and only entering the next task does.                         *)
(***************************************************************************)
EXTENDS Integers, Sequences

CONSTANTS
    Keys,               \* keys in use, a subset of DOMAIN Codes
    Screens,            \* wizard screens that wait for Enter
    Capacity,           \* characters the ring buffer holds
    MaxBytes            \* bound on the bytes the keyboard sends

\* Scan code set 1: the bytes of a key's make code.
Codes == [enter |-> <<28>>, a |-> <<30>>, lshift |-> <<42>>, rshift |-> <<54>>,
          up |-> <<224, 72>>]
E0 == 224
SC_ENTER == 28
Shifts == {42, 54}
Released(byte) == IF byte = E0 THEN E0 ELSE byte + 128

ASSUME PortAssumptions ==
    /\ Keys \subseteq DOMAIN Codes
    /\ Screens \in Nat \ {0} /\ Capacity \in Nat /\ MaxBytes \in Nat

VARIABLES
    held,               \* keys that are down
    fifo,               \* bytes on their way to the port
    obf, data,          \* output buffer full, and the byte last put there
    irr,                \* IRQ 1 requested
    ifl,                \* interrupts on
    kbd_shift,          \* the handler's _kbd_shift
    chars,              \* the ring buffer, as the queue it implements
    who,                \* what has the CPU: a polling loop, a task or nothing
    screen,             \* Enter presses the wizard still waits for
    again,              \* the wizard was started from the shell
    ppc,                \* where the polling loop is
    shift,              \* the shell's sh.shift
    num,                \* history: number of the byte in data
    seen                \* history: number of the byte a loop read last

device == <<held, fifo, obf, data, irr, num>>
driver == <<kbd_shift, chars>>
loop == <<who, screen, again, ppc, shift>>
portVars == <<device, driver, loop, ifl, seen>>

Polling == who \in {"wizard", "shell"}

\* ps2kbd_init has run and the wizard starts.  (In CI mode neither loop runs.)
PortInit ==
    /\ held = {} /\ fifo = <<>> /\ obf = FALSE /\ data = 0 /\ irr = FALSE
    /\ ifl = TRUE
    /\ kbd_shift = FALSE /\ chars = <<>>
    /\ who = "wizard" /\ screen = Screens /\ again = FALSE
    /\ ppc = "status" /\ shift = FALSE
    /\ num = 0 /\ seen = 0

------------------------------------------------------------------------------
(***************************************************************************)
(* Keyboard, controller and interrupt controller                           *)
(***************************************************************************)
Sends(bytes) ==
    /\ num + Len(fifo) + Len(bytes) <= MaxBytes
    /\ fifo' = fifo \o bytes

Press(key) ==
    /\ key \notin held
    /\ held' = held \cup {key}
    /\ Sends(Codes[key])
    /\ UNCHANGED <<obf, data, irr, num, driver, loop, ifl, seen>>

Release(key) ==
    /\ key \in held
    /\ held' = held \ {key}
    /\ Sends([i \in DOMAIN Codes[key] |-> Released(Codes[key][i])])
    /\ UNCHANGED <<obf, data, irr, num, driver, loop, ifl, seen>>

\* The controller puts the next byte into an empty output buffer and raises IRQ 1.
Transfer ==
    /\ fifo # <<>> /\ ~ obf
    /\ obf' = TRUE /\ data' = Head(fifo) /\ fifo' = Tail(fifo)
    /\ irr' = TRUE
    /\ num' = num + 1
    /\ UNCHANGED <<held, driver, loop, ifl, seen>>

------------------------------------------------------------------------------
(***************************************************************************)
(* The IRQ 1 handler                                                       *)
(***************************************************************************)
Mapped(sc) == sc \in {28, 30, 72}               \* of _kbd_map_lo, _kbd_map_hi
Char(sc, shifted) == <<sc, shifted /\ sc = 30>> \* Enter and keypad 8 have one form

Pushed(ch) == IF Len(chars) < Capacity THEN Append(chars, ch) ELSE chars

\* It reads the port whether or not a loop has emptied it since the request.
ps2kbd_irq_handler ==
    /\ ifl /\ irr
    /\ irr' = FALSE
    /\ obf' = FALSE
    /\ kbd_shift' = CASE data \in Shifts -> TRUE
                      [] data - 128 \in Shifts -> FALSE
                      [] OTHER -> kbd_shift
    /\ chars' = IF Mapped(data) THEN Pushed(Char(data, kbd_shift)) ELSE chars
    /\ UNCHANGED <<held, fifo, data, num, loop, ifl, seen>>

------------------------------------------------------------------------------
(***************************************************************************)
(* The polling loops                                                       *)
(***************************************************************************)

\* inb(0x64): go on to the data port when the output buffer is full.
PollBlind ==                                    \* mutant: the status is not looked at
    /\ Polling
    /\ \/ ppc = "status" /\ ppc' = "data"
       \/ ppc = "status2" /\ ppc' = "data2"
    /\ UNCHANGED <<device, driver, who, screen, again, shift, ifl, seen>>

PollStatus ==
    /\ Polling
    /\ \/ ppc = "status" /\ ppc' = IF obf THEN "data" ELSE "status"
       \/ ppc = "status2" /\ ppc' = IF obf THEN "data2" ELSE "status2"
    /\ UNCHANGED <<device, driver, who, screen, again, shift, ifl, seen>>

\* inb(0x60).  A request the loop has served may stay latched or not.
TakeByte ==
    /\ obf' = FALSE
    /\ irr' \in {irr, FALSE}
    /\ seen' = num
    /\ UNCHANGED <<held, fifo, data, num, driver, ifl, who, screen, again>>

\* wz_wait_key returns make codes; the screens act on Enter.
WizardReads ==
    /\ who = "wizard" /\ ppc = "data"
    /\ TakeByte
    /\ ppc' = IF data = SC_ENTER THEN "enter" ELSE "status"
    /\ UNCHANGED shift

\* The shell keeps its own shift state and takes the byte after a prefix with it.
ShellReadsAnyPrefix ==                          \* mutant: a release is a prefix too
    /\ who = "shell" /\ ppc = "data"
    /\ TakeByte
    /\ ppc' = CASE data >= 128 -> "status2"
                [] data = SC_ENTER -> "enter"
                [] OTHER -> "status"
    /\ shift' = CASE data \in Shifts -> TRUE
                  [] data - 128 \in Shifts -> FALSE
                  [] OTHER -> shift

ShellReads ==
    /\ who = "shell" /\ ppc = "data"
    /\ TakeByte
    /\ ppc' = CASE data = E0 -> "status2"
                [] data = SC_ENTER -> "enter"
                [] OTHER -> "status"
    /\ shift' = CASE data \in Shifts -> TRUE
                  [] data - 128 \in Shifts -> FALSE
                  [] OTHER -> shift

ShellReadsSecond ==
    /\ who = "shell" /\ ppc = "data2"
    /\ TakeByte
    /\ ppc' = "status"
    /\ UNCHANGED shift

\* Enter ends a wizard screen; the last one goes on with the boot self-tests, with
\* the shell when there is no initrd, or back to the shell that started it.
WizardEnter ==
    /\ who = "wizard" /\ ppc = "enter"
    /\ ppc' = "status"
    /\ IF screen > 1
         THEN screen' = screen - 1 /\ UNCHANGED <<who, again>>
         ELSE /\ screen' = Screens
              /\ who' \in IF again THEN {"shell"} ELSE {"task", "shell"}
              /\ again' = FALSE
    /\ UNCHANGED <<device, driver, shift, ifl, seen>>

\* sh_eval: run enters ring 3 with interrupts on, setup runs the wizard, reboot
\* never comes back, any other command comes straight back.
ShellEnter ==
    /\ who = "shell" /\ ppc = "enter"
    /\ ppc' = "status"
    /\ \/ who' = "task" /\ ifl' = TRUE /\ UNCHANGED again
       \/ who' = "wizard" /\ again' = TRUE /\ UNCHANGED ifl
       \/ who' = "off" /\ UNCHANGED <<again, ifl>>
       \/ UNCHANGED <<who, again, ifl>>
    /\ UNCHANGED <<device, driver, screen, shift, seen>>

\* A task ends: back in the kernel, interrupts off.
TaskEnds ==
    /\ who = "task"
    /\ who' = "shell" /\ ifl' = FALSE
    /\ UNCHANGED <<device, driver, screen, again, ppc, shift, seen>>

Poller ==
    \/ PollStatus \/ WizardReads \/ ShellReads \/ ShellReadsSecond
    \/ WizardEnter \/ ShellEnter

PortNext ==
    \/ \E key \in Keys : Press(key) \/ Release(key)
    \/ Transfer \/ ps2kbd_irq_handler \/ Poller \/ TaskEnds

PortSpec == PortInit /\ [][PortNext]_portVars

\* The loops poll for ever, the controller passes bytes on, and a request is served
\* while interrupts are on.  Nothing is assumed of the user and the tasks.
FairPortSpec ==
    /\ PortSpec
    /\ WF_portVars(Poller) /\ WF_portVars(Transfer) /\ WF_portVars(ps2kbd_irq_handler)

------------------------------------------------------------------------------
\* A loop that has seen the buffer full reads a byte it has not read before, even
\* when the handler has emptied the port in between: a key is never taken twice.
PollerReadsNew == Polling /\ ppc \in {"data", "data2"} => num > seen

EnterComing == (\E i \in 1 .. Len(fifo) : fifo[i] = SC_ENTER) \/ (obf /\ data = SC_ENTER)

\* With interrupts off, as the shell and a wizard started from it run after a task
\* has ended, an Enter on its way reaches the loop; no prefix swallows it.
EnterReachesLoop == (Polling /\ ~ ifl /\ EnterComing) ~> (ppc = "enter")

(***************************************************************************)
(* What the comments say and the code does not do                          *)
(***************************************************************************)

\* wizard.h:10 "press Enter to begin": an Enter pressed on a wizard screen is seen
\* by it.
WizardSeesEnter == (who = "wizard" /\ EnterComing) ~> (ppc = "enter")
==============================================================================
