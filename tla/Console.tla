------------------------------- MODULE Console --------------------------------
(***************************************************************************)
(* What the user types and what comes of it: the shell's line, history and *)
(* screen (kernel/shell.h) and the screens of the setup wizard             *)
(* (kernel/wizard.h), which the shell's "setup" starts again.  Bytes reach *)
(* whichever of the two is reading; how they may get lost on the way is    *)
(* KeyPort's subject.                                                      *)
(*                                                                         *)
(* The screen is the text between the prompt and the cursor with the row   *)
(* the cursor is in; what lies behind the cursor is blank.  Colours, the   *)
(* blinking cursor and the wizard's drawings are left out.  The wizard's   *)
(* names are known by their lengths.                                       *)
(***************************************************************************)
EXTENDS Integers, Sequences, FiniteSets, SequencesExt

CONSTANTS
    Bytes,              \* bytes the keyboard sends
    Plain, Shifted,     \* sc_ascii and sc_ascii_shift: characters of the keys below 58
    Commands,           \* what sh_eval compares with, but for "run"
    SH_CMD_MAX, SH_HIST_MAX, SH_COLS, SH_ROWS,
    PromptLen,          \* of "SAM> "
    WZ_NAME_MAX,        \* WZ_HOSTNAME_MAX and WZ_SSID_MAX
    DefaultLen,         \* of "samOS-1"
    MaxText             \* bound on the text behind a prompt

ASSUME ConsoleAssumptions ==
    /\ SH_CMD_MAX \in Nat /\ SH_HIST_MAX \in Nat /\ SH_ROWS \in Nat \ {0}
    /\ PromptLen \in 1 .. SH_COLS - 1
    /\ WZ_NAME_MAX \in Nat \ {0} /\ DefaultLen \in 1 .. WZ_NAME_MAX - 1

SC_BACK == 14
SC_TAB == 15
SC_ENTER == 28
SC_LSHIFT == 42
SC_RSHIFT == 54
SC_CAPS == 58
SC_UP == 72
SC_DOWN == 80
SC_E0 == 224

VARIABLES
    machine,            \* has a framebuffer, has a wireless adapter
    reader,             \* the shell, or the screen of the wizard that waits for a key
    again,              \* the wizard was started by "setup"
    cmd, shift, caps, prefix, hist, hist_idx,   \* the shell
    text, row,          \* on the screen
    exact,              \* history: see ShownIsLine
    hostname, ssid, wifi_skip,                  \* the wizard: lengths, and a flag
    page                \* lengths of the configuration page's hostname and ssid

shell == <<cmd, shift, caps, prefix, hist, hist_idx, text, row, exact>>
wizard == <<hostname, ssid, wifi_skip, page>>
vars == <<machine, reader, again, shell, wizard>>

Col == (PromptLen + Len(text)) % SH_COLS
Least(a, b) == IF a < b THEN a ELSE b

------------------------------------------------------------------------------
(***************************************************************************)
(* The wizard                                                              *)
(***************************************************************************)
FirstScreen == IF machine.fb THEN "welcome" ELSE "text_host"

\* sam_wizard_run starts with a cleared state and shows the first screen.
WizardStarts ==
    /\ reader' = FirstScreen
    /\ UNCHANGED <<hostname, ssid, wifi_skip>>

Welcome(b) ==
    /\ reader = "welcome" /\ b = SC_ENTER
    /\ reader' = "hostname"
    /\ hostname' = DefaultLen
    /\ UNCHANGED <<machine, again, shell, ssid, wifi_skip, page>>

\* A key with a character, in the wizard's tables: Tab has none.
WizardChar(b) == b < 58 /\ b \in DOMAIN Plain /\ b # SC_TAB
RoomFor(len) == len < WZ_NAME_MAX

HostnameKey(b) ==
    /\ reader = "hostname"
    /\ \/ b = SC_BACK /\ hostname > 0 /\ hostname' = hostname - 1
       \/ WizardChar(b) /\ RoomFor(hostname) /\ hostname' = hostname + 1
    /\ UNCHANGED <<machine, reader, again, shell, ssid, wifi_skip, page>>

\* Enter, and the start of wz_screen_wifi.
HostnameEnter(b) ==
    /\ reader = "hostname" /\ b = SC_ENTER
    /\ hostname' = IF hostname = 0 THEN DefaultLen ELSE hostname
    /\ ssid' = 0 /\ wifi_skip' = FALSE
    /\ reader' = IF machine.wireless THEN "ssid" ELSE "no_wifi"
    /\ UNCHANGED <<machine, again, shell, page>>

SsidKey(b) ==
    /\ reader = "ssid"
    /\ \/ b = SC_BACK /\ ssid > 0 /\ ssid' = ssid - 1
       \/ WizardChar(b) /\ RoomFor(ssid) /\ ssid' = ssid + 1
    /\ UNCHANGED <<machine, reader, again, shell, hostname, wifi_skip, page>>

TabKeepsSsid(b) ==                              \* mutant: what was typed stays
    /\ \/ reader = "ssid" /\ b = SC_ENTER /\ UNCHANGED <<ssid, wifi_skip>>
       \/ reader = "ssid" /\ b = SC_TAB /\ wifi_skip' = TRUE /\ UNCHANGED ssid
       \/ reader = "no_wifi" /\ b = SC_ENTER /\ wifi_skip' = TRUE /\ UNCHANGED ssid
    /\ reader' = "summary"
    /\ UNCHANGED <<machine, again, shell, hostname, page>>

\* Enter keeps the SSID, Tab skips; without an adapter there is only Enter.
WifiDone(b) ==
    /\ \/ reader = "ssid" /\ b = SC_ENTER /\ UNCHANGED <<ssid, wifi_skip>>
       \/ reader = "ssid" /\ b = SC_TAB /\ wifi_skip' = TRUE /\ ssid' = 0
       \/ reader = "no_wifi" /\ b = SC_ENTER /\ wifi_skip' = TRUE /\ UNCHANGED ssid
    /\ reader' = "summary"
    /\ UNCHANGED <<machine, again, shell, hostname, page>>

\* wz_write_config's strings: the page has room for one character less than the
\* wizard lets the user type.
Kept(len) == Least(len, WZ_NAME_MAX - 1)
wz_write_config == page' = [hostname |-> Kept(hostname), ssid |-> Kept(ssid)]

SummaryEnter(b) ==
    /\ reader = "summary" /\ b = SC_ENTER
    /\ wz_write_config
    /\ reader' = "done"
    /\ UNCHANGED <<machine, again, shell, hostname, ssid, wifi_skip>>

\* The two screens without a framebuffer.
TextHostEnter(b) ==
    /\ reader = "text_host" /\ b = SC_ENTER
    /\ hostname' = DefaultLen
    /\ wifi_skip' = ~ machine.wireless
    /\ reader' = "text_wifi"
    /\ UNCHANGED <<machine, again, shell, ssid, page>>

\* What the summary screen shows for the network.
SummaryWifi ==
    CASE ~ machine.wireless -> "No adapter"
      [] machine.wireless /\ (wifi_skip \/ ssid = 0) -> "Skipped"
      [] OTHER -> "ssid"

------------------------------------------------------------------------------
(***************************************************************************)
(* The screen                                                              *)
(***************************************************************************)
Down(r, n) == Least(r + n, SH_ROWS - 1)

\* sh_putchar of a character at the cursor: past the last column the cursor goes to
\* the next row.
Wraps(len) == (PromptLen + len) % SH_COLS = 0

sh_puts(s) ==
    /\ text' = text \o s
    /\ row' = Down(row, Cardinality({k \in 1 .. Len(s) : Wraps(Len(text) + k)}))

\* Newlines, and the prompt after them.
NewPrompt(r, newlines) ==
    /\ text' = <<>> /\ row' = Down(r, newlines + 1)
    /\ exact' = TRUE

\* The lines a command prints.
NewLines ==
    [help |-> 10, cpu |-> 5, mem |-> 5, mode |-> 3, res |-> 13, unknown |-> 2, empty |-> 0]
RunNewLines == {2, 3}                           \* usage; started and ended

\* sh_clear and the header lines of sam_shell_run and cmd_setup.
ShellStarts ==
    /\ reader' = "shell"
    /\ cmd' = <<>> /\ shift' = FALSE /\ caps' = FALSE /\ prefix' = FALSE
    /\ hist' = <<>> /\ hist_idx' = -1
    /\ NewPrompt(0, 4)

\* cmd_setup after the wizard, and what sam_shell_run does after sh_eval.
SetupReturns ==
    /\ reader' = "shell"
    /\ cmd' = <<>> /\ hist_idx' = -1
    /\ NewPrompt(0, 4)
    /\ UNCHANGED <<shift, caps, prefix, hist>>

\* The wizard's state is a local of sam_wizard_run.
LocalsGone == hostname' = 0 /\ ssid' = 0 /\ wifi_skip' = FALSE

\* The wizard's last Enter, with and without a framebuffer; the boot goes on to the
\* shell, "setup" goes back to it.
WizardReturns ==
    /\ IF again THEN SetupReturns ELSE ShellStarts
    /\ LocalsGone

DoneEnter(b) ==
    /\ reader = "done" /\ b = SC_ENTER
    /\ WizardReturns
    /\ UNCHANGED <<machine, again, page>>

TextWifiEnter(b) ==
    /\ reader = "text_wifi" /\ b = SC_ENTER
    /\ wz_write_config
    /\ WizardReturns
    /\ UNCHANGED <<machine, again>>

------------------------------------------------------------------------------
(***************************************************************************)
(* The shell                                                               *)
(***************************************************************************)
AtShell == reader = "shell" /\ ~ prefix

Prefix(b) ==
    /\ AtShell /\ b = SC_E0
    /\ prefix' = TRUE
    /\ UNCHANGED <<machine, reader, again, cmd, shift, caps, hist, hist_idx, text, row, exact,
                   wizard>>

\* The line becomes l and is drawn where the cursor is; what was drawn before stays.
Recall(idx, l) ==
    /\ Len(text) + Len(l) <= MaxText
    /\ hist_idx' = idx
    /\ cmd' = l
    /\ sh_puts(l)
    /\ exact' = FALSE

Older == hist_idx < Len(hist) - 1
Entry(idx) == hist[Len(hist) - idx]

Arrow(b) ==
    /\ reader = "shell" /\ prefix
    /\ prefix' = FALSE
    /\ \/ b = SC_UP /\ Older /\ Recall(hist_idx + 1, Entry(hist_idx + 1))
       \/ b = SC_DOWN /\ hist_idx > 0 /\ Recall(hist_idx - 1, Entry(hist_idx - 1))
       \/ b = SC_DOWN /\ hist_idx = 0 /\ Recall(-1, <<>>)
       \/ /\ b \notin {SC_UP, SC_DOWN} \/ (b = SC_UP /\ ~ Older) \/ (b = SC_DOWN /\ hist_idx = -1)
          /\ UNCHANGED <<cmd, hist_idx, text, row, exact>>
    /\ UNCHANGED <<machine, reader, again, shift, caps, hist, wizard>>

Modifier(b) ==
    /\ AtShell
    /\ \/ b \in {SC_LSHIFT, SC_RSHIFT} /\ shift' = TRUE /\ UNCHANGED caps
       \/ b - 128 \in {SC_LSHIFT, SC_RSHIFT} /\ shift' = FALSE /\ UNCHANGED caps
       \/ b = SC_CAPS /\ caps' = ~ caps /\ UNCHANGED shift
    /\ UNCHANGED <<machine, reader, again, cmd, prefix, hist, hist_idx, text, row, exact, wizard>>

BackspaceLineOnly(b) ==                         \* mutant: the cursor stays
    /\ AtShell /\ b = SC_BACK /\ cmd # <<>>
    /\ cmd' = Front(cmd)
    /\ UNCHANGED <<text, exact>>
    /\ UNCHANGED <<machine, reader, again, shift, caps, prefix, hist, hist_idx, row, wizard>>

\* In the first column the cursor stays: the character on the row above is not erased.
Backspace(b) ==
    /\ AtShell /\ b = SC_BACK /\ cmd # <<>>
    /\ cmd' = Front(cmd)
    /\ IF Col > 0 THEN text' = Front(text) /\ UNCHANGED exact
                  ELSE exact' = FALSE /\ UNCHANGED text
    /\ UNCHANGED <<machine, reader, again, shift, caps, prefix, hist, hist_idx, row, wizard>>

\* Caps Lock changes a letter and, without Shift, changes it back.
Upper(c) == IF c = "s" THEN "S" ELSE c
Lower(c) == IF c = "S" THEN "s" ELSE c
Char(b) ==
    LET c == IF shift THEN Shifted[b] ELSE Plain[b]
        d == IF caps THEN Upper(c) ELSE c
    IN  IF caps /\ ~ shift THEN Lower(d) ELSE d

LineRoomOver == Len(cmd) <= SH_CMD_MAX          \* mutant: no room for the terminator

LineRoom == Len(cmd) < SH_CMD_MAX

Key(b) ==
    /\ AtShell /\ b \in DOMAIN Plain
    /\ LineRoom
    /\ Len(text) < MaxText
    /\ cmd' = Append(cmd, Char(b))
    /\ sh_puts(<<Char(b)>>)
    /\ UNCHANGED <<machine, reader, again, shift, caps, prefix, hist, hist_idx, exact, wizard>>

\* sh_eval: leading blanks are skipped; "run" stands alone or before a blank.
Trimmed == SelectInSeq(cmd, LAMBDA c : c # " ")
Word == IF Trimmed = 0 THEN <<>> ELSE SubSeq(cmd, Trimmed, Len(cmd))
IsRun == Word # <<>> /\ Word[1] = "S" /\ (Len(Word) = 1 \/ Word[2] = " ")
Kind ==
    IF IsRun THEN "run"
    ELSE IF Word = <<>> THEN "empty"
    ELSE IF Word \in DOMAIN Commands THEN Commands[Word] ELSE "unknown"

\* The history keeps the first commands and drops those that come when it is full.
Saved == IF Len(hist) < SH_HIST_MAX THEN Append(hist, cmd) ELSE hist

NextLine == cmd' = <<>> /\ hist_idx' = -1

\* Enter on a command that prints and returns.
EnterPrints(b) ==
    /\ AtShell /\ b = SC_ENTER
    /\ Kind \in DOMAIN NewLines \cup {"run"}
    /\ hist' = IF Kind = "empty" THEN hist ELSE Saved
    /\ \E n \in IF Kind = "run" THEN RunNewLines ELSE {NewLines[Kind]} : NewPrompt(row, n + 1)
    /\ NextLine
    /\ UNCHANGED <<machine, reader, again, shift, caps, prefix, wizard>>

EnterClear(b) ==
    /\ AtShell /\ b = SC_ENTER /\ Kind = "clear"
    /\ NewPrompt(0, 0)
    /\ NextLine
    /\ UNCHANGED <<machine, reader, again, shift, caps, prefix, hist, wizard>>

EnterSetup(b) ==
    /\ AtShell /\ b = SC_ENTER /\ Kind = "setup"
    /\ again' = TRUE
    /\ WizardStarts
    /\ UNCHANGED <<machine, shell, page>>

EnterReboot(b) ==
    /\ AtShell /\ b = SC_ENTER /\ Kind = "reboot"
    /\ reader' = "off"
    /\ UNCHANGED <<machine, again, shell, wizard>>

------------------------------------------------------------------------------
\* The first wizard has just started; the page holds what was there at power-on.
Init ==
    /\ machine \in [fb : BOOLEAN, wireless : BOOLEAN]
    /\ reader = FirstScreen /\ again = FALSE
    /\ cmd = <<>> /\ shift = FALSE /\ caps = FALSE /\ prefix = FALSE
    /\ hist = <<>> /\ hist_idx = -1
    /\ text = <<>> /\ row = 0 /\ exact = TRUE
    /\ hostname = 0 /\ ssid = 0 /\ wifi_skip = FALSE
    /\ page = [hostname |-> 0, ssid |-> 0]

Wizard(b) ==
    \/ Welcome(b) \/ HostnameKey(b) \/ HostnameEnter(b) \/ SsidKey(b) \/ WifiDone(b)
    \/ SummaryEnter(b) \/ DoneEnter(b) \/ TextHostEnter(b) \/ TextWifiEnter(b)

Shell(b) ==
    \/ Prefix(b) \/ Arrow(b) \/ Modifier(b) \/ Backspace(b) \/ Key(b)
    \/ EnterPrints(b) \/ EnterClear(b) \/ EnterSetup(b) \/ EnterReboot(b)

Next == \E b \in Bytes : Wizard(b) \/ Shell(b)

Spec == Init /\ [][Next]_vars

------------------------------------------------------------------------------
Screens == {"welcome", "hostname", "ssid", "no_wifi", "summary", "done", "text_host", "text_wifi"}

\* The types; a line and its terminator fit the buffer, the history index is an entry
\* or -1, and the cursor is on the screen.
TypeOK ==
    /\ reader \in Screens \cup {"shell", "off"} /\ again \in BOOLEAN
    /\ Len(cmd) <= SH_CMD_MAX
    /\ shift \in BOOLEAN /\ caps \in BOOLEAN /\ prefix \in BOOLEAN /\ exact \in BOOLEAN
    /\ Len(hist) <= SH_HIST_MAX /\ hist_idx \in -1 .. Len(hist) - 1
    /\ \A k \in DOMAIN hist : hist[k] # <<>> /\ Len(hist[k]) <= SH_CMD_MAX
    /\ row \in 0 .. SH_ROWS - 1
    /\ hostname \in 0 .. WZ_NAME_MAX /\ ssid \in 0 .. WZ_NAME_MAX /\ wifi_skip \in BOOLEAN
    /\ page \in [hostname : 0 .. WZ_NAME_MAX - 1, ssid : 0 .. WZ_NAME_MAX - 1]

\* What Enter would run is what the screen shows behind the prompt, through every
\* sequence of keys, commands and wizards - but for the two ways they do part: a line
\* recalled by an arrow key is drawn behind the old one, and Backspace does not go
\* back over the end of a row.
ShownIsLine == reader = "shell" /\ exact => text = cmd

\* When the wizard has saved, the page has the name that was shown (cut by one
\* character at most), and an SSID exactly when the summary showed one: not that of an
\* earlier wizard, nor one that was typed and skipped.  Once the first wizard is through
\* the page always has a name, also without a framebuffer and while the wizard runs again.
PageIsSummary ==
    /\ reader = "done" =>
          /\ hostname - page.hostname \in {0, 1}
          /\ hostname < WZ_NAME_MAX => page.hostname = hostname
          /\ (page.ssid > 0) = (SummaryWifi = "ssid")
    /\ (reader \in {"done", "shell"} \/ again) => page.hostname > 0

==============================================================================
