---------------------------- MODULE ConsoleProofs -----------------------------
(***************************************************************************)
(* The shell's line, history and screen stay in their buffers and the      *)
(* shown line is the typed one; the saved page is what the wizard's        *)
(* summary showed: for every keyboard table, screen and buffer size.       *)
(***************************************************************************)
EXTENDS Console, FiniteSetTheorems, SequenceTheorems, TLAPS

------------------------------------------------------------------------------
(***************************************************************************)
(* Lines and rows                                                          *)
(***************************************************************************)
CharSet == {Plain[b] : b \in DOMAIN Plain} \cup {Shifted[b] : b \in DOMAIN Plain} \cup {"s", "S"}
Lines == Seq(CharSet)

LEMMA CharType == ASSUME NEW b \in DOMAIN Plain PROVE Char(b) \in CharSet
<1>1. \A c \in CharSet : Upper(c) \in CharSet /\ Lower(c) \in CharSet
  BY DEF Upper, Lower, CharSet
<1>2. Plain[b] \in CharSet /\ Shifted[b] \in CharSet  BY DEF CharSet
<1>. QED  BY <1>1, <1>2 DEF Char

LEMMA FrontFacts ==
  ASSUME NEW s \in Lines, s # <<>>
  PROVE  Front(s) \in Lines /\ Len(Front(s)) = Len(s) - 1
<1>. DEFINE n == Len(s) - 1
<1>1. s \in Seq(CharSet) /\ n \in 0 .. Len(s)
  BY DEF Lines
<1>2. Front(s) = SubSeq(s, 1, n)  BY DEF Front
<1>. HIDE DEF n
<1>3. SubSeq(s, 1, n) \in Seq(CharSet) /\ Len(SubSeq(s, 1, n)) = n
  BY <1>1
<1>. QED  BY <1>2, <1>3 DEF n, Lines

\* The cursor never leaves the last row.
LEMMA DownType ==
  ASSUME NEW r \in 0 .. SH_ROWS - 1, NEW n \in Nat
  PROVE  Down(r, n) \in 0 .. SH_ROWS - 1
BY ConsoleAssumptions DEF Down, Least

LEMMA WrapsCount ==
  ASSUME NEW s \in Lines, NEW from
  PROVE  Cardinality({k \in 1 .. Len(s) : Wraps(from + k)}) \in Nat
<1>1. Len(s) \in Nat  BY DEF Lines
<1>2. IsFiniteSet(1 .. Len(s))  BY <1>1, FS_Interval
<1>3. {k \in 1 .. Len(s) : Wraps(from + k)} \subseteq 1 .. Len(s)  OBVIOUS
<1>4. IsFiniteSet({k \in 1 .. Len(s) : Wraps(from + k)})  BY <1>2, <1>3, FS_Subset
<1>. QED  BY <1>4, FS_CardinalityType

LEMMA PutsFacts ==
  ASSUME text \in Lines, row \in 0 .. SH_ROWS - 1, NEW s \in Lines, sh_puts(s)
  PROVE  text' \in Lines /\ Len(text') = Len(text) + Len(s) /\ row' \in 0 .. SH_ROWS - 1
<1>1. text' = text \o s /\ row' \in 0 .. SH_ROWS - 1
  BY WrapsCount, DownType DEF sh_puts
<1>. QED  BY <1>1 DEF Lines

\* A blank line is not a command, and is not saved.
LEMMA EmptyLine == cmd = <<>> => Kind = "empty"
<1>. SUFFICES ASSUME cmd = <<>> PROVE Kind = "empty"  OBVIOUS
<1>1. 1 .. Len(cmd) = {}  OBVIOUS
<1>2. Trimmed = 0  BY <1>1 DEF Trimmed, SelectInSeq
<1>. QED  BY <1>2 DEF Kind, IsRun, Word

------------------------------------------------------------------------------
(***************************************************************************)
(* The shell's part of the invariant                                       *)
(***************************************************************************)
LineInv ==
    /\ cmd \in Lines /\ Len(cmd) <= SH_CMD_MAX
    /\ text \in Lines /\ Len(cmd) <= Len(text)
    /\ row \in 0 .. SH_ROWS - 1
    /\ exact => text = cmd

HistInv ==
    /\ hist \in Seq(Lines) /\ Len(hist) <= SH_HIST_MAX
    /\ hist_idx \in -1 .. Len(hist) - 1
    /\ \A k \in 1 .. Len(hist) : hist[k] # <<>> /\ Len(hist[k]) <= SH_CMD_MAX

FlagInv ==
    /\ shift \in BOOLEAN /\ caps \in BOOLEAN /\ prefix \in BOOLEAN
    /\ exact \in BOOLEAN /\ again \in BOOLEAN

lines == <<cmd, text, row, exact>>
history == <<hist, hist_idx>>

LEMMA LinesKept == LineInv /\ UNCHANGED lines => LineInv'
BY DEF LineInv, lines

LEMMA HistKept == HistInv /\ UNCHANGED history => HistInv'
BY DEF HistInv, history

\* A prompt on an empty line.
LEMMA PromptFacts ==
  ASSUME NEW r \in 0 .. SH_ROWS - 1, NEW n \in Nat, NewPrompt(r, n), cmd' = <<>>
  PROVE  LineInv'
<1>1. row' \in 0 .. SH_ROWS - 1
  <2>1. n + 1 \in Nat  OBVIOUS
  <2>. QED  BY <2>1, DownType DEF NewPrompt
<1>2. text' = <<>> /\ cmd' = <<>>  BY DEF NewPrompt
<1>3. <<>> \in Lines /\ Len(<<>>) = 0  BY DEF Lines
<1>4. 0 <= SH_CMD_MAX  BY ConsoleAssumptions
<1>. QED  BY <1>1, <1>2, <1>3, <1>4 DEF LineInv

LEMMA TopRow == 0 \in 0 .. SH_ROWS - 1
BY ConsoleAssumptions

LEMMA ReturnLines == LineInv /\ HistInv /\ WizardReturns => LineInv' /\ HistInv'
<1>. SUFFICES ASSUME LineInv, HistInv, WizardReturns PROVE LineInv' /\ HistInv'  OBVIOUS
<1>1. cmd' = <<>> /\ NewPrompt(0, 4) /\ hist_idx' = -1 /\ hist' \in {hist, <<>>}
  BY DEF WizardReturns, SetupReturns, ShellStarts
<1>2. LineInv'  BY <1>1, TopRow, PromptFacts
<1>3. HistInv'
  <2>1. CASE hist' = hist  BY <1>1, <2>1 DEF HistInv
  <2>2. CASE hist' = <<>>  BY <1>1, <2>2, ConsoleAssumptions DEF HistInv
  <2>. QED  BY <1>1, <2>1, <2>2
<1>. QED  BY <1>2, <1>3

\* A recalled line is an entry of the history, drawn behind the text.
LEMMA RecallStep ==
  ASSUME LineInv, HistInv, NEW idx \in -1 .. Len(hist) - 1, NEW l \in Lines,
         Len(l) <= SH_CMD_MAX, Recall(idx, l), hist' = hist
  PROVE  LineInv' /\ HistInv'
<1>1. cmd' = l /\ hist_idx' = idx /\ sh_puts(l) /\ exact' = FALSE
  BY DEF Recall
<1>2. text' \in Lines /\ Len(text') = Len(text) + Len(l) /\ row' \in 0 .. SH_ROWS - 1
  BY <1>1, PutsFacts DEF LineInv
<1>3. Len(l) <= Len(text')
  BY <1>2 DEF LineInv, Lines
<1>. QED  BY <1>1, <1>2, <1>3 DEF LineInv, HistInv

LEMMA ArrowLines ==
  ASSUME LineInv, HistInv, NEW b, Arrow(b)
  PROVE  LineInv' /\ HistInv'
<1>1. hist' = hist  BY DEF Arrow
<1>2. /\ hist \in Seq(Lines) /\ Len(hist) \in Nat
      /\ hist_idx \in -1 .. Len(hist) - 1
      /\ \A k \in 1 .. Len(hist) : hist[k] \in Lines /\ Len(hist[k]) <= SH_CMD_MAX
  BY DEF HistInv
<1>3. \A i \in 0 .. Len(hist) - 1 : Entry(i) \in Lines /\ Len(Entry(i)) <= SH_CMD_MAX
  BY <1>2 DEF Entry
<1>4. CASE Older /\ Recall(hist_idx + 1, Entry(hist_idx + 1))
  <2>1. hist_idx + 1 \in 0 .. Len(hist) - 1  BY <1>2, <1>4 DEF Older
  <2>2. hist_idx + 1 \in -1 .. Len(hist) - 1  BY <1>2, <2>1
  <2>. QED  BY <1>1, <1>3, <1>4, <2>1, <2>2, RecallStep
<1>5. CASE hist_idx > 0 /\ Recall(hist_idx - 1, Entry(hist_idx - 1))
  <2>1. hist_idx - 1 \in 0 .. Len(hist) - 1  BY <1>2, <1>5
  <2>2. hist_idx - 1 \in -1 .. Len(hist) - 1  BY <1>2, <2>1
  <2>. QED  BY <1>1, <1>3, <1>5, <2>1, <2>2, RecallStep
<1>6. CASE Recall(-1, <<>>)
  <2>1. <<>> \in Lines /\ Len(<<>>) <= SH_CMD_MAX  BY ConsoleAssumptions DEF Lines
  <2>2. -1 \in -1 .. Len(hist) - 1  BY <1>2
  <2>. QED  BY <1>1, <1>6, <2>1, <2>2, RecallStep
<1>7. CASE UNCHANGED <<cmd, hist_idx, text, row, exact>>
  BY <1>1, <1>7, LinesKept, HistKept DEF lines, history
<1>. QED  BY <1>4, <1>5, <1>6, <1>7 DEF Arrow

\* Backspace takes the last character off the line, and off the screen or not at all.
LEMMA BackspaceLines ==
  ASSUME LineInv, HistInv, NEW b, Backspace(b)
  PROVE  LineInv' /\ HistInv'
<1>1. cmd # <<>> /\ cmd' = Front(cmd) /\ UNCHANGED <<row, hist, hist_idx>>
  BY DEF Backspace
<1>2. /\ cmd' \in Lines /\ Len(cmd') = Len(cmd) - 1 /\ Len(cmd) \in Nat \ {0}
      /\ Len(text) \in Nat /\ SH_CMD_MAX \in Nat
  <2>1. cmd' \in Lines /\ Len(cmd') = Len(cmd) - 1  BY <1>1, FrontFacts DEF LineInv
  <2>. QED  BY <1>1, <2>1, ConsoleAssumptions DEF LineInv, Lines
<1>3. CASE text' = Front(text) /\ exact' = exact
  <2>1. text # <<>>  BY <1>2 DEF LineInv
  <2>2. text' \in Lines /\ Len(text') = Len(text) - 1  BY <1>3, <2>1, FrontFacts DEF LineInv
  <2>3. exact => text' = cmd'  BY <1>1, <1>3 DEF LineInv
  <2>. QED  BY <1>1, <1>2, <1>3, <2>2, <2>3, HistKept DEF LineInv, history
<1>4. CASE text' = text /\ exact' = FALSE
  BY <1>1, <1>2, <1>4, HistKept DEF LineInv, history
<1>. QED  BY <1>3, <1>4 DEF Backspace

\* A character goes to the end of the line and of the screen's text.
LEMMA KeyLines ==
  ASSUME LineInv, HistInv, NEW b, Key(b)
  PROVE  LineInv' /\ HistInv'
<1>. DEFINE c == Char(b)
<1>1. /\ b \in DOMAIN Plain /\ Len(cmd) < SH_CMD_MAX
      /\ cmd' = Append(cmd, c) /\ sh_puts(<<c>>) /\ UNCHANGED <<hist, hist_idx, exact>>
  BY DEF Key, LineRoom
<1>2. c \in CharSet  BY <1>1, CharType
<1>. HIDE DEF c
<1>3. <<c>> \in Lines /\ Len(<<c>>) = 1  BY <1>2 DEF Lines
<1>4. text' \in Lines /\ Len(text') = Len(text) + 1 /\ row' \in 0 .. SH_ROWS - 1
  BY <1>1, <1>3, PutsFacts DEF LineInv
<1>5. cmd' \in Lines /\ Len(cmd') = Len(cmd) + 1
  BY <1>1, <1>2 DEF LineInv, Lines
<1>6. text' = text \o <<c>>  BY <1>1 DEF sh_puts
<1>7. exact => text' = cmd'
  <2>1. cmd \in Seq(CharSet)  BY DEF LineInv, Lines
  <2>2. Append(cmd, c) = cmd \o <<c>>  BY <1>2, <2>1, AppendIsConcat
  <2>. QED  BY <1>1, <1>6, <2>2 DEF LineInv
<1>8. Len(cmd) \in Nat /\ Len(text) \in Nat /\ SH_CMD_MAX \in Nat
  BY ConsoleAssumptions DEF LineInv, Lines
<1>. QED  BY <1>1, <1>4, <1>5, <1>7, <1>8, HistKept DEF LineInv, history

\* Enter leaves an empty line; the history takes the line if there is room.
LEMMA EnterLines ==
  ASSUME LineInv, HistInv, NEW b, EnterPrints(b) \/ EnterClear(b)
  PROVE  LineInv' /\ HistInv'
<1>1. cmd' = <<>> /\ hist_idx' = -1  BY DEF EnterPrints, EnterClear, NextLine
<1>2. LineInv'
  <2>1. CASE EnterClear(b)
    <3>1. 0 \in Nat  OBVIOUS
    <3>. QED  BY <1>1, <2>1, <3>1, TopRow, PromptFacts DEF EnterClear
  <2>2. CASE EnterPrints(b)
    <3>1. PICK n \in IF Kind = "run" THEN RunNewLines ELSE {NewLines[Kind]} :
             NewPrompt(row, n + 1)
      BY <2>2 DEF EnterPrints
    <3>2. \A k \in DOMAIN NewLines : NewLines[k] \in Nat  BY DEF NewLines
    <3>3. n \in Nat
      <4>1. CASE Kind = "run"  BY <3>1, <4>1 DEF RunNewLines
      <4>2. CASE Kind # "run"
        <5>1. Kind \in DOMAIN NewLines  BY <2>2, <4>2 DEF EnterPrints
        <5>. QED  BY <3>1, <3>2, <4>2, <5>1
      <4>. QED  BY <4>1, <4>2
    <3>4. n + 1 \in Nat  BY <3>3
    <3>. QED  BY <1>1, <3>1, <3>4, PromptFacts DEF LineInv
  <2>. QED  BY <2>1, <2>2
<1>3. hist' = hist \/ (Kind # "empty" /\ hist' = Saved)
  BY DEF EnterPrints, EnterClear
<1>4. HistInv'
  <2>1. CASE hist' = hist  BY <1>1, <2>1 DEF HistInv
  <2>2. CASE Kind # "empty" /\ hist' = Append(hist, cmd) /\ Len(hist) < SH_HIST_MAX
    <3>1. cmd # <<>> /\ cmd \in Lines /\ Len(cmd) <= SH_CMD_MAX
      BY <2>2, EmptyLine DEF LineInv
    <3>2. hist \in Seq(Lines)  BY DEF HistInv
    <3>3. /\ hist' \in Seq(Lines) /\ Len(hist') = Len(hist) + 1
          /\ \A k \in 1 .. Len(hist) : hist'[k] = hist[k]
          /\ hist'[Len(hist) + 1] = cmd
      BY <2>2, <3>1, <3>2, AppendProperties
    <3>4. Len(hist) \in Nat /\ SH_HIST_MAX \in Nat  BY <3>2, ConsoleAssumptions
    <3>. QED  BY <1>1, <2>2, <3>1, <3>3, <3>4 DEF HistInv
  <2>. QED  BY <1>3, <2>1, <2>2 DEF Saved
<1>. QED  BY <1>2, <1>4

LEMMA WizardLines ==
  ASSUME LineInv, HistInv, NEW b, Wizard(b)
  PROVE  LineInv' /\ HistInv'
<1>1. CASE WizardReturns  BY <1>1, ReturnLines
<1>2. CASE UNCHANGED shell
  BY <1>2, LinesKept, HistKept DEF shell, lines, history
<1>. QED
  BY <1>1, <1>2
  DEF Wizard, Welcome, HostnameKey, HostnameEnter, SsidKey, WifiDone, SummaryEnter,
      DoneEnter, TextHostEnter, TextWifiEnter

LEMMA ShellLines ==
  ASSUME LineInv, HistInv, NEW b, Shell(b)
  PROVE  LineInv' /\ HistInv'
<1>1. CASE Arrow(b)  BY <1>1, ArrowLines
<1>2. CASE Backspace(b)  BY <1>2, BackspaceLines
<1>3. CASE Key(b)  BY <1>3, KeyLines
<1>4. CASE EnterPrints(b) \/ EnterClear(b)  BY <1>4, EnterLines
<1>5. CASE Prefix(b) \/ Modifier(b) \/ EnterSetup(b) \/ EnterReboot(b)
  <2>1. UNCHANGED lines /\ UNCHANGED history
    BY <1>5 DEF Prefix, Modifier, EnterSetup, EnterReboot, shell, lines, history
  <2>. QED  BY <2>1, LinesKept, HistKept
<1>. QED  BY <1>1, <1>2, <1>3, <1>4, <1>5 DEF Shell

LEMMA LinesHold == Spec => [](LineInv /\ HistInv)
<1>1. Init => LineInv /\ HistInv
  <2>. SUFFICES ASSUME Init PROVE LineInv /\ HistInv  OBVIOUS
  <2>1. <<>> \in Lines /\ Len(<<>>) = 0  BY DEF Lines
  <2>. QED  BY <2>1, TopRow, ConsoleAssumptions DEF Init, LineInv, HistInv
<1>2. LineInv /\ HistInv /\ [Next]_vars => (LineInv /\ HistInv)'
  <2>. SUFFICES ASSUME LineInv, HistInv, [Next]_vars PROVE LineInv' /\ HistInv'  OBVIOUS
  <2>1. CASE UNCHANGED vars
    BY <2>1, LinesKept, HistKept DEF vars, shell, lines, history
  <2>. QED  BY <2>1, WizardLines, ShellLines DEF Next
<1>. QED  BY <1>1, <1>2, PTL DEF Spec

\* As long as no arrow key and no Backspace over a row's end came between, the text
\* behind the prompt is the line that Enter would run, through every sequence of keys,
\* commands and wizards.
THEOREM LineIsShown == Spec => []ShownIsLine
PROOF
<1>1. LineInv => ShownIsLine  BY DEF LineInv, ShownIsLine
<1>. QED  BY <1>1, LinesHold, PTL

------------------------------------------------------------------------------
(***************************************************************************)
(* Flags                                                                   *)
(***************************************************************************)
LEMMA FlagsKept == FlagInv /\ UNCHANGED <<shift, caps, prefix, exact, again>> => FlagInv'
BY DEF FlagInv

LEMMA WizardFlags ==
  ASSUME FlagInv, NEW b, Wizard(b)
  PROVE  FlagInv'
<1>1. again' = again
  BY DEF Wizard, Welcome, HostnameKey, HostnameEnter, SsidKey, WifiDone, SummaryEnter,
         DoneEnter, TextHostEnter, TextWifiEnter
<1>2. CASE WizardReturns
  <2>1. CASE SetupReturns
    <3>1. UNCHANGED <<shift, caps, prefix>> /\ exact' = TRUE
      BY <2>1 DEF SetupReturns, NewPrompt
    <3>. QED  BY <1>1, <3>1 DEF FlagInv
  <2>2. CASE ShellStarts
    <3>1. shift' = FALSE /\ caps' = FALSE /\ prefix' = FALSE /\ exact' = TRUE
      BY <2>2 DEF ShellStarts, NewPrompt
    <3>. QED  BY <1>1, <3>1 DEF FlagInv
  <2>. QED  BY <1>2, <2>1, <2>2 DEF WizardReturns
<1>3. CASE UNCHANGED shell
  BY <1>1, <1>3, FlagsKept DEF shell
<1>. QED
  BY <1>2, <1>3
  DEF Wizard, Welcome, HostnameKey, HostnameEnter, SsidKey, WifiDone, SummaryEnter,
      DoneEnter, TextHostEnter, TextWifiEnter

LEMMA ShellFlags ==
  ASSUME FlagInv, NEW b, Shell(b)
  PROVE  FlagInv'
<1>1. shift' \in {shift, TRUE, FALSE} /\ caps' \in {caps, ~ caps}
  BY DEF Shell, Prefix, Arrow, Modifier, Backspace, Key, EnterPrints, EnterClear,
         EnterSetup, EnterReboot, shell
<1>2. prefix' \in {prefix, TRUE, FALSE}
  BY DEF Shell, Prefix, Arrow, Modifier, Backspace, Key, EnterPrints, EnterClear,
         EnterSetup, EnterReboot, shell
<1>3. exact' \in {exact, TRUE, FALSE}
  BY DEF Shell, Prefix, Arrow, Modifier, Backspace, Key, EnterPrints, EnterClear,
         EnterSetup, EnterReboot, shell, Recall, NewPrompt
<1>4. again' \in {again, TRUE}
  BY DEF Shell, Prefix, Arrow, Modifier, Backspace, Key, EnterPrints, EnterClear,
         EnterSetup, EnterReboot, shell
<1>. QED  BY <1>1, <1>2, <1>3, <1>4 DEF FlagInv

LEMMA FlagsHold == Spec => []FlagInv
<1>1. Init => FlagInv  BY DEF Init, FlagInv
<1>2. FlagInv /\ [Next]_vars => FlagInv'
  <2>. SUFFICES ASSUME FlagInv, [Next]_vars PROVE FlagInv'  OBVIOUS
  <2>1. CASE UNCHANGED vars  BY <2>1, FlagsKept DEF vars, shell
  <2>. QED  BY <2>1, WizardFlags, ShellFlags DEF Next
<1>. QED  BY <1>1, <1>2, PTL DEF Spec

------------------------------------------------------------------------------
(***************************************************************************)
(* The wizard's part: what each screen relies on from the screens before   *)
(***************************************************************************)
Names == 0 .. WZ_NAME_MAX
Page == [hostname : 0 .. WZ_NAME_MAX - 1, ssid : 0 .. WZ_NAME_MAX - 1]

WizardType ==
    /\ machine \in [fb : BOOLEAN, wireless : BOOLEAN]
    /\ reader \in Screens \cup {"shell", "off"}
    /\ hostname \in Names /\ ssid \in Names /\ wifi_skip \in BOOLEAN
    /\ page \in Page

\* Past the screen for it there is a name, and an SSID without an adapter or after Tab
\* is none.
ScreenInv ==
    /\ reader \in {"ssid", "no_wifi", "summary", "done", "text_wifi"} => hostname > 0
    /\ reader = "ssid" => machine.wireless /\ ~ wifi_skip
    /\ reader = "no_wifi" => ssid = 0 /\ ~ machine.wireless
    /\ reader \in {"summary", "done"} /\ (wifi_skip \/ ~ machine.wireless) => ssid = 0

PageInv ==
    /\ reader = "done" => page = [hostname |-> Kept(hostname), ssid |-> Kept(ssid)]
    /\ (reader \in {"done", "shell"} \/ again) => page.hostname > 0

WizardInv == WizardType /\ ScreenInv /\ PageInv

LEMMA KeptFacts ==
  ASSUME NEW len \in Names
  PROVE  /\ Kept(len) \in 0 .. WZ_NAME_MAX - 1
         /\ len - Kept(len) \in {0, 1}
         /\ len < WZ_NAME_MAX => Kept(len) = len
         /\ Kept(len) > 0 <=> len > 0
<1>1. WZ_NAME_MAX \in Nat /\ WZ_NAME_MAX >= 2  BY ConsoleAssumptions
<1>. QED  BY <1>1 DEF Kept, Least, Names

LEMMA DefaultName == DefaultLen \in Names /\ DefaultLen > 0
BY ConsoleAssumptions DEF Names

LEMMA FirstScreenType == FirstScreen \in {"welcome", "text_host"}
BY DEF FirstScreen

\* Names grow and shrink by a character within their buffers.
LEMMA NameKey ==
  ASSUME NEW len \in Names, NEW new,
         (len > 0 /\ new = len - 1) \/ (RoomFor(len) /\ new = len + 1)
  PROVE  new \in Names
BY ConsoleAssumptions DEF Names, RoomFor

LEMMA WizardScreens ==
  ASSUME WizardInv, FlagInv, NEW b, Wizard(b)
  PROVE  WizardInv'
<1>. USE DEF WizardInv, WizardType, ScreenInv, PageInv, Screens
<1>1. CASE Welcome(b)
  BY <1>1, DefaultName DEF Welcome
<1>2. CASE HostnameKey(b)
  <2>1. hostname' \in Names  BY <1>2, NameKey DEF HostnameKey
  <2>. QED  BY <1>2, <2>1 DEF HostnameKey
<1>3. CASE HostnameEnter(b)
  <2>1. hostname' \in Names /\ hostname' > 0
    BY <1>3, DefaultName DEF HostnameEnter, Names
  <2>2. 0 \in Names  BY ConsoleAssumptions DEF Names
  <2>. QED  BY <1>3, <2>1, <2>2 DEF HostnameEnter
<1>4. CASE SsidKey(b)
  <2>1. ssid' \in Names  BY <1>4, NameKey DEF SsidKey
  <2>. QED  BY <1>4, <2>1 DEF SsidKey
<1>5. CASE WifiDone(b)
  <2>1. /\ reader \in {"ssid", "no_wifi"} /\ reader' = "summary"
        /\ UNCHANGED <<machine, again, hostname, page>>
    BY <1>5 DEF WifiDone
  <2>2. \/ reader = "ssid" /\ ssid' = ssid /\ wifi_skip' = wifi_skip
        \/ ssid' = 0 /\ wifi_skip' = TRUE
    BY <1>5 DEF WifiDone
  <2>3. 0 \in Names  BY ConsoleAssumptions DEF Names
  <2>4. ssid' \in Names /\ wifi_skip' \in BOOLEAN
    BY <2>2, <2>3
  <2>5. wifi_skip' \/ ~ machine.wireless => ssid' = 0
    BY <2>2
  <2>. QED  BY <2>1, <2>4, <2>5
<1>6. CASE SummaryEnter(b)
  <2>1. page' \in Page /\ page'.hostname > 0
    <3>1. Kept(hostname) \in 0 .. WZ_NAME_MAX - 1 /\ Kept(ssid) \in 0 .. WZ_NAME_MAX - 1
          /\ Kept(hostname) > 0
      BY <1>6, KeptFacts DEF SummaryEnter
    <3>. QED  BY <1>6, <3>1 DEF SummaryEnter, wz_write_config, Page
  <2>2. page' = [hostname |-> Kept(hostname'), ssid |-> Kept(ssid')]
    BY <1>6 DEF SummaryEnter, wz_write_config
  <2>. QED  BY <1>6, <2>1, <2>2 DEF SummaryEnter
<1>7. CASE TextHostEnter(b)
  <2>1. (~ machine.wireless) \in BOOLEAN  OBVIOUS
  <2>. QED  BY <1>7, <2>1, DefaultName DEF TextHostEnter
<1>8. CASE DoneEnter(b) \/ TextWifiEnter(b)
  <2>1. /\ reader' = "shell" /\ hostname' = 0 /\ ssid' = 0 /\ wifi_skip' = FALSE
        /\ machine' = machine
    BY <1>8 DEF DoneEnter, TextWifiEnter, WizardReturns, SetupReturns, ShellStarts, LocalsGone
  <2>2. page' \in Page /\ page'.hostname > 0
    <3>1. CASE DoneEnter(b)  BY <3>1 DEF DoneEnter
    <3>2. CASE TextWifiEnter(b)
      <4>1. Kept(hostname) \in 0 .. WZ_NAME_MAX - 1 /\ Kept(ssid) \in 0 .. WZ_NAME_MAX - 1
            /\ Kept(hostname) > 0
        BY <3>2, KeptFacts DEF TextWifiEnter
      <4>. QED  BY <3>2, <4>1 DEF TextWifiEnter, wz_write_config, Page
    <3>. QED  BY <1>8, <3>1, <3>2
  <2>3. 0 \in Names  BY ConsoleAssumptions DEF Names
  <2>. QED  BY <2>1, <2>2, <2>3
<1>. QED  BY <1>1, <1>2, <1>3, <1>4, <1>5, <1>6, <1>7, <1>8 DEF Wizard

\* At the shell the page is left alone; "setup" starts the wizard without clearing it.
LEMMA ShellScreens ==
  ASSUME WizardInv, NEW b, Shell(b)
  PROVE  WizardInv'
<1>1. /\ UNCHANGED <<machine, hostname, ssid, wifi_skip, page>> /\ reader = "shell"
      /\ \/ reader' = reader /\ again' = again
         \/ reader' = FirstScreen
         \/ reader' = "off" /\ again' = again
  BY DEF Shell, Prefix, Arrow, Modifier, Backspace, Key, EnterPrints, EnterClear,
         EnterSetup, EnterReboot, wizard, WizardStarts, AtShell
<1>. QED
  BY <1>1, FirstScreenType DEF WizardInv, WizardType, ScreenInv, PageInv, Screens

LEMMA WizardHolds == Spec => []WizardInv
<1>1. Init => WizardInv
  <2>. SUFFICES ASSUME Init PROVE WizardInv  OBVIOUS
  <2>1. 0 \in Names /\ [hostname |-> 0, ssid |-> 0] \in Page
    BY ConsoleAssumptions DEF Names, Page
  <2>. QED
    BY <2>1, FirstScreenType DEF Init, WizardInv, WizardType, ScreenInv, PageInv, Screens
<1>2. FlagInv /\ WizardInv /\ [Next]_vars => WizardInv'
  <2>. SUFFICES ASSUME FlagInv, WizardInv, [Next]_vars PROVE WizardInv'  OBVIOUS
  <2>1. CASE UNCHANGED vars
    BY <2>1 DEF vars, wizard, WizardInv, WizardType, ScreenInv, PageInv
  <2>. QED  BY <2>1, WizardScreens, ShellScreens DEF Next
<1>. QED  BY <1>1, <1>2, FlagsHold, PTL DEF Spec

\* Lines, entries of the history and names fit their buffers with their terminators, and
\* the cursor stays on the screen, for every size of them.
THEOREM ConsoleTypes == Spec => []TypeOK
PROOF
<1>1. LineInv /\ HistInv /\ FlagInv /\ WizardInv => TypeOK
  <2>. SUFFICES ASSUME LineInv, HistInv, FlagInv, WizardInv PROVE TypeOK  OBVIOUS
  <2>1. DOMAIN hist = 1 .. Len(hist)  BY DEF HistInv
  <2>. QED
    BY <2>1 DEF TypeOK, LineInv, HistInv, FlagInv, WizardInv, WizardType, Names, Page
<1>. QED  BY <1>1, LinesHold, FlagsHold, WizardHolds, PTL

\* The page keeps what the wizard's summary showed, cut by one character at most; and it
\* has a name from the first wizard on, also while "setup" runs the wizard again.
THEOREM PageShowsSummary == Spec => []PageIsSummary
PROOF
<1>1. WizardInv => PageIsSummary
  <2>. SUFFICES ASSUME WizardInv PROVE PageIsSummary  OBVIOUS
  <2>1. ASSUME reader = "done"
        PROVE  /\ hostname - page.hostname \in {0, 1}
               /\ hostname < WZ_NAME_MAX => page.hostname = hostname
               /\ (page.ssid > 0) = (SummaryWifi = "ssid")
    <3>1. /\ page.hostname = Kept(hostname) /\ page.ssid = Kept(ssid)
          /\ hostname \in Names /\ ssid \in Names
      BY <2>1 DEF WizardInv, WizardType, PageInv
    <3>2. /\ hostname - page.hostname \in {0, 1}
          /\ hostname < WZ_NAME_MAX => page.hostname = hostname
          /\ page.ssid > 0 <=> ssid > 0
      BY <3>1, KeptFacts
    <3>3. wifi_skip \/ ~ machine.wireless => ssid = 0
      BY <2>1 DEF WizardInv, ScreenInv
    <3>4. (ssid > 0) <=> (SummaryWifi = "ssid")
      <4>1. CASE ~ machine.wireless
        BY <3>3, <4>1 DEF SummaryWifi
      <4>2. CASE machine.wireless /\ (wifi_skip \/ ssid = 0)
        BY <3>3, <4>2 DEF SummaryWifi
      <4>3. CASE machine.wireless /\ ~ wifi_skip /\ ssid # 0
        <5>1. SummaryWifi = "ssid"  BY <4>3 DEF SummaryWifi
        <5>2. ssid > 0  BY <3>1, <4>3, ConsoleAssumptions DEF Names
        <5>. QED  BY <5>1, <5>2
      <4>. QED  BY <4>1, <4>2, <4>3
    <3>. QED  BY <3>2, <3>4
  <2>. QED  BY <2>1 DEF PageIsSummary, WizardInv, PageInv
<1>. QED  BY <1>1, WizardHolds, PTL
==============================================================================
