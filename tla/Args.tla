--------------------------------- MODULE Args ---------------------------------
(***************************************************************************)
(* A program's arguments: the words of the shell's line (cmd_run,          *)
(* kernel/shell.h), the stack built from them (sam_build_args,             *)
(* kernel/main.c), and how a program reads it (user/echo.asm).  A number   *)
(* or a pointer takes PointerSize cells of memory: itself, then REST.      *)
(***************************************************************************)
EXTENDS Integers, SequencesExt

CONSTANTS
    MaxArgs,            \* 8 in the code
    PointerSize,        \* 8
    StackAlign          \* 16

ASSUME ArgsAssumptions == {MaxArgs, PointerSize, StackAlign} \subseteq Nat \ {0}

BLANK == 32             \* characters are their codes
NUL == 0
REST == -1

AtMost(s, n) == SubSeq(s, 1, IF Len(s) < n THEN Len(s) ELSE n)

\* One more character of the line.
Split(st, c) ==
    IF c = BLANK THEN [words |-> st.words, inside |-> FALSE]
    ELSE [words |-> IF st.inside THEN [st.words EXCEPT ![Len(st.words)] = Append(@, c)]
                    ELSE Append(st.words, <<c>>),
          inside |-> TRUE]

\* The words of the line; those after the eighth are not looked at.
cmd_run(line) ==
    LET n == Len(line)
        st[k \in 0 .. n] == IF k = 0 THEN [words |-> <<>>, inside |-> FALSE]
                            ELSE Split(st[k - 1], line[k])
    IN  AtMost(st[n].words, MaxArgs)

PutString(mem, a, s) ==
    [x \in DOMAIN mem |-> IF x \in a .. a + Len(s) - 1 THEN s[x - a + 1]
                          ELSE IF x = a + Len(s) THEN NUL ELSE mem[x]]

PutNumber(mem, a, n) ==
    [x \in DOMAIN mem |-> IF x = a THEN n
                          ELSE IF x \in a + 1 .. a + PointerSize - 1 THEN REST ELSE mem[x]]

PointersNoNull(p, argc) == p - PointerSize * argc   \* mutant: no room for the NULL

\* Where the array of pointers starts, under strings that end at p.
Pointers(p, argc) == p - PointerSize * (argc + 1)

\* Strings downwards from the top, the last one first; then, aligned, the pointers with
\* a NULL behind them, then their number.
sam_build_args(mem, stktop, argv) ==
    LET argc == Len(AtMost(argv, MaxArgs))
        ptr[i \in 1 .. argc + 1] == IF i > argc THEN stktop ELSE ptr[i + 1] - (Len(argv[i]) + 1)
        strings[i \in 1 .. argc + 1] ==
            IF i > argc THEN mem ELSE PutString(strings[i + 1], ptr[i], argv[i])
        av == Pointers((ptr[1] \div StackAlign) * StackAlign, argc)
        pointers[i \in 0 .. argc] ==
            IF i = 0 THEN strings[1]
            ELSE PutNumber(pointers[i - 1], av + PointerSize * (i - 1), ptr[i])
        rsp == av - PointerSize
    IN  IF argc = 0 THEN [rsp |-> stktop, mem |-> mem]
        ELSE [rsp |-> rsp,
              mem |-> PutNumber(PutNumber(pointers[argc], av + PointerSize * argc, NUL), rsp, argc)]

\* The bytes from a up to the first NUL.
StringAt(mem, a) ==
    LET ends == {x \in DOMAIN mem : x >= a /\ mem[x] = NUL}
        end == CHOOSE x \in ends : \A y \in ends : x <= y
    IN  [k \in 1 .. end - a |-> mem[a + k - 1]]

\* What the program finds: the number at rsp, the array above it.
Echo(st) ==
    [k \in 1 .. st.mem[st.rsp] |-> StringAt(st.mem, st.mem[st.rsp + PointerSize * k])]
==============================================================================
