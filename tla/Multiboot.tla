------------------------------ MODULE Multiboot -------------------------------
(***************************************************************************)
(* The boot loader's tags as kernel/main.c and kernel/mcp.h walk them.     *)
(* Tags are a sequence; one of size zero ends a walk after it is read, as  *)
(* the next tag would be itself.  A tag has fields type and size, and by   *)
(* type: entries, width, or the words of a module's cmdline.               *)
(***************************************************************************)
EXTENDS Integers, SequencesExt

Tags ==
    [type : {"end", "other"}, size : Nat]
    \cup [type : {"mmap"}, size : Nat, entries : Seq([available : BOOLEAN, length : Nat])]
    \cup [type : {"fb"}, size : Nat, width : Nat]
    \cup [type : {"module"}, size : Nat, cmdline : Seq(STRING)]

\* The tags every walk looks at.
Walked(info) ==
    LET Stops(tag) == tag.type = "end" \/ tag.size = 0
        k == SelectInSeq(info, Stops)
    IN  SubSeq(info, 1, IF info[k].type = "end" THEN k - 1 ELSE k)

NoTag == [type |-> "none"]

FirstTag(info, Wanted(_)) ==
    LET k == SelectInSeq(Walked(info), Wanted)
    IN  IF k = 0 THEN NoTag ELSE Walked(info)[k]

\* kernel_main's searches: the GGUF model is the first module, the others are found by
\* the first letters of their command lines.
FirstModule(info) == FirstTag(info, LAMBDA t : t.type = "module")

FindModule(info, want) ==
    FirstTag(info, LAMBDA t : t.type = "module" /\ IsPrefix(want, t.cmdline))
==============================================================================
