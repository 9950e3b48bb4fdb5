----------------------------- MODULE TaskService -----------------------------
(***************************************************************************)
(* What running a program promises its caller and the program, with no     *)
(* timer, no task table and no page tables in it: the program starts at    *)
(* its entry point, executes its instructions one after the other, ends    *)
(* once or takes the machine down, and the caller then learns how it       *)
(* ended.                                                                  *)
(***************************************************************************)
EXTENDS Integers

CONSTANTS
    Files,              \* names callers may ask for
    NoFile,             \* a value that is not a name
    Codes,              \* exit codes programs use
    MaxPos              \* bound on the instructions a program executes

VARIABLES
    phase,              \* where the run is
    prog,               \* the program's registers
    verdict,            \* how the program ended
    outcome             \* what the caller was told

vars == <<phase, prog, verdict, outcome>>

NoProgram == [entry |-> NoFile, sp |-> "none", pos |-> 0, rax |-> "none"]
Nothing == [how |-> "none", code |-> 0]
Verdicts == [how : {"exit"}, code : Codes] \cup {[how |-> "fault", code |-> 0]}

Init ==
    /\ phase = "idle"
    /\ prog = NoProgram
    /\ verdict = Nothing
    /\ outcome = Nothing

Start ==
    /\ phase = "idle" /\ phase' = "running"
    /\ \E f \in Files, sp \in {"top0", "argv0"} :
           prog' = [entry |-> f, sp |-> sp, pos |-> 0, rax |-> "none"]
    /\ outcome' = Nothing
    /\ UNCHANGED verdict

Refuse ==
    /\ phase = "idle"
    /\ outcome' = [how |-> "refused", code |-> 0]
    /\ UNCHANGED <<phase, prog, verdict>>

\* Another service starts: what the last run came to is not kept.
Forget ==
    /\ phase = "idle"
    /\ outcome' = Nothing
    /\ UNCHANGED <<phase, prog, verdict>>

\* One instruction; a system call leaves its result in rax.
Step ==
    /\ phase = "running"
    /\ prog.pos < MaxPos
    /\ \E rax \in {prog.rax, "ok", "error"} :
           prog' = [prog EXCEPT !.pos = @ + 1, !.rax = rax]
    /\ UNCHANGED <<phase, verdict, outcome>>

End ==
    /\ phase = "running" /\ phase' = "over"
    /\ verdict' \in Verdicts
    /\ prog' = NoProgram
    /\ UNCHANGED outcome

Halt ==
    /\ phase = "running" /\ phase' = "halted"
    /\ prog' = NoProgram
    /\ UNCHANGED <<verdict, outcome>>

Return ==
    /\ phase = "over" /\ phase' = "idle"
    /\ outcome' = verdict
    /\ verdict' = Nothing
    /\ UNCHANGED prog

Next == Start \/ Refuse \/ Forget \/ Step \/ End \/ Halt \/ Return

Spec == Init /\ [][Next]_vars
==============================================================================
