----------------------------- MODULE SingleTask ------------------------------
(***************************************************************************)
(* sam_run_task implements TaskService: seen through the real registers,   *)
(* timer ticks, preemptions and the switches of page tables are stuttering *)
(* steps.  A pair of tasks is another service: while one runs, this one is *)
(* idle.  The mapping uses no history variable.                            *)
(***************************************************************************)
EXTENDS ResidentTasks

Single == call.kind = "task"

\* A program's registers without the ring they run in.
Registers(c) == [entry |-> c.entry, sp |-> c.sp, pos |-> c.pos, rax |-> c.rax]

\* The reason and the code as the caller reads them: the code counts only after an
\* exit.
Reported(reason) ==
    [how |-> CASE reason = TASK_END_EXIT -> "exit"
               [] reason = TASK_END_FAULT -> "fault"
               [] reason = -1 -> "refused"
               [] OTHER -> "none",
     code |-> IF reason = TASK_END_EXIT THEN g_exit_code ELSE 0]

phase ==
    CASE ~ Single -> "idle"
      [] Single /\ kpc \in {"enter", "await"} -> "running"
      [] Single /\ kpc = "ended" -> "over"
      [] OTHER -> "halted"

prog ==
    CASE Single /\ kpc = "enter" -> Registers(UserContext(g_entry[0], call.sp))
      [] Single /\ kpc = "await" -> Registers(regs)
      [] OTHER -> Registers(KernelFrame)

verdict == Reported(IF Single /\ kpc = "ended" THEN g_task_end_reason ELSE TASK_END_NONE)
outcome == Reported(IF result.kind = "task" THEN result.value ELSE TASK_END_NONE)

Service == INSTANCE TaskService

\* A program run by sam_run_task executes each of its instructions once and in
\* order, in the registers it left them in, however often the timer interrupts it,
\* and its caller learns how this program ended and with which code.
ServiceSpec == Service!Spec
==============================================================================
