---------------------------- MODULE ResidentTasks ----------------------------
(***************************************************************************)
(* Ring-3 tasks: sam_run_task and sam_run_pair (kernel/main.c), the timer, *)
(* system call and fault paths of the interrupt dispatcher                 *)
(* (kernel/syscall.h) and the switches in and out of ring 3                *)
(* (sam_user_enter, sam_user_resume).                                      *)
(*                                                                         *)
(* One CPU runs everything, so a step is the code between two points where *)
(* an interrupt can be taken.  The handlers run behind interrupt gates and *)
(* the kernel keeps IF clear after a task has ended; before that a timer   *)
(* tick may also hit the kernel itself.                                    *)
(*                                                                         *)
(* A user program is an arbitrary sequence of instructions and system      *)
(* calls.  Its registers are abstracted to a context: the ring it runs in, *)
(* the program whose entry point it started from, its stack, how many      *)
(* instructions it has executed and the result of its last system call.    *)
(***************************************************************************)
EXTENDS Vmm, FiniteSets

CONSTANTS
    Files,              \* names the shell or the boot sequence may ask for
    NoFile,             \* stands for an entry point that was never set
    Image,              \* what the initrd holds under a name
    Pairs,              \* pairs of names given to sam_run_pair
    Codes,              \* exit codes programs use
    Bufs,               \* buffers programs pass to write
    Vectors,            \* exceptions that programs raise
    SAM_QUANTUM_TICKS,  \* timer ticks in a slice (3 in the code)
    MaxPos,             \* bound on the instructions a context executes
    CounterCap          \* where the statistics counters saturate

ImageKinds == {"missing", "empty", "reject", "window0", "window1"}
BufKinds == {"null", "mapped", "unmapped"}

ASSUME TaskAssumptions ==
    /\ NoFile \notin Files
    /\ Image \in [Files -> ImageKinds]
    /\ Pairs \subseteq Files \X Files
    /\ Codes \subseteq Nat
    /\ Bufs \subseteq BufKinds
    /\ Vectors \subseteq 0 .. 31
    /\ SAM_QUANTUM_TICKS \in Nat \ {0}
    /\ MaxPos \in Nat
    /\ CounterCap \in Nat \ {0, 1}

Slots == {0, 1}                                 \* SAM_MAX_TASKS = 2

TASK_END_NONE == 0
TASK_END_EXIT == 1
TASK_END_FAULT == 2

VARIABLES
    cr3,                \* the CPU: active page tables,
    regs,               \* the registers,
    ifl,                \* and the interrupt flag
    vmm_bump,           \* pages taken from the page-table pool
    sam_kernel_cr3,     \* saved by sam_user_enter
    tcb_frame,          \* g_tasks[i].frame
    tcb_cr3,            \* g_tasks[i].cr3
    tcb_started,        \* g_tasks[i].started
    g_entry,
    g_stktop,
    g_ntasks,
    g_cur,
    g_quantum,
    g_end_idx,
    g_exit_code,
    g_task_end_reason,
    g_preempt_count,
    g_tick_count,
    kpc,                \* where the kernel's own thread of control is
    call,               \* the run in progress, with its arguments
    ended,              \* sam_run_pair's locals
    clean,
    result,             \* what the last run returned
    ctx,                \* history: the context each loaded program has reached
    fate                \* history: how each loaded program ended

cpu == <<cr3, regs, ifl>>
tcbs == <<tcb_frame, tcb_cr3, tcb_started>>
layout == <<g_entry, g_stktop>>
ending == <<g_end_idx, g_exit_code, g_task_end_reason>>
counters == <<g_preempt_count, g_tick_count>>
locals == <<call, ended, clean>>
history == <<ctx, fate>>
vars == <<cpu, vmm_bump, sam_kernel_cr3, tcbs, layout, g_ntasks, g_cur, g_quantum,
          ending, counters, kpc, locals, result, history>>

------------------------------------------------------------------------------
(***************************************************************************)
(* Values                                                                  *)
(***************************************************************************)
Stacks == {"none", "top0", "top1", "argv0"}
StackTop(slot) == IF slot = 0 THEN "top0" ELSE "top1"
Results == {"none", "ok", "error"}

KernelFrame == [cs |-> 0, entry |-> NoFile, sp |-> "none", pos |-> 0, rax |-> "none"]
UserContext(f, sp) == [cs |-> 3, entry |-> f, sp |-> sp, pos |-> 0, rax |-> "none"]
Contexts == [cs : {0, 3}, entry : Files \cup {NoFile}, sp : Stacks,
             pos : 0 .. MaxPos, rax : Results]

InUser == regs.cs = 3

Live == [how |-> "live", code |-> 0]
Exited(code) == [how |-> "exit", code |-> code]
Faulted == [how |-> "fault", code |-> 0]

NoCall == [kind |-> "none", files |-> <<NoFile, NoFile>>, sp |-> "none"]
Returned(kind, value) == [kind |-> kind, value |-> value]

Saturate(n) == IF n < CounterCap THEN n + 1 ELSE n

Init ==
    /\ cr3 = KernelCr3 /\ regs = KernelFrame /\ ifl = TRUE
    /\ vmm_bump = 0
    /\ sam_kernel_cr3 = NoPage
    /\ tcb_frame = [i \in Slots |-> KernelFrame]
    /\ tcb_cr3 = [i \in Slots |-> NoPage]
    /\ tcb_started = [i \in Slots |-> FALSE]
    /\ g_entry = [i \in Slots |-> NoFile]
    /\ g_stktop = [i \in Slots |-> "none"]
    /\ g_ntasks = 0 /\ g_cur = 0 /\ g_quantum = 0
    /\ g_end_idx = 0 /\ g_exit_code = 0 /\ g_task_end_reason = TASK_END_NONE
    /\ g_preempt_count = 0 /\ g_tick_count = 0
    /\ kpc = "idle" /\ call = NoCall
    /\ ended = [i \in Slots |-> FALSE] /\ clean = 0
    /\ result = Returned("none", 0)
    /\ ctx = [i \in Slots |-> KernelFrame]
    /\ fate = [i \in Slots |-> Live]

------------------------------------------------------------------------------
(***************************************************************************)
(* Starting programs                                                       *)
(***************************************************************************)

\* elf_load_in accepts an image only in the window it is linked for.
Accepts(f, slot) == Image[f] = (IF slot = 0 THEN "window0" ELSE "window1")

\* vfs_open, vfs_read, elf_load and vmm_create_user_as_at in this order; the
\* page-table pool is only touched when the first three succeed.
Loads(f, slot) == Accepts(f, slot) /\ CreatedCr3(vmm_bump) # NoPage
BumpAfterLoad(f, slot) ==
    IF Accepts(f, slot) THEN BumpAfterCreate(vmm_bump) ELSE vmm_bump

\* A loaded program's history starts over.
Fresh(f, slot, sp) ==
    /\ ctx' = [ctx EXCEPT ![slot] = UserContext(f, sp)]
    /\ fate' = [fate EXCEPT ![slot] = Live]

\* sam_run_task up to __builtin_setjmp: load the image, build its address space
\* and its argument stack, register it as the only resident task.
RunTask(f, sp) ==
    /\ kpc = "idle"
    /\ Loads(f, 0)
    /\ vmm_bump' = BumpAfterLoad(f, 0)
    /\ g_entry' = [g_entry EXCEPT ![0] = f]
    /\ g_stktop' = [g_stktop EXCEPT ![0] = StackTop(0)]
    /\ tcb_cr3' = [tcb_cr3 EXCEPT ![0] = CreatedCr3(vmm_bump)]
    /\ tcb_started' = [tcb_started EXCEPT ![0] = FALSE]
    /\ g_ntasks' = 1
    /\ g_cur' = 0
    /\ g_task_end_reason' = TASK_END_NONE
    /\ g_quantum' = 0
    /\ kpc' = "enter"
    /\ call' = [kind |-> "task", files |-> <<f, NoFile>>, sp |-> sp]
    /\ result' = Returned("none", 0)
    /\ Fresh(f, 0, sp)
    /\ UNCHANGED <<cpu, sam_kernel_cr3, tcb_frame, g_end_idx, g_exit_code, counters,
                   ended, clean>>

\* The early returns of sam_run_task: no such file, an empty or unreadable one, an
\* image the loader rejects, no page-table pages left.
RunTaskFails(f) ==
    /\ kpc = "idle"
    /\ ~ Loads(f, 0)
    /\ vmm_bump' = BumpAfterLoad(f, 0)
    /\ result' = Returned("task", -1)
    /\ UNCHANGED <<cpu, sam_kernel_cr3, tcbs, layout, g_ntasks, g_cur, g_quantum, ending,
                   counters, kpc, locals, history>>

RunPair(a, b) ==
    /\ kpc = "idle"
    /\ kpc' = "load0"
    /\ call' = [kind |-> "pair", files |-> <<a, b>>, sp |-> "top0"]
    /\ result' = Returned("none", 0)
    /\ UNCHANGED <<cpu, vmm_bump, sam_kernel_cr3, tcbs, layout, g_ntasks, g_cur, g_quantum,
                   ending, counters, ended, clean, history>>

LoadAt(slot) == IF slot = 0 THEN "load0" ELSE "load1"

\* One turn of sam_run_pair's loading loop, and what follows the loop when it was
\* the last.
PairLoad(slot) ==
    LET f == call.files[slot + 1]
    IN  /\ kpc = LoadAt(slot)
        /\ Loads(f, slot)
        /\ vmm_bump' = BumpAfterLoad(f, slot)
        /\ g_entry' = [g_entry EXCEPT ![slot] = f]
        /\ g_stktop' = [g_stktop EXCEPT ![slot] = StackTop(slot)]
        /\ tcb_cr3' = [tcb_cr3 EXCEPT ![slot] = CreatedCr3(vmm_bump)]
        /\ tcb_started' = [tcb_started EXCEPT ![slot] = FALSE]
        /\ Fresh(f, slot, StackTop(slot))
        /\ IF slot = 0
             THEN /\ kpc' = "load1"
                  /\ UNCHANGED <<g_ntasks, g_cur, g_quantum, ended, clean>>
             ELSE /\ kpc' = "enter"
                  /\ g_ntasks' = 2 /\ g_cur' = 0 /\ g_quantum' = 0
                  /\ ended' = [i \in Slots |-> FALSE] /\ clean' = 0
        /\ UNCHANGED <<cpu, sam_kernel_cr3, tcb_frame, ending, counters, call, result>>

\* The early returns of the loading loop.  What an earlier turn registered stays.
PairLoadFails(slot) ==
    LET f == call.files[slot + 1]
    IN  /\ kpc = LoadAt(slot)
        /\ ~ Loads(f, slot)
        /\ vmm_bump' = BumpAfterLoad(f, slot)
        /\ kpc' = "idle"
        /\ call' = NoCall
        /\ result' = Returned("pair", 0)
        /\ UNCHANGED <<cpu, sam_kernel_cr3, tcbs, layout, g_ntasks, g_cur, g_quantum, ending,
                       counters, ended, clean, history>>

------------------------------------------------------------------------------
(***************************************************************************)
(* Switching to ring 3                                                     *)
(***************************************************************************)

\* sam_task_mark_start(i) on the frames it is given: the frame of a task never
\* dispatched is made up, any other is left alone.
MarkStartAlways(frames, i) ==                   \* mutant: "started" is not looked at
    [frames EXCEPT ![i] = UserContext(g_entry[i], g_stktop[i])]

MarkStart(frames, i) ==
    IF tcb_started[i]
      THEN frames
      ELSE [frames EXCEPT ![i] = UserContext(g_entry[i], g_stktop[i])]

\* sam_user_resume(&g_tasks[i].frame, g_tasks[i].cr3) with the frames it is given.
ResumeInPlace(frames, i) ==                     \* mutant: CR3 is not loaded
    /\ cr3' = cr3
    /\ regs' = frames[i]
    /\ ifl' = TRUE

Resume(frames, i) ==
    /\ cr3' = tcb_cr3[i]
    /\ regs' = frames[i]
    /\ ifl' = TRUE

\* The first return of __builtin_setjmp, in both runs: sam_task_mark_start(0),
\* then sam_user_enter saves the active CR3 and enters the program.
EnterTask ==
    /\ kpc = "enter"
    /\ tcb_frame' = MarkStart(tcb_frame, 0)
    /\ tcb_started' = [tcb_started EXCEPT ![0] = TRUE]
    /\ sam_kernel_cr3' = cr3
    /\ cr3' = tcb_cr3[0]
    /\ regs' = UserContext(g_entry[0], call.sp)
    /\ ifl' = TRUE
    /\ kpc' = "await"
    /\ UNCHANGED <<vmm_bump, tcb_cr3, layout, g_ntasks, g_cur, g_quantum, ending, counters,
                   locals, result, history>>

------------------------------------------------------------------------------
(***************************************************************************)
(* The timer: vector 32 of sam_interrupt_dispatcher                        *)
(***************************************************************************)

\* A tick uses up a part of the slice only when it interrupts ring 3 and tasks are
\* resident.
Charged == g_ntasks > 0 /\ InUser
SliceOverLate == Charged /\ g_quantum + 1 > SAM_QUANTUM_TICKS   \* mutant: ">" for ">="
SliceOver == Charged /\ g_quantum + 1 >= SAM_QUANTUM_TICKS

SameSlot == g_cur                               \* mutant: never goes on
NextSlot == (g_cur + 1) % g_ntasks

\* A tick that returns to what it interrupted.
TickReturns ==
    /\ ifl /\ kpc # "panic"
    /\ ~ SliceOver
    /\ g_tick_count' = Saturate(g_tick_count)
    /\ g_quantum' = IF Charged THEN g_quantum + 1 ELSE g_quantum
    /\ UNCHANGED <<cpu, vmm_bump, sam_kernel_cr3, tcbs, layout, g_ntasks, g_cur, ending,
                   g_preempt_count, kpc, locals, result, history>>

\* The tick that ends a slice: snapshot the interrupted registers into the current
\* slot, go on to the next slot in turn.
TickSwitches ==
    LET next == NextSlot
        saved == [tcb_frame EXCEPT ![g_cur] = regs]
        frames == MarkStart(saved, next)
    IN  /\ ifl /\ kpc # "panic"
        /\ SliceOver
        /\ g_tick_count' = Saturate(g_tick_count)
        /\ g_preempt_count' = Saturate(g_preempt_count)
        /\ g_quantum' = 0
        /\ tcb_frame' = frames
        /\ tcb_started' = [tcb_started EXCEPT ![next] = TRUE]
        /\ g_cur' = next
        /\ Resume(frames, next)
        /\ UNCHANGED <<vmm_bump, sam_kernel_cr3, tcb_cr3, layout, g_ntasks, ending, kpc,
                       locals, result, history>>

Tick == TickReturns \/ TickSwitches

------------------------------------------------------------------------------
(***************************************************************************)
(* The programs, and what the dispatcher does for them                     *)
(***************************************************************************)

\* The program in slot g_cur executes one more instruction, leaving rax as given.
Advance(rax) ==
    /\ InUser
    /\ regs.pos < MaxPos
    /\ regs' = [regs EXCEPT !.pos = @ + 1, !.rax = rax]
    /\ ctx' = [ctx EXCEPT ![g_cur] = regs']
    /\ UNCHANGED <<cr3, ifl, vmm_bump, sam_kernel_cr3, tcbs, layout, g_ntasks, g_cur,
                   g_quantum, ending, counters, kpc, locals, result, fate>>

Instruction == Advance(regs.rax)

\* sam_panic: the CPU halts for good with interrupts off.
Panic ==
    /\ kpc' = "panic"
    /\ regs' = KernelFrame
    /\ ifl' = FALSE
    /\ UNCHANGED <<cr3, vmm_bump, sam_kernel_cr3, tcbs, layout, g_ntasks, g_cur, g_quantum,
                   ending, counters, locals, result, history>>

\* write(fd, buf, len): only fd 1 and a non-null buffer are served.  The kernel
\* reads the buffer itself; a page fault there is not from ring 3 and panics.
SysWrite(fd, buf) ==
    LET served == fd = 1 /\ buf # "null"
    IN  \/ served /\ buf = "mapped" /\ Advance("ok")
        \/ ~ served /\ Advance("error")
        \/ served /\ buf = "unmapped" /\ InUser /\ Panic

\* read is always at end of file, an unknown number is an error.
SysRead == Advance("ok")
SysUnknown == Advance("error")

\* The record of how the running program ended, when it had not ended before.
Ends(how) ==
    fate' = [fate EXCEPT ![g_cur] = IF @ = Live THEN how ELSE @]

\* __builtin_longjmp(g_task_jb): back at the kernel's await-point, with the task's
\* page tables still active and interrupts off.
LongJmp ==
    /\ g_end_idx' = g_cur
    /\ regs' = KernelFrame
    /\ ifl' = FALSE
    /\ kpc' = "ended"
    /\ UNCHANGED <<cr3, vmm_bump, sam_kernel_cr3, tcbs, layout, g_ntasks, g_cur, g_quantum,
                   counters, locals, result, ctx>>

SysExitNoReason(code) ==                        \* mutant: the reason is not stored
    /\ InUser
    /\ g_exit_code' = code
    /\ Ends(Exited(code))
    /\ LongJmp
    /\ UNCHANGED g_task_end_reason

SysExit(code) ==
    /\ InUser
    /\ g_exit_code' = code
    /\ g_task_end_reason' = TASK_END_EXIT
    /\ Ends(Exited(code))
    /\ LongJmp

\* A page fault from ring 3 ends the task.
PageFault(v) ==
    /\ InUser
    /\ v = 14
    /\ g_task_end_reason' = TASK_END_FAULT
    /\ Ends(Faulted)
    /\ LongJmp
    /\ UNCHANGED g_exit_code

\* Any other exception goes to sam_exception_handler, from ring 3 too.
OtherException(v) == InUser /\ v # 14 /\ Panic

------------------------------------------------------------------------------
(***************************************************************************)
(* The await-points                                                        *)
(***************************************************************************)

\* Both await-points put the kernel's page tables back.
KeepCr3 == UNCHANGED cr3                        \* mutant: they do not
RestoreCr3 == cr3' = sam_kernel_cr3

\* The rest of sam_run_task.  Its TASK_END_PREEMPT branch is left out: no handler
\* stores that reason any more.
AwaitTask ==
    /\ kpc = "ended" /\ call.kind = "task"
    /\ RestoreCr3
    /\ result' = Returned("task", g_task_end_reason)
    /\ kpc' = "idle"
    /\ call' = NoCall
    /\ UNCHANGED <<regs, ifl, vmm_bump, sam_kernel_cr3, tcbs, layout, g_ntasks, g_cur,
                   g_quantum, ending, counters, ended, clean, history>>

NowEndedOnExit ==                               \* mutant: a fault is not an end
    IF g_task_end_reason = TASK_END_EXIT THEN [ended EXCEPT ![g_end_idx] = TRUE] ELSE ended
NowEnded == [ended EXCEPT ![g_end_idx] = TRUE]
NowClean == IF g_task_end_reason = TASK_END_EXIT THEN Saturate(clean) ELSE clean
EitherEnded == NowEnded[0] \/ NowEnded[1]       \* mutant: "||" for "&&"
BothEnded == NowEnded[0] /\ NowEnded[1]

\* sam_run_pair's loop when one task is still to end: resume the other slot.
AwaitPairResumes ==
    LET other == 1 - g_end_idx
        frames == MarkStart(tcb_frame, other)
    IN  /\ kpc = "ended" /\ call.kind = "pair"
        /\ ~ BothEnded
        /\ ended' = NowEnded
        /\ clean' = NowClean
        /\ tcb_frame' = frames
        /\ tcb_started' = [tcb_started EXCEPT ![other] = TRUE]
        /\ g_cur' = other
        /\ Resume(frames, other)
        /\ kpc' = "await"
        /\ UNCHANGED <<vmm_bump, sam_kernel_cr3, tcb_cr3, layout, g_ntasks, g_quantum, ending,
                       counters, call, result, history>>

\* sam_run_pair's loop when both have ended, and its return.
AwaitPairReturns ==
    /\ kpc = "ended" /\ call.kind = "pair"
    /\ BothEnded
    /\ ended' = NowEnded
    /\ clean' = NowClean
    /\ RestoreCr3
    /\ g_ntasks' = 0
    /\ result' = Returned("pair", NowClean)
    /\ kpc' = "idle"
    /\ call' = NoCall
    /\ UNCHANGED <<regs, ifl, vmm_bump, sam_kernel_cr3, tcbs, layout, g_cur, g_quantum, ending,
                   counters, history>>

------------------------------------------------------------------------------
Start ==
    \/ \E f \in Files : \/ \E sp \in {"top0", "argv0"} : RunTask(f, sp)
                        \/ RunTaskFails(f)
    \/ \E p \in Pairs : RunPair(p[1], p[2])

Kernel ==
    \/ \E slot \in Slots : PairLoad(slot) \/ PairLoadFails(slot)
    \/ EnterTask
    \/ AwaitTask
    \/ AwaitPairResumes
    \/ AwaitPairReturns

ProgramEnds ==
    \/ \E v \in Vectors : PageFault(v)
    \/ \E code \in Codes : SysExit(code)

Program ==
    \/ Instruction
    \/ \E fd \in {1, 2}, buf \in Bufs : SysWrite(fd, buf)
    \/ SysRead
    \/ SysUnknown
    \/ ProgramEnds
    \/ \E v \in Vectors : OtherException(v)

Next == Start \/ Kernel \/ Tick \/ Program

Spec == Init /\ [][Next]_vars

\* The kernel's own code does not stop, and the PIT keeps ticking: it is programmed
\* once and IRQ0 is never masked again.
TimerFairness == WF_vars(Kernel) /\ WF_vars(Tick)
TimerSpec == Spec /\ TimerFairness

------------------------------------------------------------------------------
(***************************************************************************)
(* Correctness                                                             *)
(***************************************************************************)

Kpcs == {"idle", "load0", "load1", "enter", "await", "ended", "panic"}
Fates == [how : {"live", "exit", "fault"}, code : Codes \cup {0}]
Calls == [kind : {"none", "task", "pair"},
          files : (Files \cup {NoFile}) \X (Files \cup {NoFile}), sp : Stacks]

\* The kernel's variables have their types; in particular g_cur, which indexes the
\* task table from the timer interrupt, is a slot, and a slice never outlives its
\* ticks (g_quantum < SAM_QUANTUM_TICKS).
TypeOK ==
    /\ cr3 \in Cr3s \cup {KernelCr3, NoPage}
    /\ regs \in Contexts
    /\ ifl \in BOOLEAN
    /\ vmm_bump \in 0 .. PoolPages
    /\ sam_kernel_cr3 \in Cr3s \cup {KernelCr3, NoPage}
    /\ tcb_frame \in [Slots -> Contexts]
    /\ tcb_cr3 \in [Slots -> Cr3s \cup {NoPage}]
    /\ tcb_started \in [Slots -> BOOLEAN]
    /\ g_entry \in [Slots -> Files \cup {NoFile}]
    /\ g_stktop \in [Slots -> Stacks]
    /\ g_ntasks \in 0 .. 2
    /\ g_cur \in Slots
    /\ g_quantum \in 0 .. SAM_QUANTUM_TICKS - 1
    /\ g_end_idx \in Slots
    /\ g_exit_code \in Codes \cup {0}
    /\ g_task_end_reason \in {TASK_END_NONE, TASK_END_EXIT, TASK_END_FAULT}
    /\ g_preempt_count \in 0 .. CounterCap
    /\ g_tick_count \in 0 .. CounterCap
    /\ kpc \in Kpcs
    /\ call \in Calls
    /\ ended \in [Slots -> BOOLEAN]
    /\ clean \in 0 .. CounterCap
    /\ result \in [kind : {"none", "task", "pair"}, value : -1 .. CounterCap]
    /\ ctx \in [Slots -> Contexts]
    /\ fate \in [Slots -> Fates]

\* The kernel's own code runs on the boot page tables whenever no task is in ring 3
\* and none has just left it, and the CR3 it goes back to is the boot one: the
\* value sam_user_enter saves is never that of a task, however runs follow one
\* another.
KernelSpace ==
    /\ kpc \in {"idle", "load0", "load1", "enter"} => cr3 = KernelCr3
    /\ kpc \in {"await", "ended"} => sam_kernel_cr3 = KernelCr3

\* In ring 3 the CPU runs the program loaded in slot g_cur, in the address space
\* built for that slot, and two resident tasks never share an address space.
RunsInOwnSpace ==
    /\ InUser =>
           /\ kpc = "await"
           /\ g_cur < g_ntasks
           /\ cr3 = tcb_cr3[g_cur] /\ cr3 # NoPage
           /\ regs.entry = call.files[g_cur + 1]
    /\ kpc \in {"await", "ended"} /\ g_ntasks = 2 => tcb_cr3[0] # tcb_cr3[1]

Resident(i) == kpc \in {"await", "ended"} /\ i < g_ntasks
Running(i) == InUser /\ g_cur = i

\* Preemption is invisible (STATUS.md, Sprint 20): a program that has not ended
\* goes on in exactly the context it had reached, whoever ran in between, and one
\* that has not run yet will start at its entry point on its own stack.
Transparent ==
    \A i \in Slots : Resident(i) /\ fate[i] = Live =>
        CASE Running(i) -> regs = ctx[i]
          [] ~ Running(i) /\ tcb_started[i] -> tcb_frame[i] = ctx[i]
          [] OTHER -> ctx[i] = UserContext(g_entry[i], g_stktop[i])

\* What sam_run_task returns is how the program of this very run ended, and with
\* TASK_END_EXIT g_exit_code is the code it passed.
TaskVerdict ==
    result.kind = "task" /\ result.value # -1 =>
        \/ result.value = TASK_END_EXIT /\ fate[0] = Exited(g_exit_code)
        \/ result.value = TASK_END_FAULT /\ fate[0] = Faulted

CleanExits == {i \in Slots : fate[i].how = "exit"}

\* sam_run_pair comes back only when both programs have ended, and it does not miss
\* a clean exit.
PairOutlivesBoth ==
    result.kind = "pair" /\ result.value > 0 =>
        /\ \A i \in Slots : fate[i] # Live
        /\ Cardinality(CleanExits) <= result.value

\* A resident program that has not ended gets the CPU again, even from a task that
\* never ends and makes no system call: the timer takes it away.
ResidentTaskRuns ==
    \A i \in Slots :
        (Resident(i) /\ fate[i] = Live) ~> (Running(i) \/ fate[i] # Live)

\* A premise about programs, not about the kernel: one that gets the CPU again and
\* again calls exit or faults some time.
ProgramFairness == \A i \in Slots : SF_vars(ProgramEnds /\ g_cur = i)

\* Every run comes back to its caller when the programs it loads end.
RunReturns == ProgramFairness => ((kpc # "idle") ~> (kpc = "idle"))

(***************************************************************************)
(* What the comments say and the code does not do                          *)
(***************************************************************************)

\* main.c:428 "we count it and put the survivor back until both are gone": a task
\* that has ended does not run again.
EndedStaysEnded == InUser => fate[g_cur] = Live
==============================================================================
