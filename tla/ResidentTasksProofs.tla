------------------------- MODULE ResidentTasksProofs -------------------------
(***************************************************************************)
(* Theorems about ResidentTasks, for any initrd, any programs, any pool    *)
(* size and any slice length.                                              *)
(***************************************************************************)
EXTENDS SingleTask, FiniteSetTheorems, TLAPS

Busy == kpc \in {"enter", "await", "ended"}

\* The run in progress and the task table agree.
CallInv ==
    /\ InUser <=> kpc = "await"
    /\ kpc = "idle" => call.kind = "none"
    /\ kpc # "idle" => result.kind = "none"
    /\ kpc \in {"load0", "load1"} =>
           call.kind = "pair" /\ call.sp = "top0" /\ call.files \in Files \X Files
    /\ Busy => \/ call.kind = "task" /\ g_ntasks = 1 /\ g_cur = 0
               \/ call.kind = "pair" /\ g_ntasks = 2 /\ (kpc = "enter" => g_cur = 0)
    /\ kpc = "enter" /\ call.kind = "pair" => call.sp = "top0"

\* A slot that is loaded: its program, stack and address space are those of this
\* run, and its frame, once it has one, is a ring-3 frame of its program.
Loaded(i) == (kpc = "load1" /\ i = 0) \/ (Busy /\ i < g_ntasks)
SlotInv ==
    \A i \in Slots : Loaded(i) =>
        /\ g_entry[i] = call.files[i + 1]
        /\ g_stktop[i] = StackTop(i)
        /\ tcb_cr3[i] \in 0 .. vmm_bump - 1
        /\ tcb_started[i] => tcb_frame[i].cs = 3 /\ tcb_frame[i].entry = g_entry[i]

\* Two loaded slots have different page tables.
ApartInv == Loaded(0) /\ Loaded(1) => tcb_cr3[0] # tcb_cr3[1]

\* Nothing has been dispatched before the run enters ring 3.
FreshInv ==
    \A i \in Slots : Loaded(i) /\ kpc \in {"load1", "enter"} =>
        /\ ~ tcb_started[i]
        /\ fate[i] = Live
        /\ ctx[i] = UserContext(g_entry[i], IF i = 0 THEN call.sp ELSE "top1")

\* The task that has the CPU, or just lost it by ending, was dispatched.
CurrentInv ==
    /\ kpc \in {"await", "ended"} => tcb_started[g_cur]
    /\ kpc = "ended" =>
           /\ g_end_idx = g_cur
           /\ fate[g_cur] # Live

\* A single task runs only before it has ended, and its end is the recorded one.
SingleInv ==
    /\ call.kind = "task" /\ kpc = "await" => fate[0] = Live
    /\ call.kind = "task" /\ kpc = "ended" =>
           \/ g_task_end_reason = TASK_END_EXIT /\ fate[0] = Exited(g_exit_code)
           \/ g_task_end_reason = TASK_END_FAULT /\ fate[0] = Faulted

IInv ==
    /\ TypeOK
    /\ CallInv
    /\ SlotInv
    /\ ApartInv
    /\ FreshInv
    /\ CurrentInv
    /\ SingleInv
    /\ KernelSpace
    /\ RunsInOwnSpace
    /\ Transparent
    /\ TaskVerdict

------------------------------------------------------------------------------
(***************************************************************************)
(* The page-table pool                                                     *)
(***************************************************************************)

\* vmm_create_user_as_at either takes three pages and returns the first, or returns
\* null; the bump pointer never leaves the pool and never goes back.
LEMMA CreateFacts ==
    ASSUME NEW b \in 0 .. PoolPages
    PROVE  /\ BumpAfterCreate(b) \in b .. PoolPages
           /\ CreatedCr3(b) # NoPage =>
                  /\ CreatedCr3(b) = b
                  /\ BumpAfterCreate(b) = b + 3
                  /\ b \in Cr3s
  <1>1. BumpAfterAlloc(b) \in b .. PoolPages
    BY PoolAssumption DEF BumpAfterAlloc, PtFits
  <1>2. BumpAfterAlloc(BumpAfterAlloc(b)) \in BumpAfterAlloc(b) .. PoolPages
    BY <1>1, PoolAssumption DEF BumpAfterAlloc, PtFits
  <1>3. BumpAfterCreate(b) \in BumpAfterAlloc(BumpAfterAlloc(b)) .. PoolPages
    BY <1>1, <1>2, PoolAssumption DEF BumpAfterCreate, BumpAfterAlloc, PtFits
  <1>4. BumpAfterCreate(b) \in b .. PoolPages
    BY <1>1, <1>2, <1>3, PoolAssumption
  <1>5. ASSUME CreatedCr3(b) # NoPage
        PROVE  CreatedCr3(b) = b /\ BumpAfterCreate(b) = b + 3 /\ b \in Cr3s
    <2>1. /\ AllocatedPt(b) # NoPage
          /\ AllocatedPt(BumpAfterAlloc(b)) # NoPage
          /\ AllocatedPt(BumpAfterAlloc(BumpAfterAlloc(b))) # NoPage
          /\ CreatedCr3(b) = AllocatedPt(b)
      BY <1>5 DEF CreatedCr3, CreatedPages
    <2>2. PtFits(b) /\ PtFits(BumpAfterAlloc(b)) /\ PtFits(BumpAfterAlloc(BumpAfterAlloc(b)))
      BY <2>1 DEF AllocatedPt
    <2> QED
      BY <2>1, <2>2, PoolAssumption
      DEF AllocatedPt, PtFits, BumpAfterAlloc, BumpAfterCreate, Cr3s
  <1> QED
    BY <1>4, <1>5

\* The same for a load: a program that loads gets fresh page tables.
LEMMA LoadFacts ==
    ASSUME vmm_bump \in 0 .. PoolPages, NEW f \in Files, NEW slot \in Slots
    PROVE  /\ BumpAfterLoad(f, slot) \in vmm_bump .. PoolPages
           /\ Loads(f, slot) =>
                  /\ CreatedCr3(vmm_bump) = vmm_bump
                  /\ BumpAfterLoad(f, slot) = vmm_bump + 3
                  /\ vmm_bump \in Cr3s
  <1>1. vmm_bump \in vmm_bump .. PoolPages
    BY PoolAssumption
  <1> QED
    BY <1>1, CreateFacts DEF BumpAfterLoad, Loads

------------------------------------------------------------------------------
(***************************************************************************)
(* Contexts                                                                *)
(***************************************************************************)

\* The contexts the kernel makes up are contexts.
LEMMA ContextFacts ==
    /\ KernelFrame \in Contexts
    /\ \A f \in Files \cup {NoFile}, sp \in Stacks : UserContext(f, sp) \in Contexts
    /\ \A c \in Contexts, rax \in Results :
           c.pos < MaxPos => [c EXCEPT !.pos = @ + 1, !.rax = rax] \in Contexts
  <1>1. KernelFrame \in Contexts
    BY TaskAssumptions DEF KernelFrame, Contexts, Stacks, Results
  <1>2. \A f \in Files \cup {NoFile}, sp \in Stacks : UserContext(f, sp) \in Contexts
    BY TaskAssumptions DEF UserContext, Contexts, Results
  <1>3. ASSUME NEW c \in Contexts, NEW rax \in Results, c.pos < MaxPos
        PROVE  [c EXCEPT !.pos = @ + 1, !.rax = rax] \in Contexts
    <2>1. c.pos + 1 \in 0 .. MaxPos
      BY <1>3, TaskAssumptions DEF Contexts
    <2> QED
      BY <2>1 DEF Contexts
  <1> QED
    BY <1>1, <1>2, <1>3

\* The values a program's end is recorded with differ from each other.
LEMMA FateFacts ==
    /\ Live \in Fates /\ Faulted \in Fates /\ Live # Faulted
    /\ \A code \in Codes : Exited(code) \in Fates /\ Exited(code) # Live
  BY DEF Live, Faulted, Exited, Fates

LEMMA SaturateFacts ==
    \A n \in 0 .. CounterCap : Saturate(n) \in 0 .. CounterCap
  BY TaskAssumptions DEF Saturate

\* A frame table with its types keeps them through sam_task_mark_start.
LEMMA MarkStartFacts ==
    ASSUME TypeOK, NEW frames \in [Slots -> Contexts], NEW i \in Slots
    PROVE  /\ MarkStart(frames, i) \in [Slots -> Contexts]
           /\ MarkStart(frames, i)[i] =
                  IF tcb_started[i] THEN frames[i] ELSE UserContext(g_entry[i], g_stktop[i])
           /\ \A j \in Slots : j # i => MarkStart(frames, i)[j] = frames[j]
  <1>1. UserContext(g_entry[i], g_stktop[i]) \in Contexts
    BY ContextFacts DEF TypeOK
  <1> QED
    BY <1>1 DEF MarkStart

------------------------------------------------------------------------------
(***************************************************************************)
(* Types                                                                   *)
(***************************************************************************)

\* Every step keeps the types.
LEMMA TypeStep ==
    ASSUME TypeOK, CallInv, [Next]_vars
    PROVE  TypeOK'
  <1> USE DEF cpu, tcbs, layout, ending, counters, locals, history
  <1>0. /\ Slots = {0, 1} /\ StackTop(0) \in Stacks /\ StackTop(1) \in Stacks
        /\ {"top0", "argv0"} \subseteq Stacks
    BY DEF Slots, StackTop, Stacks
  <1>1. ASSUME NEW f \in Files, NEW sp \in {"top0", "argv0"}, RunTask(f, sp)
        PROVE  TypeOK'
    <2>1. vmm_bump' \in 0 .. PoolPages /\ CreatedCr3(vmm_bump) \in Cr3s
      BY <1>1, LoadFacts DEF TypeOK, RunTask, Slots
    <2>2. UserContext(f, sp) \in Contexts
      BY <1>0, ContextFacts
    <2>3. call' \in Calls /\ result' \in [kind : {"none", "task", "pair"}, value : -1 .. CounterCap]
      BY <1>1, <1>0, TaskAssumptions DEF RunTask, Calls, Returned
    <2> QED
      BY <1>0, <1>1, <2>1, <2>2, <2>3, FateFacts, TaskAssumptions
      DEF TypeOK, RunTask, Fresh, Kpcs
  <1>2. ASSUME NEW f \in Files, RunTaskFails(f)
        PROVE  TypeOK'
    <2>1. vmm_bump' \in 0 .. PoolPages
      BY <1>2, LoadFacts DEF TypeOK, RunTaskFails, Slots
    <2> QED
      BY <1>2, <2>1, TaskAssumptions DEF TypeOK, RunTaskFails, Returned
  <1>3. ASSUME NEW p \in Pairs, RunPair(p[1], p[2])
        PROVE  TypeOK'
    <2>1. call' \in Calls
      BY <1>3, TaskAssumptions DEF RunPair, Calls, Stacks
    <2> QED
      BY <1>3, <2>1, TaskAssumptions DEF TypeOK, RunPair, Returned, Kpcs
  <1>4. ASSUME NEW slot \in Slots, PairLoad(slot)
        PROVE  TypeOK'
    <2> DEFINE f == call.files[slot + 1]
    <2>1. f \in Files
      BY <1>0, <1>4 DEF CallInv, PairLoad, LoadAt
    <2>2. vmm_bump' \in 0 .. PoolPages /\ CreatedCr3(vmm_bump) \in Cr3s
      BY <1>4, <2>1, LoadFacts DEF TypeOK, PairLoad
    <2>3. UserContext(f, StackTop(slot)) \in Contexts /\ StackTop(slot) \in Stacks
      BY <1>0, <2>1, ContextFacts
    <2>4. /\ ctx' \in [Slots -> Contexts] /\ fate' \in [Slots -> Fates]
          /\ g_entry' \in [Slots -> Files \cup {NoFile}] /\ g_stktop' \in [Slots -> Stacks]
      BY <1>4, <2>1, <2>3, FateFacts DEF PairLoad, Fresh, TypeOK
    <2>5. CASE slot = 0
      BY <1>0, <1>4, <2>2, <2>4, <2>5 DEF TypeOK, PairLoad, Kpcs
    <2>6. CASE slot = 1
      <3>1. /\ g_ntasks' = 2 /\ g_cur' = 0 /\ g_quantum' = 0 /\ kpc' = "enter" /\ clean' = 0
            /\ ended' = [i \in Slots |-> FALSE]
        BY <1>4, <2>6 DEF PairLoad
      <3>2. g_quantum' \in 0 .. SAM_QUANTUM_TICKS - 1 /\ clean' \in 0 .. CounterCap
        BY <3>1, TaskAssumptions
      <3>3. ended' \in [Slots -> BOOLEAN]
        BY <3>1
      <3> QED
        BY <1>0, <1>4, <2>2, <2>4, <3>1, <3>2, <3>3 DEF TypeOK, PairLoad, Kpcs
    <2> QED
      BY <1>0, <2>5, <2>6
  <1>5. ASSUME NEW slot \in Slots, PairLoadFails(slot)
        PROVE  TypeOK'
    <2>1. call.files[slot + 1] \in Files
      BY <1>0, <1>5 DEF CallInv, PairLoadFails, LoadAt
    <2>2. vmm_bump' \in 0 .. PoolPages
      BY <1>5, <2>1, LoadFacts DEF TypeOK, PairLoadFails
    <2>3. NoCall \in Calls
      BY DEF NoCall, Calls, Stacks
    <2> QED
      BY <1>5, <2>2, <2>3, TaskAssumptions DEF TypeOK, PairLoadFails, Returned, Kpcs
  <1>6. CASE EnterTask
    <2>1. MarkStart(tcb_frame, 0) \in [Slots -> Contexts]
      BY <1>0, MarkStartFacts DEF TypeOK
    <2>2. UserContext(g_entry[0], call.sp) \in Contexts
      BY <1>0, ContextFacts DEF TypeOK, Calls
    <2> QED
      BY <1>0, <1>6, <2>1, <2>2 DEF TypeOK, EnterTask, Kpcs
  <1>7. CASE TickReturns
    <2>1. g_quantum' \in 0 .. SAM_QUANTUM_TICKS - 1
      BY <1>7, TaskAssumptions DEF TypeOK, TickReturns, SliceOver
    <2> QED
      BY <1>7, <2>1, SaturateFacts DEF TypeOK, TickReturns
  <1>8. CASE TickSwitches
    <2> DEFINE saved == [tcb_frame EXCEPT ![g_cur] = regs]
    <2>1. NextSlot \in Slots
      BY <1>0, <1>8 DEF TypeOK, TickSwitches, SliceOver, Charged, NextSlot
    <2>2. saved \in [Slots -> Contexts]
      BY DEF TypeOK
    <2>3. MarkStart(saved, NextSlot) \in [Slots -> Contexts]
      BY <2>1, <2>2, MarkStartFacts
    <2>4. /\ tcb_frame' \in [Slots -> Contexts] /\ tcb_started' \in [Slots -> BOOLEAN]
          /\ regs' \in Contexts /\ cr3' \in Cr3s \cup {NoPage} /\ ifl' \in BOOLEAN
      BY <1>8, <2>1, <2>3 DEF TypeOK, TickSwitches, Resume
    <2>5. g_quantum' \in 0 .. SAM_QUANTUM_TICKS - 1
      BY <1>8, TaskAssumptions DEF TickSwitches
    <2>6. g_preempt_count' \in 0 .. CounterCap /\ g_tick_count' \in 0 .. CounterCap
      BY <1>8, SaturateFacts DEF TypeOK, TickSwitches
    <2> QED
      BY <1>8, <2>1, <2>4, <2>5, <2>6 DEF TypeOK, TickSwitches
  <1>9. ASSUME NEW rax \in Results, Advance(rax)
        PROVE  TypeOK'
    <2>1. regs' \in Contexts
      BY <1>9, ContextFacts DEF TypeOK, Advance
    <2> QED
      BY <1>9, <2>1 DEF TypeOK, Advance
  <1>10. CASE Panic
    BY <1>10, ContextFacts DEF TypeOK, Panic, Kpcs
  <1>11. ASSUME NEW code \in Codes, SysExit(code)
         PROVE  TypeOK'
    BY <1>11, ContextFacts, FateFacts DEF TypeOK, SysExit, LongJmp, Ends, Kpcs
  <1>12. ASSUME NEW v \in Vectors, PageFault(v)
         PROVE  TypeOK'
    BY <1>12, ContextFacts, FateFacts DEF TypeOK, PageFault, LongJmp, Ends, Kpcs
  <1>13. NoCall \in Calls
    BY DEF NoCall, Calls, Stacks
  <1>14. CASE AwaitTask
    BY <1>13, <1>14, TaskAssumptions
    DEF TypeOK, AwaitTask, RestoreCr3, Returned, Kpcs, TASK_END_NONE, TASK_END_EXIT,
        TASK_END_FAULT
  <1>15. NowEnded \in [Slots -> BOOLEAN] /\ NowClean \in 0 .. CounterCap
    BY SaturateFacts DEF TypeOK, NowEnded, NowClean
  <1>16. CASE AwaitPairResumes
    <2>1. 1 - g_end_idx \in Slots
      BY <1>0 DEF TypeOK
    <2>2. MarkStart(tcb_frame, 1 - g_end_idx) \in [Slots -> Contexts]
      BY <2>1, MarkStartFacts DEF TypeOK
    <2> QED
      BY <1>15, <1>16, <2>1, <2>2 DEF TypeOK, AwaitPairResumes, Resume, Kpcs
  <1>17. CASE AwaitPairReturns
    BY <1>13, <1>15, <1>17, TaskAssumptions
    DEF TypeOK, AwaitPairReturns, RestoreCr3, Returned, Kpcs
  <1>18. CASE UNCHANGED vars
    BY <1>18 DEF TypeOK, vars
  <1>19. regs.rax \in Results /\ {"ok", "error"} \subseteq Results
    BY DEF TypeOK, Contexts, Results
  <1>20. ASSUME Program PROVE TypeOK'
    BY <1>9, <1>10, <1>11, <1>12, <1>19, <1>20
    DEF Program, Instruction, SysWrite, SysRead, SysUnknown, ProgramEnds, OtherException
  <1> QED
    BY <1>1, <1>2, <1>3, <1>4, <1>5, <1>6, <1>7, <1>8, <1>14, <1>16, <1>17, <1>18, <1>20
    DEF Next, Start, Kernel, Tick

------------------------------------------------------------------------------
(***************************************************************************)
(* Each action keeps the invariant                                         *)
(***************************************************************************)

USE DEF cpu, tcbs, layout, ending, counters, locals, history, Slots, InUser, Loaded, Busy

\* sam_run_task registers a program in slot 0, in an address space of its own.
LEMMA RunTaskStep ==
    ASSUME IInv, TypeOK', NEW f \in Files, NEW sp \in {"top0", "argv0"}, RunTask(f, sp)
    PROVE  IInv'
  <1>1. CallInv'
    BY DEF IInv, TypeOK, RunTask, Fresh, CallInv, Returned
  <1>2. SlotInv' /\ ApartInv'
    BY LoadFacts
    DEF IInv, TypeOK, RunTask, Fresh, CallInv, SlotInv, ApartInv
  <1>3. FreshInv' /\ CurrentInv' /\ SingleInv'
    BY DEF IInv, TypeOK, RunTask, Fresh, CallInv, FreshInv, CurrentInv, SingleInv
  <1>4. KernelSpace' /\ RunsInOwnSpace'
    BY DEF IInv, TypeOK, RunTask, Fresh, CallInv, KernelSpace, RunsInOwnSpace
  <1>5. Transparent'
    BY DEF IInv, TypeOK, RunTask, Fresh, CallInv, Transparent, Resident, Running
  <1>6. TaskVerdict'
    BY DEF IInv, TypeOK, RunTask, Fresh, CallInv, SingleInv, TaskVerdict, Returned
  <1> QED
    BY <1>1, <1>2, <1>3, <1>4, <1>5, <1>6 DEF IInv

\* A run that fails leaves the task table alone.
LEMMA RunTaskFailsStep ==
    ASSUME IInv, TypeOK', NEW f \in Files, RunTaskFails(f)
    PROVE  IInv'
  <1>1. CallInv'
    BY DEF IInv, TypeOK, RunTaskFails, CallInv
  <1>2. SlotInv' /\ ApartInv'
    BY LoadFacts
    DEF IInv, TypeOK, RunTaskFails, CallInv, SlotInv, ApartInv
  <1>3. FreshInv' /\ CurrentInv' /\ SingleInv'
    BY DEF IInv, TypeOK, RunTaskFails, CallInv, FreshInv, CurrentInv, SingleInv
  <1>4. KernelSpace' /\ RunsInOwnSpace'
    BY DEF IInv, TypeOK, RunTaskFails, CallInv, KernelSpace, RunsInOwnSpace
  <1>5. Transparent'
    BY DEF IInv, TypeOK, RunTaskFails, CallInv, Transparent, Resident, Running
  <1>6. TaskVerdict'
    BY DEF IInv, TypeOK, RunTaskFails, CallInv, SingleInv, TaskVerdict, Returned
  <1> QED
    BY <1>1, <1>2, <1>3, <1>4, <1>5, <1>6 DEF IInv

\* sam_run_pair begins with nothing loaded.
LEMMA RunPairStep ==
    ASSUME IInv, TypeOK', NEW p \in Pairs, RunPair(p[1], p[2])
    PROVE  IInv'
  <1>1. CallInv'
    BY TaskAssumptions
    DEF IInv, TypeOK, RunPair, CallInv, Returned
  <1>2. SlotInv' /\ ApartInv'
    BY DEF IInv, TypeOK, RunPair, CallInv, SlotInv, ApartInv
  <1>3. FreshInv' /\ CurrentInv' /\ SingleInv'
    BY DEF IInv, TypeOK, RunPair, CallInv, FreshInv, CurrentInv, SingleInv
  <1>4. KernelSpace' /\ RunsInOwnSpace'
    BY DEF IInv, TypeOK, RunPair, CallInv, KernelSpace, RunsInOwnSpace
  <1>5. Transparent'
    BY DEF IInv, TypeOK, RunPair, CallInv, Transparent, Resident, Running
  <1>6. TaskVerdict'
    BY DEF IInv, TypeOK, RunPair, CallInv, SingleInv, TaskVerdict, Returned
  <1> QED
    BY <1>1, <1>2, <1>3, <1>4, <1>5, <1>6 DEF IInv

\* The second program of a pair gets page tables that lie above the first one's.
LEMMA PairLoadStep ==
    ASSUME IInv, TypeOK', NEW slot \in Slots, PairLoad(slot)
    PROVE  IInv'
  <1>1. CallInv'
    BY DEF IInv, TypeOK, PairLoad, LoadAt, Fresh, CallInv
  <1>2. SlotInv' /\ ApartInv'
    BY LoadFacts
    DEF IInv, TypeOK, PairLoad, LoadAt, Fresh, CallInv, SlotInv, ApartInv
  <1>3. FreshInv' /\ CurrentInv' /\ SingleInv'
    BY DEF IInv, TypeOK, PairLoad, LoadAt, Fresh, CallInv, FreshInv, StackTop,
           CurrentInv, SingleInv
  <1>4. KernelSpace' /\ RunsInOwnSpace'
    BY DEF IInv, TypeOK, PairLoad, LoadAt, Fresh, CallInv, KernelSpace, RunsInOwnSpace
  <1>5. Transparent'
    BY DEF IInv, TypeOK, PairLoad, LoadAt, Fresh, CallInv, Transparent, Resident,
           Running
  <1>6. TaskVerdict'
    BY DEF IInv, TypeOK, PairLoad, LoadAt, Fresh, CallInv, SingleInv, TaskVerdict
  <1> QED
    BY <1>1, <1>2, <1>3, <1>4, <1>5, <1>6 DEF IInv

\* A pair that fails to load leaves no task resident.
LEMMA PairLoadFailsStep ==
    ASSUME IInv, TypeOK', NEW slot \in Slots, PairLoadFails(slot)
    PROVE  IInv'
  <1>1. CallInv'
    BY DEF IInv, TypeOK, PairLoadFails, LoadAt, CallInv, NoCall
  <1>2. SlotInv' /\ ApartInv'
    BY LoadFacts
    DEF IInv, TypeOK, PairLoadFails, LoadAt, CallInv, SlotInv, ApartInv
  <1>3. FreshInv' /\ CurrentInv' /\ SingleInv'
    BY DEF IInv, TypeOK, PairLoadFails, LoadAt, CallInv, FreshInv, CurrentInv, SingleInv
  <1>4. KernelSpace' /\ RunsInOwnSpace'
    BY DEF IInv, TypeOK, PairLoadFails, LoadAt, CallInv, KernelSpace, RunsInOwnSpace
  <1>5. Transparent'
    BY DEF IInv, TypeOK, PairLoadFails, LoadAt, CallInv, Transparent, Resident, Running
  <1>6. TaskVerdict'
    BY DEF IInv, TypeOK, PairLoadFails, LoadAt, CallInv, SingleInv, TaskVerdict,
           Returned
  <1> QED
    BY <1>1, <1>2, <1>3, <1>4, <1>5, <1>6 DEF IInv

\* A tick inside a slice changes nothing that matters here.
LEMMA TickReturnsStep ==
    ASSUME IInv, TypeOK', TickReturns
    PROVE  IInv'
  <1>1. CallInv'
    BY DEF IInv, TypeOK, TickReturns, CallInv
  <1>2. SlotInv' /\ ApartInv'
    BY DEF IInv, TypeOK, TickReturns, CallInv, SlotInv, ApartInv
  <1>3. FreshInv' /\ CurrentInv' /\ SingleInv'
    BY DEF IInv, TypeOK, TickReturns, CallInv, FreshInv, CurrentInv, SingleInv
  <1>4. KernelSpace' /\ RunsInOwnSpace'
    BY DEF IInv, TypeOK, TickReturns, CallInv, KernelSpace, RunsInOwnSpace
  <1>5. Transparent'
    BY DEF IInv, TypeOK, TickReturns, CallInv, Transparent, Resident, Running
  <1>6. TaskVerdict'
    BY DEF IInv, TypeOK, TickReturns, CallInv, SingleInv, TaskVerdict
  <1> QED
    BY <1>1, <1>2, <1>3, <1>4, <1>5, <1>6 DEF IInv

\* A program's own step is made in its own context.
LEMMA AdvanceStep ==
    ASSUME IInv, TypeOK', NEW rax \in Results, Advance(rax)
    PROVE  IInv'
  <1>1. CallInv'
    BY DEF IInv, TypeOK, Advance, CallInv
  <1>2. SlotInv' /\ ApartInv'
    BY DEF IInv, TypeOK, Advance, CallInv, SlotInv, ApartInv
  <1>3. FreshInv' /\ CurrentInv' /\ SingleInv'
    BY DEF IInv, TypeOK, Advance, CallInv, FreshInv, CurrentInv, SingleInv
  <1>4. KernelSpace' /\ RunsInOwnSpace'
    BY DEF IInv, TypeOK, Advance, CallInv, KernelSpace, RunsInOwnSpace
  <1>5. Transparent'
    BY DEF IInv, TypeOK, Advance, CallInv, Transparent, Resident, Running
  <1>6. TaskVerdict'
    BY DEF IInv, TypeOK, Advance, CallInv, SingleInv, TaskVerdict
  <1> QED
    BY <1>1, <1>2, <1>3, <1>4, <1>5, <1>6 DEF IInv

\* A panic leaves nothing running.
LEMMA PanicStep ==
    ASSUME IInv, TypeOK', InUser, Panic
    PROVE  IInv'
  <1>1. CallInv'
    BY DEF IInv, TypeOK, Panic, CallInv, KernelFrame
  <1>2. SlotInv' /\ ApartInv'
    BY DEF IInv, TypeOK, Panic, CallInv, SlotInv, ApartInv
  <1>3. FreshInv' /\ CurrentInv' /\ SingleInv'
    BY DEF IInv, TypeOK, Panic, CallInv, FreshInv, CurrentInv, SingleInv
  <1>4. KernelSpace' /\ RunsInOwnSpace'
    BY DEF IInv, TypeOK, Panic, CallInv, KernelSpace, RunsInOwnSpace, KernelFrame
  <1>5. Transparent'
    BY DEF IInv, TypeOK, Panic, CallInv, Transparent, Resident, Running, KernelFrame
  <1>6. TaskVerdict'
    BY DEF IInv, TypeOK, Panic, CallInv, SingleInv, TaskVerdict
  <1> QED
    BY <1>1, <1>2, <1>3, <1>4, <1>5, <1>6 DEF IInv

\* A task that exits is recorded as the current one, with its code.
LEMMA SysExitStep ==
    ASSUME IInv, TypeOK', NEW code \in Codes, SysExit(code)
    PROVE  IInv'
  <1>1. CallInv'
    BY DEF IInv, TypeOK, SysExit, LongJmp, Ends, CallInv, KernelFrame
  <1>2. SlotInv' /\ ApartInv'
    BY DEF IInv, TypeOK, SysExit, LongJmp, Ends, CallInv, SlotInv, ApartInv
  <1>3. FreshInv' /\ CurrentInv' /\ SingleInv'
    BY FateFacts
    DEF IInv, TypeOK, SysExit, LongJmp, Ends, CallInv, FreshInv, CurrentInv,
        RunsInOwnSpace, SingleInv
  <1>4. KernelSpace' /\ RunsInOwnSpace'
    BY DEF IInv, TypeOK, SysExit, LongJmp, Ends, CallInv, KernelSpace, RunsInOwnSpace,
           KernelFrame
  <1>5. Transparent'
    BY FateFacts
    DEF IInv, TypeOK, SysExit, LongJmp, Ends, CallInv, Transparent, Resident, Running,
        KernelFrame
  <1>6. TaskVerdict'
    BY DEF IInv, TypeOK, SysExit, LongJmp, Ends, CallInv, SingleInv, TaskVerdict
  <1> QED
    BY <1>1, <1>2, <1>3, <1>4, <1>5, <1>6 DEF IInv

\* A task that faults is recorded as the current one.
LEMMA PageFaultStep ==
    ASSUME IInv, TypeOK', NEW v \in Vectors, PageFault(v)
    PROVE  IInv'
  <1>1. CallInv'
    BY DEF IInv, TypeOK, PageFault, LongJmp, Ends, CallInv, KernelFrame
  <1>2. SlotInv' /\ ApartInv'
    BY DEF IInv, TypeOK, PageFault, LongJmp, Ends, CallInv, SlotInv, ApartInv
  <1>3. FreshInv' /\ CurrentInv' /\ SingleInv'
    BY FateFacts
    DEF IInv, TypeOK, PageFault, LongJmp, Ends, CallInv, FreshInv, CurrentInv,
        RunsInOwnSpace, SingleInv
  <1>4. KernelSpace' /\ RunsInOwnSpace'
    BY DEF IInv, TypeOK, PageFault, LongJmp, Ends, CallInv, KernelSpace, RunsInOwnSpace,
           KernelFrame
  <1>5. Transparent'
    BY FateFacts
    DEF IInv, TypeOK, PageFault, LongJmp, Ends, CallInv, Transparent, Resident, Running,
        KernelFrame
  <1>6. TaskVerdict'
    BY DEF IInv, TypeOK, PageFault, LongJmp, Ends, CallInv, SingleInv, TaskVerdict
  <1> QED
    BY <1>1, <1>2, <1>3, <1>4, <1>5, <1>6 DEF IInv

\* The verdict on a single task is the one recorded when it ended.
LEMMA AwaitTaskStep ==
    ASSUME IInv, TypeOK', AwaitTask
    PROVE  IInv'
  <1>1. CallInv'
    BY DEF IInv, TypeOK, AwaitTask, RestoreCr3, CallInv, NoCall
  <1>2. SlotInv' /\ ApartInv'
    BY DEF IInv, TypeOK, AwaitTask, RestoreCr3, CallInv, SlotInv, ApartInv
  <1>3. FreshInv' /\ CurrentInv' /\ SingleInv'
    BY DEF IInv, TypeOK, AwaitTask, RestoreCr3, CallInv, FreshInv, CurrentInv, SingleInv
  <1>4. KernelSpace' /\ RunsInOwnSpace'
    BY DEF IInv, TypeOK, AwaitTask, RestoreCr3, CallInv, KernelSpace, RunsInOwnSpace
  <1>5. Transparent'
    BY DEF IInv, TypeOK, AwaitTask, RestoreCr3, CallInv, Transparent, Resident, Running
  <1>6. TaskVerdict'
    BY DEF IInv, TypeOK, AwaitTask, RestoreCr3, CallInv, SingleInv, TaskVerdict,
           Returned, TASK_END_EXIT, TASK_END_FAULT
  <1> QED
    BY <1>1, <1>2, <1>3, <1>4, <1>5, <1>6 DEF IInv

\* The end of a pair puts the kernel's page tables back.
LEMMA AwaitPairReturnsStep ==
    ASSUME IInv, TypeOK', AwaitPairReturns
    PROVE  IInv'
  <1>1. CallInv'
    BY DEF IInv, TypeOK, AwaitPairReturns, RestoreCr3, CallInv, NoCall
  <1>2. SlotInv' /\ ApartInv'
    BY DEF IInv, TypeOK, AwaitPairReturns, RestoreCr3, CallInv, SlotInv, ApartInv
  <1>3. FreshInv' /\ CurrentInv' /\ SingleInv'
    BY DEF IInv, TypeOK, AwaitPairReturns, RestoreCr3, CallInv, FreshInv, CurrentInv,
           SingleInv
  <1>4. KernelSpace' /\ RunsInOwnSpace'
    BY DEF IInv, TypeOK, AwaitPairReturns, RestoreCr3, CallInv, KernelSpace,
           RunsInOwnSpace
  <1>5. Transparent'
    BY DEF IInv, TypeOK, AwaitPairReturns, RestoreCr3, CallInv, Transparent, Resident,
           Running
  <1>6. TaskVerdict'
    BY DEF IInv, TypeOK, AwaitPairReturns, RestoreCr3, CallInv, SingleInv, TaskVerdict,
           Returned
  <1> QED
    BY <1>1, <1>2, <1>3, <1>4, <1>5, <1>6 DEF IInv

\* The first entry into ring 3: the frame made up for slot 0 is not the one the
\* program starts with (that one has the arguments), but slot 0 is running.
LEMMA EnterTaskStep ==
    ASSUME IInv, TypeOK', EnterTask
    PROVE  IInv'
  <1>1. /\ ~ tcb_started[0]
        /\ tcb_frame'[0] = UserContext(g_entry[0], g_stktop[0])
        /\ tcb_frame'[1] = tcb_frame[1]
        /\ tcb_started'[0] /\ tcb_started'[1] = tcb_started[1]
    BY MarkStartFacts DEF IInv, TypeOK, EnterTask, CallInv, FreshInv
  <1>2. regs' = UserContext(g_entry[0], call.sp) /\ kpc = "enter" /\ kpc' = "await"
    BY DEF EnterTask
  <1>3. CallInv'
    BY <1>2 DEF IInv, EnterTask, CallInv, UserContext
  <1>4. SlotInv'
    BY <1>1, <1>2 DEF IInv, TypeOK, EnterTask, CallInv, SlotInv, UserContext
  <1>5. ApartInv'
    BY DEF IInv, EnterTask, ApartInv
  <1>6. FreshInv' /\ SingleInv'
    BY <1>2 DEF IInv, EnterTask, CallInv, FreshInv, SingleInv
  <1>7. CurrentInv'
    BY <1>1, <1>2 DEF IInv, EnterTask, CallInv, CurrentInv
  <1>8. KernelSpace'
    BY <1>2 DEF IInv, EnterTask, KernelSpace
  <1>9. RunsInOwnSpace'
    BY <1>2 DEF IInv, TypeOK, EnterTask, CallInv, SlotInv, ApartInv, RunsInOwnSpace, UserContext,
           NoPage
  <1>10. Transparent'
    BY <1>1, <1>2, <1>3 DEF IInv, TypeOK, EnterTask, CallInv, SlotInv, FreshInv, Transparent, Resident,
           Running, StackTop
  <1>11. TaskVerdict'
    BY <1>2 DEF IInv, EnterTask, CallInv, TaskVerdict
  <1> QED
    BY <1>3, <1>4, <1>5, <1>6, <1>7, <1>8, <1>9, <1>10, <1>11 DEF IInv

\* Ending a slice: with one resident task the frame just saved is resumed, with two
\* the other slot's.
LEMMA TickSwitchesStep ==
    ASSUME IInv, TypeOK', TickSwitches
    PROVE  IInv'
  <1> DEFINE next == NextSlot
             saved == [tcb_frame EXCEPT ![g_cur] = regs]
  <1>1. /\ kpc = "await" /\ kpc' = "await" /\ regs.cs = 3
        /\ tcb_started[g_cur]
        /\ regs.entry = g_entry[g_cur]
    BY DEF IInv, TypeOK, TickSwitches, SliceOver, Charged, CallInv, CurrentInv, SlotInv,
           RunsInOwnSpace
  <1>2. \/ g_ntasks = 1 /\ g_cur = 0 /\ next = 0
        \/ g_ntasks = 2 /\ next = 1 - g_cur
    BY <1>1 DEF IInv, TypeOK, CallInv, NextSlot
  <1>3. next \in Slots
    BY <1>2 DEF IInv, TypeOK
  <1>4. /\ saved \in [Slots -> Contexts]
        /\ saved[g_cur] = regs
        /\ next # g_cur => saved[next] = tcb_frame[next]
    BY <1>3 DEF IInv, TypeOK
  <1>5. /\ tcb_frame'[g_cur] = regs
        /\ next # g_cur => tcb_frame'[next] =
               IF tcb_started[next] THEN tcb_frame[next]
                                    ELSE UserContext(g_entry[next], g_stktop[next])
    <2>1. tcb_frame' = MarkStart(saved, next)
      BY DEF TickSwitches
    <2>2. TypeOK /\ g_cur \in Slots
      BY DEF IInv, TypeOK
    <2> HIDE DEF saved, next
    <2> QED
      BY <1>1, <1>3, <1>4, <2>1, <2>2, MarkStartFacts
  <1>6. /\ g_cur' = next /\ regs' = tcb_frame'[next] /\ cr3' = tcb_cr3[next]
        /\ tcb_started'[g_cur] /\ tcb_started'[next]
        /\ UNCHANGED <<vmm_bump, sam_kernel_cr3, tcb_cr3, g_entry, g_stktop, g_ntasks,
                       g_end_idx, g_exit_code, g_task_end_reason, call, result, ctx, fate>>
    BY <1>1, <1>3 DEF IInv, TypeOK, TickSwitches, Resume
  <1> HIDE DEF next, saved
  <1>7. regs'.cs = 3 /\ regs'.entry = g_entry[next]
    BY <1>1, <1>2, <1>3, <1>5, <1>6 DEF IInv, TypeOK, CallInv, SlotInv, UserContext
  <1>8. CallInv'
    BY <1>1, <1>2, <1>6, <1>7 DEF IInv, CallInv
  <1>9. SlotInv'
    BY <1>1, <1>2, <1>5, <1>6, <1>7 DEF IInv, TypeOK, CallInv, SlotInv
  <1>10. ApartInv' /\ FreshInv' /\ KernelSpace' /\ TaskVerdict'
    BY <1>1, <1>6 DEF IInv, ApartInv, FreshInv, KernelSpace, TaskVerdict
  <1>11. CurrentInv' /\ SingleInv'
    BY <1>1, <1>6 DEF IInv, CurrentInv, SingleInv
  <1>12. RunsInOwnSpace'
    BY <1>1, <1>2, <1>3, <1>6, <1>7
    DEF IInv, TypeOK, CallInv, SlotInv, RunsInOwnSpace, NoPage
  <1>13. Transparent'
    <2> SUFFICES ASSUME NEW i \in Slots, Resident(i)', fate[i] = Live
                 PROVE  CASE Running(i)' -> regs' = ctx[i]
                          [] ~ Running(i)' /\ tcb_started'[i] -> tcb_frame'[i] = ctx[i]
                          [] OTHER -> ctx[i] = UserContext(g_entry[i], g_stktop[i])
      BY <1>6 DEF Transparent
    <2>1. Resident(i) /\ (Running(i)' <=> i = next) /\ (Running(i) <=> i = g_cur)
      BY <1>1, <1>6, <1>7 DEF Resident, Running
    <2>2. CASE i = g_cur
      <3>1. tcb_frame'[i] = ctx[i]
        BY <1>5, <2>1, <2>2 DEF IInv, Transparent
      <3> QED
        BY <1>6, <2>1, <2>2, <3>1
    <2>3. CASE i # g_cur
      <3>1. i = next
        BY <1>2, <2>1, <2>3 DEF IInv, TypeOK, Resident
      <3>2. regs' = ctx[i]
        BY <1>5, <1>6, <2>1, <2>3, <3>1 DEF IInv, Transparent
      <3> QED
        BY <2>1, <3>1, <3>2
    <2> QED
      BY <2>2, <2>3
  <1> QED
    BY <1>8, <1>9, <1>10, <1>11, <1>12, <1>13 DEF IInv

\* After one of a pair has ended the other slot is put back.
LEMMA AwaitPairResumesStep ==
    ASSUME IInv, TypeOK', AwaitPairResumes
    PROVE  IInv'
  <1> DEFINE other == 1 - g_end_idx
  <1>1. /\ kpc = "ended" /\ kpc' = "await" /\ call.kind = "pair" /\ g_ntasks = 2
        /\ g_end_idx = g_cur /\ fate[g_cur] # Live
        /\ other \in Slots /\ other # g_cur
    BY DEF IInv, TypeOK, AwaitPairResumes, CallInv, CurrentInv
  <1>2. /\ tcb_frame'[g_cur] = tcb_frame[g_cur]
        /\ tcb_frame'[other] = IF tcb_started[other]
                                 THEN tcb_frame[other]
                                 ELSE UserContext(g_entry[other], g_stktop[other])
    BY <1>1, MarkStartFacts DEF IInv, TypeOK, AwaitPairResumes
  <1>3. /\ g_cur' = other /\ regs' = tcb_frame'[other] /\ cr3' = tcb_cr3[other]
        /\ tcb_started'[other] /\ tcb_started'[g_cur] = tcb_started[g_cur]
        /\ UNCHANGED <<vmm_bump, sam_kernel_cr3, tcb_cr3, g_entry, g_stktop, g_ntasks,
                       g_end_idx, g_exit_code, g_task_end_reason, call, result, ctx, fate>>
    BY <1>1 DEF IInv, TypeOK, AwaitPairResumes, Resume
  <1> HIDE DEF other
  <1>4. regs'.cs = 3 /\ regs'.entry = g_entry[other]
    BY <1>1, <1>2, <1>3 DEF IInv, TypeOK, SlotInv, UserContext
  <1>5. CallInv'
    BY <1>1, <1>3, <1>4 DEF IInv, CallInv
  <1>6. SlotInv'
    BY <1>1, <1>2, <1>3, <1>4 DEF IInv, TypeOK, SlotInv
  <1>7. ApartInv' /\ FreshInv' /\ KernelSpace' /\ TaskVerdict'
    BY <1>1, <1>3 DEF IInv, ApartInv, FreshInv, KernelSpace, TaskVerdict
  <1>8. CurrentInv' /\ SingleInv'
    BY <1>1, <1>3 DEF IInv, CurrentInv, SingleInv
  <1>9. RunsInOwnSpace'
    BY <1>1, <1>3, <1>4 DEF IInv, TypeOK, SlotInv, RunsInOwnSpace, NoPage
  <1>10. Transparent'
    <2> SUFFICES ASSUME NEW i \in Slots, Resident(i)', fate[i] = Live
                 PROVE  CASE Running(i)' -> regs' = ctx[i]
                          [] ~ Running(i)' /\ tcb_started'[i] -> tcb_frame'[i] = ctx[i]
                          [] OTHER -> ctx[i] = UserContext(g_entry[i], g_stktop[i])
      BY <1>3 DEF Transparent
    <2>1. i = other /\ Resident(i) /\ Running(i)' /\ ~ Running(i)
      BY <1>1, <1>3, <1>4 DEF IInv, TypeOK, CallInv, Resident, Running
    <2>2. regs' = ctx[i]
      BY <1>2, <1>3, <2>1 DEF IInv, Transparent
    <2> QED
      BY <2>1, <2>2
  <1> QED
    BY <1>5, <1>6, <1>7, <1>8, <1>9, <1>10 DEF IInv

------------------------------------------------------------------------------
(***************************************************************************)
(* sam_run_task implements TaskService                                     *)
(***************************************************************************)

\* What a reason amounts to.
LEMMA ReportedFacts ==
    /\ Reported(TASK_END_NONE) = Service!Nothing
    /\ Reported(-1) = [how |-> "refused", code |-> 0]
    /\ Reported(TASK_END_EXIT) = [how |-> "exit", code |-> g_exit_code]
    /\ Reported(TASK_END_FAULT) = [how |-> "fault", code |-> 0]
  BY DEF Reported, Service!Nothing, TASK_END_NONE, TASK_END_EXIT, TASK_END_FAULT

\* What the mapping shows while no single task runs, and while a run is in progress.
LEMMA IdleView ==
    /\ ~ Single => phase = "idle" /\ prog = Service!NoProgram /\ verdict = Service!Nothing
    /\ result.kind # "task" => outcome = Service!Nothing
  <1>1. Registers(KernelFrame) = Service!NoProgram
    BY DEF Registers, KernelFrame, Service!NoProgram
  <1>2. ASSUME ~ Single
        PROVE  phase = "idle" /\ prog = Service!NoProgram /\ verdict = Service!Nothing
    BY <1>1, <1>2, ReportedFacts DEF phase, prog, verdict
  <1>3. ASSUME result.kind # "task"
        PROVE  outcome = Service!Nothing
    BY <1>3, ReportedFacts DEF outcome
  <1> QED
    BY <1>2, <1>3

\* What it shows of a single task.
LEMMA SingleView ==
    ASSUME Single
    PROVE  /\ kpc = "enter" => /\ phase = "running" /\ verdict = Service!Nothing
                               /\ prog = Registers(UserContext(g_entry[0], call.sp))
           /\ kpc = "await" => /\ phase = "running" /\ verdict = Service!Nothing
                               /\ prog = Registers(regs)
           /\ kpc = "ended" => /\ phase = "over" /\ verdict = Reported(g_task_end_reason)
                               /\ prog = Service!NoProgram
           /\ kpc = "panic" => /\ phase = "halted" /\ verdict = Service!Nothing
                               /\ prog = Service!NoProgram
  <1>1. Registers(KernelFrame) = Service!NoProgram
    BY DEF Registers, KernelFrame, Service!NoProgram
  <1> QED
    BY <1>1, ReportedFacts DEF phase, prog, verdict

\* Steps outside a single task's run stutter as long as the outcome stays.
LEMMA QuietStep ==
    ASSUME ~ Single, ~ Single', outcome' = outcome
    PROVE  UNCHANGED Service!vars
  <1>1. (~ Single => phase = "idle" /\ prog = Service!NoProgram /\ verdict = Service!Nothing)'
    BY IdleView, PTL
  <1> QED
    BY <1>1, IdleView DEF Service!vars, Service!NoProgram, Service!Nothing

\* A timer tick that ends the slice of the only task resumes it where it was.
LEMMA SwitchToSelf ==
    ASSUME IInv, TickSwitches, Single
    PROVE  regs' = regs /\ kpc = "await" /\ kpc' = "await"
  <1>1. /\ kpc = "await" /\ kpc' = "await" /\ g_ntasks = 1 /\ g_cur = 0 /\ tcb_started[0]
    BY DEF IInv, TypeOK, TickSwitches, SliceOver, Charged, CallInv, CurrentInv, Single
  <1>2. NextSlot = 0
    BY <1>1 DEF NextSlot
  <1>3. [tcb_frame EXCEPT ![0] = regs] \in [Slots -> Contexts] /\ TypeOK
    BY DEF IInv, TypeOK
  <1>4. MarkStart([tcb_frame EXCEPT ![0] = regs], 0)[0] = regs
    BY <1>1, <1>3 DEF MarkStart, IInv, TypeOK
  <1> QED
    BY <1>1, <1>2, <1>4 DEF TickSwitches, Resume

\* The steps of a single task's run, one after the other: each is a step of the
\* service or a stutter.
LEMMA StartStep ==
    ASSUME IInv, IInv', NEW f \in Files, NEW sp \in {"top0", "argv0"}, RunTask(f, sp)
    PROVE  Service!Start
  <1>1. /\ ~ Single /\ Single' /\ kpc' = "enter" /\ result'.kind = "none"
        /\ g_entry'[0] = f /\ call'.sp = sp
    BY DEF IInv, TypeOK, CallInv, RunTask, Single, Returned
  <1>2. (Single /\ kpc = "enter" => /\ phase = "running" /\ verdict = Service!Nothing
                                    /\ prog = Registers(UserContext(g_entry[0], call.sp)))'
    BY SingleView, PTL
  <1>3. (result.kind # "task" => outcome = Service!Nothing)'
    BY IdleView, PTL
  <1>4. prog' = [entry |-> f, sp |-> sp, pos |-> 0, rax |-> "none"]
    BY <1>1, <1>2 DEF Registers, UserContext
  <1> QED
    BY <1>1, <1>2, <1>3, <1>4, IdleView DEF Service!Start, Service!Nothing

LEMMA RefuseStep ==
    ASSUME IInv, NEW f \in Files, RunTaskFails(f)
    PROVE  Service!Refuse
  <1>1. /\ ~ Single /\ ~ Single' /\ result'.kind = "task" /\ result'.value = -1
    BY DEF IInv, CallInv, RunTaskFails, Single, Returned
  <1>2. (~ Single => phase = "idle" /\ prog = Service!NoProgram /\ verdict = Service!Nothing)'
    BY IdleView, PTL
  <1>3. outcome' = Reported(-1)'
    BY <1>1 DEF outcome
  <1>4. (Reported(-1) = [how |-> "refused", code |-> 0])'
    BY ReportedFacts, PTL
  <1> QED
    BY <1>1, <1>2, <1>3, <1>4, IdleView DEF Service!Refuse, Service!NoProgram, Service!Nothing

LEMMA ForgetStep ==
    ASSUME IInv, NEW p \in Pairs, RunPair(p[1], p[2])
    PROVE  Service!Forget
  <1>1. /\ ~ Single /\ ~ Single' /\ result'.kind = "none"
    BY DEF IInv, CallInv, RunPair, Single, Returned
  <1>2. (/\ ~ Single => phase = "idle" /\ prog = Service!NoProgram /\ verdict = Service!Nothing
         /\ result.kind # "task" => outcome = Service!Nothing)'
    BY IdleView, PTL
  <1> QED
    BY <1>1, <1>2, IdleView DEF Service!Forget, Service!NoProgram, Service!Nothing

LEMMA InstructionStep ==
    ASSUME IInv, IInv', Single, NEW rax \in {regs.rax, "ok", "error"}, Advance(rax)
    PROVE  Service!Step
  <1>1. /\ Single' /\ kpc = "await" /\ kpc' = "await" /\ result' = result
        /\ result.kind = "none"
    BY DEF IInv, CallInv, Advance, Single
  <1>2. /\ regs.pos < MaxPos
        /\ regs' = [regs EXCEPT !.pos = @ + 1, !.rax = rax] /\ regs \in Contexts
    BY DEF IInv, TypeOK, Advance
  <1>3. (Single /\ kpc = "await" => /\ phase = "running" /\ verdict = Service!Nothing
                                    /\ prog = Registers(regs))'
    BY SingleView, PTL
  <1>4. (result.kind # "task" => outcome = Service!Nothing)'
    BY IdleView, PTL
  <1>5. prog = Registers(regs)
    BY <1>1, SingleView
  <1>6. prog' = Registers(regs)'
    BY <1>1, <1>3
  <1>7. /\ regs'.entry = regs.entry /\ regs'.sp = regs.sp /\ regs'.pos = regs.pos + 1
        /\ regs'.rax = rax
    BY <1>2 DEF Contexts
  <1>8. /\ prog.pos = regs.pos /\ prog.rax = regs.rax
        /\ prog' = [prog EXCEPT !.pos = @ + 1, !.rax = rax]
    <2>1. Registers(regs).pos = regs.pos /\ Registers(regs).rax = regs.rax
      BY DEF Registers
    <2>2. [Registers(regs) EXCEPT !.pos = @ + 1, !.rax = rax] =
              [entry |-> regs.entry, sp |-> regs.sp, pos |-> regs.pos + 1, rax |-> rax]
      <3> DEFINE moved == [Registers(regs) EXCEPT !.pos = @ + 1]
      <3>1. moved = [entry |-> regs.entry, sp |-> regs.sp, pos |-> regs.pos + 1, rax |-> regs.rax]
        BY DEF Registers
      <3>2. [moved EXCEPT !.rax = rax] =
                [entry |-> regs.entry, sp |-> regs.sp, pos |-> regs.pos + 1, rax |-> rax]
        <4> HIDE DEF moved
        <4> QED
          BY <3>1
      <3>3. [Registers(regs) EXCEPT !.pos = @ + 1, !.rax = rax] = [moved EXCEPT !.rax = rax]
        OBVIOUS
      <3> QED
        BY <3>2, <3>3
    <2>3. Registers(regs)' =
              [entry |-> regs.entry, sp |-> regs.sp, pos |-> regs.pos + 1, rax |-> rax]
      BY <1>7 DEF Registers
    <2> QED
      BY <1>5, <1>6, <2>1, <2>2, <2>3
  <1> QED
    BY <1>1, <1>2, <1>3, <1>4, <1>8, IdleView, SingleView DEF Service!Step, Service!Nothing

LEMMA HaltStep ==
    ASSUME IInv, IInv', Single, InUser, Panic
    PROVE  Service!Halt
  <1>1. /\ Single' /\ kpc = "await" /\ kpc' = "panic" /\ result' = result
        /\ result.kind = "none"
    BY DEF IInv, CallInv, Panic, Single
  <1>2. (Single /\ kpc = "panic" => /\ phase = "halted" /\ verdict = Service!Nothing
                                    /\ prog = Service!NoProgram)'
    BY SingleView, PTL
  <1>3. (result.kind # "task" => outcome = Service!Nothing)'
    BY IdleView, PTL
  <1> QED
    BY <1>1, <1>2, <1>3, IdleView, SingleView DEF Service!Halt, Service!Nothing, Service!NoProgram

LEMMA EndStep ==
    ASSUME IInv, IInv', Single, InUser, LongJmp,
           \/ g_task_end_reason' = TASK_END_EXIT /\ g_exit_code' \in Codes
           \/ g_task_end_reason' = TASK_END_FAULT
    PROVE  Service!End
  <1>1. /\ Single' /\ kpc = "await" /\ kpc' = "ended" /\ result' = result
        /\ result.kind = "none"
    BY DEF IInv, CallInv, LongJmp, Single
  <1>2. (Single /\ kpc = "ended" => /\ phase = "over" /\ verdict = Reported(g_task_end_reason)
                                    /\ prog = Service!NoProgram)'
    BY SingleView, PTL
  <1>3. (result.kind # "task" => outcome = Service!Nothing)'
    BY IdleView, PTL
  <1>4. (/\ Reported(TASK_END_EXIT) = [how |-> "exit", code |-> g_exit_code]
         /\ Reported(TASK_END_FAULT) = [how |-> "fault", code |-> 0])'
    BY ReportedFacts, PTL
  <1>5. verdict' \in Service!Verdicts
    <2>1. verdict' = Reported(g_task_end_reason)'
      BY <1>1, <1>2
    <2>2. CASE g_task_end_reason' = TASK_END_EXIT /\ g_exit_code' \in Codes
      <3>1. verdict' = [how |-> "exit", code |-> g_exit_code']
        BY <2>1, <2>2, <1>4 DEF Reported
      <3> QED
        BY <3>1, <2>2 DEF Service!Verdicts
    <2>3. CASE g_task_end_reason' = TASK_END_FAULT
      BY <2>1, <2>3, <1>4 DEF Service!Verdicts, Reported
    <2> QED
      BY <2>2, <2>3
  <1> QED
    BY <1>1, <1>2, <1>3, <1>5, IdleView, SingleView DEF Service!End, Service!Nothing, Service!NoProgram

LEMMA ReturnStep ==
    ASSUME IInv, IInv', AwaitTask
    PROVE  Service!Return
  <1>1. /\ Single /\ ~ Single' /\ kpc = "ended"
        /\ result' = Returned("task", g_task_end_reason) /\ g_exit_code' = g_exit_code
    BY DEF AwaitTask, Single, NoCall
  <1>2. (~ Single => phase = "idle" /\ prog = Service!NoProgram /\ verdict = Service!Nothing)'
    BY IdleView, PTL
  <1>3. outcome' = Reported(g_task_end_reason)
    BY <1>1 DEF outcome, Reported, Returned
  <1> QED
    BY <1>1, <1>2, <1>3, SingleView DEF Service!Return, Service!Nothing, Service!NoProgram

\* Every step maps to a step of the service or to a stutter.
LEMMA ServiceStep ==
    ASSUME IInv, IInv', [Next]_vars
    PROVE  [Service!Next]_(Service!vars)
  <1> USE DEF Service!Next
  <1>1. (result.kind # "task" => outcome = Service!Nothing)'
    BY IdleView, PTL
  <1>2. ASSUME ~ Single, ~ Single', result.kind # "task", result'.kind # "task"
        PROVE  UNCHANGED Service!vars
    BY <1>1, <1>2, IdleView, QuietStep DEF Service!Nothing
  <1>3. CASE UNCHANGED vars
    BY <1>3 DEF vars, Service!vars, phase, prog, verdict, outcome, Reported, Registers, Single
  <1>4. CASE Start
    BY <1>4, StartStep, RefuseStep, ForgetStep DEF Start
  <1>5. ASSUME NEW slot \in Slots, PairLoad(slot) \/ PairLoadFails(slot)
        PROVE  UNCHANGED Service!vars
    <2>1. ~ Single /\ ~ Single' /\ result.kind # "task" /\ result'.kind # "task"
      BY <1>5 DEF PairLoad, PairLoadFails, LoadAt, IInv, CallInv, Single, NoCall, Returned
    <2> QED
      BY <1>2, <2>1
  <1>6. CASE AwaitPairResumes \/ AwaitPairReturns
    <2>1. ~ Single /\ ~ Single' /\ result.kind # "task" /\ result'.kind # "task"
      BY <1>6 DEF AwaitPairResumes, AwaitPairReturns, IInv, CallInv, Single, NoCall, Returned
    <2> QED
      BY <1>2, <2>1
  <1>7. CASE AwaitTask
    BY <1>7, ReturnStep
  <1>8. CASE EnterTask
    <2>1. /\ kpc = "enter" /\ kpc' = "await" /\ call' = call /\ result' = result
          /\ regs' = UserContext(g_entry[0], call.sp) /\ result.kind = "none"
      BY <1>8 DEF EnterTask, IInv, CallInv
    <2>2. CASE Single
      <3>1. (Single /\ kpc = "await" => /\ phase = "running" /\ verdict = Service!Nothing
                                        /\ prog = Registers(regs))'
        BY SingleView, PTL
      <3> QED
        BY <1>1, <2>1, <2>2, <3>1, SingleView, IdleView
        DEF Single, Service!vars, Service!Nothing, Registers
    <2>3. CASE ~ Single
      BY <1>2, <2>1, <2>3 DEF Single
    <2> QED
      BY <2>2, <2>3
  <1>9. CASE TickReturns
    BY <1>9 DEF TickReturns, Service!vars, phase, prog, verdict, outcome, Reported, Registers, Single
  <1>10. CASE TickSwitches
    <2>1. /\ call' = call /\ result' = result /\ kpc' = kpc /\ g_entry' = g_entry
          /\ g_exit_code' = g_exit_code /\ g_task_end_reason' = g_task_end_reason
      BY <1>10 DEF TickSwitches
    <2>2. CASE Single
      BY <1>10, <2>1, <2>2, SwitchToSelf
      DEF Service!vars, phase, prog, verdict, outcome, Reported, Registers, Single
    <2>3. CASE ~ Single
      <3>1. outcome' = outcome /\ ~ Single'
        BY <2>1, <2>3 DEF outcome, Reported, Single
      <3> QED
        BY <2>3, <3>1, QuietStep
    <2> QED
      BY <2>2, <2>3
  <1>11. CASE Program
    <2>1. kpc = "await" /\ result.kind = "none" /\ result' = result /\ call' = call
      BY <1>11
      DEF Program, Instruction, SysWrite, SysRead, SysUnknown, ProgramEnds, OtherException,
          Advance, Panic, SysExit, PageFault, LongJmp, IInv, CallInv
    <2>2. CASE ~ Single
      BY <1>2, <2>1, <2>2 DEF Single
    <2>3. CASE Single
      <3>1. ASSUME NEW code \in Codes, SysExit(code)
            PROVE  Service!End
        BY <2>3, <3>1, EndStep DEF SysExit
      <3>2. ASSUME NEW v \in Vectors, PageFault(v)
            PROVE  Service!End
        BY <2>3, <3>2, EndStep DEF PageFault
      <3> QED
        BY <1>11, <2>3, <3>1, <3>2, InstructionStep, HaltStep
        DEF Program, Instruction, SysWrite, SysRead, SysUnknown, ProgramEnds, OtherException
    <2> QED
      BY <2>2, <2>3
  <1> QED
    BY <1>3, <1>4, <1>5, <1>6, <1>7, <1>8, <1>9, <1>10, <1>11 DEF Next, Kernel, Tick

------------------------------------------------------------------------------
(***************************************************************************)
(* Theorems                                                                *)
(***************************************************************************)

\* The machine starts in the invariant.
LEMMA InitInv == Init => IInv
  <1> SUFFICES ASSUME Init PROVE IInv
    OBVIOUS
  <1>1. TypeOK
    <2>1. NoCall \in Calls /\ KernelFrame \in Contexts /\ Live \in Fates
      BY ContextFacts, FateFacts DEF NoCall, Calls, Stacks
    <2> QED
      BY <2>1, PoolAssumption, TaskAssumptions DEF Init, TypeOK, Kpcs, Stacks, Returned
  <1>2. CallInv /\ SlotInv /\ ApartInv /\ FreshInv /\ CurrentInv /\ SingleInv
    BY DEF Init, CallInv, SlotInv, ApartInv, FreshInv, CurrentInv, SingleInv, KernelFrame, NoCall,
           Returned
  <1>3. KernelSpace /\ RunsInOwnSpace /\ Transparent /\ TaskVerdict
    BY DEF Init, KernelSpace, RunsInOwnSpace, Transparent, Resident, TaskVerdict, KernelFrame,
           Returned
  <1> QED
    BY <1>1, <1>2, <1>3 DEF IInv

\* Every step keeps it.
LEMMA InvStep == IInv /\ [Next]_vars => IInv'
  <1> SUFFICES ASSUME IInv, [Next]_vars PROVE IInv'
    OBVIOUS
  <1>1. TypeOK'
    BY TypeStep DEF IInv
  <1>2. CASE UNCHANGED vars
    BY <1>2 DEF vars, IInv, TypeOK, CallInv, SlotInv, ApartInv, FreshInv, CurrentInv, SingleInv,
           KernelSpace, RunsInOwnSpace, Transparent, Resident, Running, TaskVerdict
  <1>3. CASE Start
    BY <1>1, <1>3, RunTaskStep, RunTaskFailsStep, RunPairStep DEF Start
  <1>4. CASE Kernel
    BY <1>1, <1>4, PairLoadStep, PairLoadFailsStep, EnterTaskStep, AwaitTaskStep,
       AwaitPairResumesStep, AwaitPairReturnsStep
    DEF Kernel
  <1>5. CASE Tick
    BY <1>1, <1>5, TickReturnsStep, TickSwitchesStep DEF Tick
  <1>6. CASE Program
    <2>1. regs.rax \in Results /\ {"ok", "error"} \subseteq Results
      BY DEF IInv, TypeOK, Contexts, Results
    <2> QED
      BY <1>1, <1>6, <2>1, AdvanceStep, PanicStep, SysExitStep, PageFaultStep
      DEF Program, Instruction, SysWrite, SysRead, SysUnknown, ProgramEnds, OtherException
  <1> QED
    BY <1>2, <1>3, <1>4, <1>5, <1>6 DEF Next

\* IInv holds in every reachable state.
THEOREM Invariance == Spec => []IInv
  BY InitInv, InvStep, PTL DEF Spec

\* The kernel's variables keep their types: the timer interrupt never indexes the task
\* table out of bounds, and a slice never lasts longer than SAM_QUANTUM_TICKS.
THEOREM TypeCorrect == Spec => []TypeOK
  <1>1. IInv => TypeOK
    BY DEF IInv
  <1> QED
    BY <1>1, Invariance, PTL

\* The kernel always comes back to its own page tables.
THEOREM KernelSpaceKept == Spec => []KernelSpace
  <1>1. IInv => KernelSpace
    BY DEF IInv
  <1> QED
    BY <1>1, Invariance, PTL

\* Ring 3 only ever runs the program of slot g_cur in that slot's page tables.
THEOREM OwnSpaceKept == Spec => []RunsInOwnSpace
  <1>1. IInv => RunsInOwnSpace
    BY DEF IInv
  <1> QED
    BY <1>1, Invariance, PTL

\* Preemption is invisible to a program that has not ended.
THEOREM PreemptionTransparent == Spec => []Transparent
  <1>1. IInv => Transparent
    BY DEF IInv
  <1> QED
    BY <1>1, Invariance, PTL

\* sam_run_task reports how the program it ran ended.
THEOREM VerdictCorrect == Spec => []TaskVerdict
  <1>1. IInv => TaskVerdict
    BY DEF IInv
  <1> QED
    BY <1>1, Invariance, PTL

\* sam_run_task implements the service: whatever the timer does, the program it runs
\* executes each of its instructions once and in order, and its caller learns how it
\* ended and with which code.
THEOREM ServiceImplemented == Spec => ServiceSpec
  <1>1. Init => Service!Init
    BY IdleView DEF Init, Single, NoCall, Returned, Service!Init
  <1>2. IInv /\ IInv' /\ [Next]_vars => [Service!Next]_(Service!vars)
    BY ServiceStep
  <1> QED
    BY <1>1, <1>2, Invariance, PTL DEF Spec, ServiceSpec, Service!Spec
------------------------------------------------------------------------------
(***************************************************************************)
(* sam_run_pair                                                            *)
(***************************************************************************)

InPair == call.kind = "pair" /\ Busy

\* Slot i is one sam_run_pair has counted, or the one that has just ended.
Noticed(i) == ended[i] \/ (kpc = "ended" /\ i = g_end_idx)
Counted(i) == IF ended[i] /\ fate[i].how = "exit" THEN 1 ELSE 0

\* sam_run_pair has counted the tasks that ended and no other, and clean misses none
\* of their exits; the end it has not counted yet is the one g_task_end_reason tells.
PairInv ==
    InPair =>
        /\ kpc = "enter" => ~ ended[0] /\ ~ ended[1]
        /\ \A i \in Slots : Noticed(i) <=> fate[i] # Live
        /\ kpc = "ended" /\ ~ ended[g_end_idx] /\ fate[g_end_idx].how = "exit" =>
               g_task_end_reason = TASK_END_EXIT
        /\ Counted(0) + Counted(1) <= clean

\* The size of a set of slots, as a sum.
LEMMA SlotsCardinality ==
    ASSUME NEW S \in SUBSET Slots
    PROVE  Cardinality(S) = (IF 0 \in S THEN 1 ELSE 0) + (IF 1 \in S THEN 1 ELSE 0)
  <1>1. Cardinality({}) = 0
    BY FS_EmptySet
  <1>2. Cardinality({0}) = 1 /\ Cardinality({1}) = 1 /\ IsFiniteSet({0})
    BY FS_Singleton
  <1>3. Cardinality({0} \cup {1}) = 2
    BY <1>2, FS_AddElement
  <1>4. CASE S = {}
    BY <1>1, <1>4
  <1>5. CASE S = {0}
    BY <1>2, <1>5
  <1>6. CASE S = {1}
    BY <1>2, <1>6
  <1>7. CASE S = {0} \cup {1}
    BY <1>3, <1>7
  <1> QED
    BY <1>4, <1>5, <1>6, <1>7

\* The running task's end is the one sam_run_pair has still to count, unless the task had
\* ended before.
LEMMA EndsPair ==
    ASSUME IInv, PairInv, InUser, NEW how \in Fates, how # Live, Ends(how), LongJmp,
           how.how = "exit" => g_task_end_reason' = TASK_END_EXIT
    PROVE  PairInv'
  <1>1. /\ kpc = "await" /\ kpc' = "ended" /\ g_end_idx' = g_cur /\ g_cur \in Slots
        /\ UNCHANGED <<call, ended, clean>>
    BY DEF IInv, TypeOK, CallInv, LongJmp, locals
  <1>2. /\ fate'[g_cur] = IF fate[g_cur] = Live THEN how ELSE fate[g_cur]
        /\ \A i \in Slots : i # g_cur => fate'[i] = fate[i]
    BY <1>1 DEF IInv, TypeOK, Ends
  <1> SUFFICES ASSUME call.kind = "pair" PROVE PairInv'
    BY <1>1 DEF PairInv, InPair
  <1>3. \A i \in Slots : ended[i] <=> fate[i] # Live
    BY <1>1 DEF PairInv, InPair, Busy, Noticed
  <1>4. \A i \in Slots : Noticed(i)' <=> fate'[i] # Live
    BY <1>1, <1>2, <1>3 DEF Noticed
  <1>5. \A i \in Slots : ended[i] => fate'[i] = fate[i]
    BY <1>2, <1>3
  <1>6. Counted(0)' = Counted(0) /\ Counted(1)' = Counted(1)
    BY <1>1, <1>5 DEF Counted, Slots
  <1>7. ~ ended'[g_end_idx'] /\ fate'[g_end_idx'].how = "exit" =>
            g_task_end_reason' = TASK_END_EXIT
    BY <1>1, <1>2, <1>3
  <1>8. Counted(0) + Counted(1) <= clean
    BY <1>1 DEF PairInv, InPair, Busy
  <1> QED
    BY <1>1, <1>4, <1>6, <1>7, <1>8 DEF PairInv

\* What sam_run_pair's loop makes of an end: both tasks are accounted for.
LEMMA AwaitPairCounts ==
    ASSUME IInv, PairInv, kpc = "ended", call.kind = "pair"
    PROVE  /\ \A i \in Slots : NowEnded[i] <=> fate[i] # Live
           /\ (IF NowEnded[0] /\ fate[0].how = "exit" THEN 1 ELSE 0)
              + (IF NowEnded[1] /\ fate[1].how = "exit" THEN 1 ELSE 0) <= NowClean
  <1>1. /\ g_end_idx \in Slots /\ ended \in [Slots -> BOOLEAN] /\ clean \in 0 .. CounterCap
        /\ CounterCap \in Nat /\ CounterCap >= 2
    BY TaskAssumptions DEF IInv, TypeOK
  <1>2. /\ NowEnded[g_end_idx]
        /\ \A i \in Slots : i # g_end_idx => NowEnded[i] = ended[i]
    BY <1>1 DEF NowEnded
  <1>3. /\ \A i \in Slots : Noticed(i) <=> fate[i] # Live
        /\ ~ ended[g_end_idx] /\ fate[g_end_idx].how = "exit" =>
               g_task_end_reason = TASK_END_EXIT
        /\ Counted(0) + Counted(1) <= clean
    BY DEF PairInv, InPair, Busy
  <1>4. \A i \in Slots : NowEnded[i] <=> fate[i] # Live
    BY <1>2, <1>3 DEF Noticed
  <1> DEFINE Now(i) == IF NowEnded[i] /\ fate[i].how = "exit" THEN 1 ELSE 0
  <1>5. \A i \in Slots : i # g_end_idx => Now(i) = Counted(i)
    BY <1>2 DEF Counted
  <1>6. \/ Now(g_end_idx) = Counted(g_end_idx)
        \/ /\ Now(g_end_idx) = 1 /\ Counted(g_end_idx) = 0
           /\ g_task_end_reason = TASK_END_EXIT
    BY <1>2, <1>3 DEF Counted
  <1>7. \A i \in Slots : Now(i) \in {0, 1} /\ Counted(i) \in {0, 1}
    BY DEF Counted
  <1>8. NowClean = clean \/ (NowClean = clean + 1 /\ clean < CounterCap)
          \/ (NowClean = clean /\ clean = CounterCap)
    BY <1>1 DEF NowClean, Saturate
  <1>9. g_task_end_reason = TASK_END_EXIT =>
          NowClean = clean + 1 \/ (NowClean = clean /\ clean >= 2)
    BY <1>1 DEF NowClean, Saturate
  <1>10. Now(0) + Now(1) <= NowClean
    <2> HIDE DEF Now
    <2>1. CASE g_end_idx = 0
      <3>1. Now(1) = Counted(1) /\ Now(0) \in {0, 1} /\ Now(1) \in {0, 1} /\ Counted(0) \in {0, 1}
        BY <1>5, <1>7, <2>1 DEF Slots
      <3> QED
        BY <1>1, <1>3, <1>6, <1>8, <1>9, <2>1, <3>1
    <2>2. CASE g_end_idx = 1
      <3>1. Now(0) = Counted(0) /\ Now(0) \in {0, 1} /\ Now(1) \in {0, 1} /\ Counted(1) \in {0, 1}
        BY <1>5, <1>7, <2>2 DEF Slots
      <3> QED
        BY <1>1, <1>3, <1>6, <1>8, <1>9, <2>2, <3>1
    <2> QED
      BY <1>1, <2>1, <2>2 DEF Slots
  <1> QED
    BY <1>4, <1>10

\* Every step keeps the account, and the result once it is there.
LEMMA PairStep == IInv /\ PairInv /\ PairOutlivesBoth /\ [Next]_vars
                    => PairInv' /\ PairOutlivesBoth'
  <1> SUFFICES ASSUME IInv, PairInv, PairOutlivesBoth, [Next]_vars
               PROVE  PairInv' /\ PairOutlivesBoth'
    OBVIOUS
  <1> DEFINE Same == UNCHANGED <<kpc, call, ended, clean, fate, g_end_idx, g_task_end_reason>>
  <1>0. kpc # "idle" => result.kind = "none"
    BY DEF IInv, CallInv
  <1>1. ASSUME Same PROVE PairInv'
    BY <1>1 DEF PairInv, InPair, Busy, Noticed, Counted
  <1>2. ASSUME result' = result, fate' = fate PROVE PairOutlivesBoth'
    BY <1>2 DEF PairOutlivesBoth, CleanExits
  <1>3. ASSUME result'.kind = "none" \/ result'.kind = "task" \/ result'.value = 0
        PROVE  PairOutlivesBoth'
    BY <1>3 DEF PairOutlivesBoth
  <1>4. ASSUME ~ (kpc' \in {"enter", "await", "ended"} /\ call'.kind = "pair") PROVE PairInv'
    BY <1>4 DEF PairInv, InPair, Busy
  <1>5. CASE UNCHANGED vars
    BY <1>1, <1>2, <1>5 DEF vars, locals, history, ending
  <1>6. CASE Start
    BY <1>3, <1>4, <1>6 DEF Start, RunTask, RunTaskFails, RunPair, Returned
  <1>7. CASE \E slot \in Slots : PairLoad(slot)
    <2> PICK slot \in Slots : PairLoad(slot)
      BY <1>7
    <2>1. result' = result /\ result.kind = "none"
      BY <1>0 DEF PairLoad, LoadAt
    <2>2. CASE slot = 0
      BY <1>3, <1>4, <2>1, <2>2 DEF PairLoad
    <2>3. CASE slot = 1
      <3>1. /\ kpc' = "enter" /\ ended' = [i \in Slots |-> FALSE] /\ clean' = 0
            /\ kpc = "load1"
        BY <2>3 DEF PairLoad, LoadAt
      <3>2. fate'[0] = Live /\ fate'[1] = Live
        <4>1. Loaded(0) /\ fate[0] = Live
          BY <3>1 DEF IInv, FreshInv, Loaded, Slots
        <4> QED
          BY <2>3, <4>1 DEF PairLoad, Fresh, IInv, TypeOK, Slots
      <3>3. \A i \in Slots : Noticed(i)' <=> fate'[i] # Live
        BY <3>1, <3>2 DEF Noticed, Slots
      <3>4. Counted(0)' = 0 /\ Counted(1)' = 0
        BY <3>1 DEF Counted, Slots
      <3>5. PairInv'
        BY <3>1, <3>3, <3>4 DEF PairInv, Slots
      <3> QED
        BY <1>3, <2>1, <3>5
    <2> QED
      BY <2>2, <2>3 DEF Slots
  <1>8. CASE \E slot \in Slots : PairLoadFails(slot)
    BY <1>3, <1>4, <1>8 DEF PairLoadFails, Returned
  <1>9. CASE EnterTask
    <2>1. /\ kpc = "enter" /\ kpc' = "await" /\ result' = result
          /\ UNCHANGED <<call, ended, clean, fate>>
      BY <1>9 DEF EnterTask, locals, history
    <2>2. PairInv'
      BY <2>1 DEF PairInv, InPair, Busy, Noticed, Counted
    <2> QED
      BY <1>2, <2>1, <2>2
  <1>10. CASE AwaitTask
    BY <1>3, <1>4, <1>10 DEF AwaitTask, Returned
  <1>11. CASE AwaitPairResumes
    <2>1. /\ kpc = "ended" /\ kpc' = "await" /\ call.kind = "pair" /\ call' = call
          /\ result' = result /\ fate' = fate /\ ended' = NowEnded /\ clean' = NowClean
      BY <1>11 DEF AwaitPairResumes, history
    <2>2. \A i \in Slots : Noticed(i)' <=> fate'[i] # Live
      BY <2>1, AwaitPairCounts DEF Noticed
    <2>3. Counted(0)' + Counted(1)' <= clean'
      BY <2>1, AwaitPairCounts DEF Counted
    <2>4. PairInv'
      BY <2>1, <2>2, <2>3 DEF PairInv
    <2> QED
      BY <1>2, <2>1, <2>4
  <1>12. CASE AwaitPairReturns
    <2>1. /\ kpc = "ended" /\ call.kind = "pair" /\ BothEnded /\ fate' = fate
          /\ kpc' = "idle" /\ result' = Returned("pair", NowClean)
      BY <1>12 DEF AwaitPairReturns, history
    <2>2. result'.value = NowClean
      BY <2>1 DEF Returned
    <2>3. \A i \in Slots : fate[i] # Live /\ NowEnded[i]
      BY <2>1, AwaitPairCounts DEF BothEnded, Slots
    <2>4. Cardinality(CleanExits) <= NowClean
      <3>1. CleanExits \in SUBSET Slots /\ \A i \in Slots : i \in CleanExits <=> fate[i].how = "exit"
        BY DEF CleanExits
      <3>2. Cardinality(CleanExits)
              = (IF 0 \in CleanExits THEN 1 ELSE 0) + (IF 1 \in CleanExits THEN 1 ELSE 0)
        BY <3>1, SlotsCardinality
      <3>3. (IF fate[0].how = "exit" THEN 1 ELSE 0) + (IF fate[1].how = "exit" THEN 1 ELSE 0)
              <= NowClean
        BY <2>1, <2>3, AwaitPairCounts DEF Slots
      <3>4. 0 \in Slots /\ 1 \in Slots
        BY DEF Slots
      <3> HIDE DEF CleanExits
      <3> QED
        BY <3>1, <3>2, <3>3, <3>4
    <2>5. CleanExits' = CleanExits
      BY <2>1 DEF CleanExits
    <2> QED
      BY <1>4, <2>1, <2>2, <2>3, <2>4, <2>5 DEF PairOutlivesBoth
  <1>13. CASE Tick
    BY <1>1, <1>2, <1>13 DEF Tick, TickReturns, TickSwitches, locals, history, ending
  <1>14. ASSUME NEW rax, Advance(rax) PROVE PairInv' /\ PairOutlivesBoth'
    BY <1>1, <1>2, <1>14 DEF Advance, locals, ending
  <1>15. CASE Panic
    BY <1>2, <1>4, <1>15 DEF Panic, history
  <1>16. ASSUME NEW code \in Codes, SysExit(code) PROVE PairInv' /\ PairOutlivesBoth'
    <2>1. PairInv'
      <3>1. Exited(code) \in Fates /\ Exited(code) # Live
        BY FateFacts
      <3> QED
        BY <1>16, <3>1, EndsPair DEF SysExit
    <2>2. result' = result /\ kpc # "idle"
      BY <1>16 DEF SysExit, LongJmp, IInv, CallInv
    <2> QED
      BY <1>0, <1>3, <2>1, <2>2
  <1>17. ASSUME NEW v \in Vectors, PageFault(v) PROVE PairInv' /\ PairOutlivesBoth'
    <2>1. PairInv'
      <3>1. Faulted \in Fates /\ Faulted # Live /\ Faulted.how # "exit"
        BY FateFacts DEF Faulted
      <3> QED
        BY <1>17, <3>1, EndsPair DEF PageFault
    <2>2. result' = result /\ kpc # "idle"
      BY <1>17 DEF PageFault, LongJmp, IInv, CallInv
    <2> QED
      BY <1>0, <1>3, <2>1, <2>2
  <1>18. CASE Program
    BY <1>14, <1>15, <1>16, <1>17, <1>18
    DEF Program, Instruction, SysWrite, SysRead, SysUnknown, ProgramEnds, OtherException
  <1>19. CASE Kernel
    BY <1>7, <1>8, <1>9, <1>10, <1>11, <1>12, <1>19 DEF Kernel
  <1> QED
    BY <1>5, <1>6, <1>13, <1>18, <1>19 DEF Next

\* sam_run_pair comes back with a count only when both programs have ended, and counts
\* every clean exit.
THEOREM PairCorrect == Spec => []PairOutlivesBoth
  <1>1. Init => PairInv /\ PairOutlivesBoth
    BY DEF Init, PairInv, InPair, Busy, PairOutlivesBoth, Returned, NoCall
  <1> QED
    BY <1>1, PairStep, Invariance, PTL DEF Spec

------------------------------------------------------------------------------
(***************************************************************************)
(* The safety half of ResidentTaskRuns: how long a task waits for its turn *)
(***************************************************************************)

\* The kernel takes the CPU back with interrupts off.
EndedInv == kpc = "ended" => ifl = FALSE

\* A resident program that has not ended and does not have the CPU.
Awaits(i) == Resident(i) /\ fate[i] = Live /\ ~ Running(i)

\* It is at most a slice's ticks away from the CPU.  A tick brings it one nearer, what
\* the running program does takes nothing back, and the end of the running program
\* gives it the CPU with the kernel's next step.
TurnComes ==
    \A i \in Slots : Awaits(i) =>
        /\ g_quantum \in 0 .. SAM_QUANTUM_TICKS - 1
        /\ \/ Running(i)'
           \/ kpc' = "panic"
           \/ /\ kpc = "await" /\ Awaits(i)'
              /\ (Tick /\ g_quantum' = g_quantum + 1) \/ (Program /\ g_quantum' = g_quantum)

LEMMA EndedStep == IInv /\ EndedInv /\ [Next]_vars => EndedInv'
  <1> SUFFICES ASSUME IInv, EndedInv, [Next]_vars PROVE EndedInv'
    OBVIOUS
  <1>1. (kpc' = "ended" => kpc = "ended" /\ ifl' = ifl) => EndedInv'
    BY DEF EndedInv
  <1>2. CASE UNCHANGED vars
    BY <1>1, <1>2 DEF vars
  <1>3. CASE Start
    BY <1>1, <1>3 DEF Start, RunTask, RunTaskFails, RunPair
  <1>4. CASE Kernel
    BY <1>1, <1>4
    DEF Kernel, PairLoad, PairLoadFails, EnterTask, AwaitTask, AwaitPairResumes,
        AwaitPairReturns
  <1>5. CASE Tick
    <2>1. ifl /\ kpc' = kpc
      BY <1>5 DEF Tick, TickReturns, TickSwitches
    <2> QED
      BY <1>1, <2>1 DEF EndedInv
  <1>6. CASE Program
    <2>1. \/ kpc' = kpc /\ ifl' = ifl
          \/ kpc' = "panic"
          \/ kpc' = "ended" /\ ifl' = FALSE
      BY <1>6
      DEF Program, Instruction, SysWrite, SysRead, SysUnknown, ProgramEnds, OtherException,
          Advance, Panic, SysExit, PageFault, LongJmp
    <2> QED
      BY <1>1, <2>1 DEF EndedInv
  <1> QED
    BY <1>2, <1>3, <1>4, <1>5, <1>6 DEF Next

\* What a waiting task waits for, while another one has the CPU.
LEMMA WaitsBehindOther ==
    ASSUME IInv, IInv', Next, kpc = "await", NEW i \in Slots, Awaits(i)
    PROVE  \/ Running(i)'
           \/ kpc' = "panic"
           \/ /\ Awaits(i)'
              /\ (Tick /\ g_quantum' = g_quantum + 1) \/ (Program /\ g_quantum' = g_quantum)
  <1>1. /\ i < g_ntasks /\ fate[i] = Live /\ g_cur # i /\ InUser
        /\ g_ntasks \in {1, 2} /\ g_cur \in Slots /\ i \in {0, 1}
        /\ g_ntasks = 1 => g_cur = 0
    BY DEF Awaits, Resident, Running, IInv, TypeOK, CallInv
  <1>2. g_ntasks = 2
    BY <1>1
  \* Running again, or still waiting.
  <1>3. ASSUME kpc' = "await", g_cur' = i PROVE Running(i)'
    BY <1>3 DEF Running, IInv, CallInv
  <1>4. ASSUME kpc' = "await", g_cur' = g_cur, g_ntasks' = g_ntasks, fate' = fate
        PROVE  Awaits(i)'
    BY <1>1, <1>4 DEF Awaits, Resident, Running
  <1>5. ASSUME kpc' = "ended", g_ntasks' = g_ntasks, fate'[i] = fate[i]
        PROVE  Awaits(i)'
    <2>1. ~ InUser'
      BY <1>5 DEF IInv, CallInv
    <2> QED
      BY <1>1, <1>5, <2>1 DEF Awaits, Resident, Running
  <1>6. CASE TickReturns
    <2>1. Charged
      BY <1>1, <1>2 DEF Charged
    <2>2. /\ g_quantum' = g_quantum + 1 /\ kpc' = kpc
          /\ UNCHANGED <<g_cur, g_ntasks, fate>>
      BY <1>6, <2>1 DEF TickReturns
    <2> QED
      BY <1>4, <1>6, <2>2 DEF Tick
  <1>7. CASE TickSwitches
    <2>1. NextSlot = i
      BY <1>1, <1>2 DEF NextSlot
    <2>2. g_cur' = NextSlot /\ kpc' = kpc
      BY <1>7 DEF TickSwitches
    <2> QED
      BY <1>3, <2>1, <2>2
  <1>8. ASSUME NEW rax \in Results, Advance(rax), Program
        PROVE  Awaits(i)' /\ Program /\ g_quantum' = g_quantum
    <2>1. kpc' = kpc /\ UNCHANGED <<g_cur, g_ntasks, fate, g_quantum>>
      BY <1>8 DEF Advance
    <2> QED
      BY <1>4, <1>8, <2>1
  <1>9. ASSUME NEW how, Ends(how), LongJmp, Program
        PROVE  Awaits(i)' /\ Program /\ g_quantum' = g_quantum
    <2>1. kpc' = "ended" /\ UNCHANGED <<g_ntasks, g_quantum>>
      BY <1>9 DEF LongJmp
    <2>2. fate'[i] = fate[i]
      BY <1>1, <1>9 DEF Ends, IInv, TypeOK
    <2> QED
      BY <1>5, <1>9, <2>1, <2>2
  <1>10. CASE Program
    <2>1. regs.rax \in Results /\ {"ok", "error"} \subseteq Results
      BY DEF IInv, TypeOK, Contexts, Results
    <2>2. \/ \E rax \in Results : Advance(rax)
          \/ kpc' = "panic"
          \/ \E how : Ends(how) /\ LongJmp
      BY <1>10, <2>1
      DEF Program, Instruction, SysWrite, SysRead, SysUnknown, ProgramEnds, OtherException,
          Panic, SysExit, PageFault
    <2> QED
      BY <1>8, <1>9, <1>10, <2>2
  <1>11. ~ Start /\ ~ Kernel
    BY DEF Start, RunTask, RunTaskFails, RunPair, Kernel, PairLoad, PairLoadFails, LoadAt,
           EnterTask, AwaitTask, AwaitPairResumes, AwaitPairReturns
  <1> QED
    BY <1>6, <1>7, <1>10, <1>11 DEF Next, Tick

\* When the running program has ended, the kernel's next step goes on with the other.
LEMMA WaitsForKernel ==
    ASSUME IInv, IInv', PairInv, EndedInv, Next, kpc = "ended", NEW i \in Slots, Awaits(i)
    PROVE  Running(i)'
  <1>1. i < g_ntasks /\ fate[i] = Live
    BY DEF Awaits, Resident
  <1>2. g_end_idx = g_cur /\ fate[g_cur] # Live /\ g_cur # i /\ g_cur \in Slots
    BY <1>1 DEF IInv, CurrentInv, TypeOK
  <1>3. call.kind = "pair"
    BY <1>1, <1>2 DEF IInv, CallInv
  <1>4. ~ ended[i]
    BY <1>1, <1>3 DEF PairInv, InPair, Busy, Noticed
  <1>5. ~ BothEnded
    <2>1. NowEnded[i] = ended[i]
      BY <1>2 DEF NowEnded, IInv, TypeOK
    <2> QED
      BY <1>4, <2>1 DEF BothEnded
  <1>6. ~ Start /\ ~ Tick /\ ~ Program
    <2>1. ~ ifl /\ ~ InUser
      BY DEF EndedInv, IInv, CallInv
    <2> QED
      BY <2>1
      DEF Start, RunTask, RunTaskFails, RunPair, Tick, TickReturns, TickSwitches, Program,
          Instruction, SysWrite, SysRead, SysUnknown, ProgramEnds, OtherException, Advance,
          SysExit, PageFault
  <1>7. Kernel => AwaitPairResumes
    BY <1>3, <1>5
    DEF Kernel, PairLoad, PairLoadFails, LoadAt, EnterTask, AwaitTask, AwaitPairReturns
  <1>8. g_cur' = 1 - g_end_idx /\ kpc' = "await"
    BY <1>6, <1>7 DEF Next, AwaitPairResumes
  <1>9. g_cur' = i
    BY <1>2, <1>8
  <1> QED
    BY <1>8, <1>9 DEF Running, IInv, CallInv

\* A resident program that has not ended gets the CPU after at most SAM_QUANTUM_TICKS
\* ticks, for any slice length, and whatever the program that has it does.
THEOREM TurnIsBounded == Spec => [][TurnComes]_vars
  <1>1. Init => EndedInv
    BY DEF Init, EndedInv
  <1>2. IInv /\ IInv' /\ PairInv /\ EndedInv /\ [Next]_vars => [TurnComes]_vars
    <2> SUFFICES ASSUME IInv, IInv', PairInv, EndedInv, Next, NEW i \in Slots, Awaits(i)
                 PROVE  /\ g_quantum \in 0 .. SAM_QUANTUM_TICKS - 1
                        /\ \/ Running(i)'
                           \/ kpc' = "panic"
                           \/ /\ kpc = "await" /\ Awaits(i)'
                              /\ \/ Tick /\ g_quantum' = g_quantum + 1
                                 \/ Program /\ g_quantum' = g_quantum
      BY DEF TurnComes
    <2>1. g_quantum \in 0 .. SAM_QUANTUM_TICKS - 1
      BY DEF IInv, TypeOK
    <2>2. kpc \in {"await", "ended"}
      BY DEF Awaits, Resident
    <2> QED
      BY <2>1, <2>2, WaitsBehindOther, WaitsForKernel
  <1>3. PairInv /\ PairOutlivesBoth /\ IInv /\ [Next]_vars => PairInv' /\ PairOutlivesBoth'
    BY PairStep
  <1>4. Init => PairInv /\ PairOutlivesBoth
    BY DEF Init, PairInv, InPair, Busy, PairOutlivesBoth, Returned, NoCall
  <1> QED
    BY <1>1, <1>2, <1>3, <1>4, EndedStep, Invariance, PTL DEF Spec
==============================================================================
