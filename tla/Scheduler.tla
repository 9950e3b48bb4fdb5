------------------------------ MODULE Scheduler -------------------------------
(***************************************************************************)
(* The cooperative domain scheduler, kernel/scheduler.h: one slot for each *)
(* domain, visited in order by sam_sched_tick.  A work function may submit *)
(* work while it runs, for any domain; it does not call sam_sched_tick.    *)
(* A work function and its context are one value.                          *)
(***************************************************************************)
EXTENDS Integers, FiniteSets

CONSTANTS
    Works,              \* work functions with their contexts
    NullWork,           \* the null function
    None,               \* not a work function
    Ids,                \* domain ids callers pass, known and unknown
    CounterSize         \* 2^32 in the code

Slots == 0 .. 2
SlotId == [s \in Slots |-> 16 * (s + 1)]        \* AI, GAME, GENERAL

ASSUME SchedulerAssumptions ==
    /\ None \notin Works \cup {NullWork} /\ NullWork \notin Works
    /\ None \notin Slots
    /\ CounterSize \in Nat \ {0}

VARIABLES
    count,              \* slots in use: none before sam_sched_init
    runnable, work, quanta_run, cycles,
    pc,                 \* outside sam_sched_tick, visiting a slot, in its work
    i, ran,             \* sam_sched_tick's locals
    cpu,                \* the work that is running
    due,                \* history: slots with work when the tick began
    turn                \* history: slots that ran in the tick

slots == <<runnable, work, quanta_run>>
tick == <<pc, i, ran, cpu, due, turn>>
vars == <<count, slots, cycles, tick>>

Wrap(n) == n % CounterSize

Init ==
    /\ count = 0
    /\ runnable = [s \in Slots |-> FALSE] /\ work = [s \in Slots |-> NullWork]
    /\ quanta_run = [s \in Slots |-> 0] /\ cycles = 0
    /\ pc = "out" /\ i = 0 /\ ran = 0 /\ cpu = None
    /\ due = {} /\ turn = {}

sam_sched_init ==
    /\ pc = "out" /\ count = 0
    /\ count' = 3
    /\ runnable' = [s \in Slots |-> FALSE] /\ work' = [s \in Slots |-> NullWork]
    /\ quanta_run' = [s \in Slots |-> 0] /\ cycles' = 0
    /\ UNCHANGED tick

\* Outside a tick, or from the work that is running.
MaySubmit == pc \in {"out", "in"}

sam_sched_submit(id, w) ==
    /\ MaySubmit
    /\ \E s \in Slots :
           /\ s < count /\ SlotId[s] = id
           /\ work' = [work EXCEPT ![s] = w]
           /\ runnable' = [runnable EXCEPT ![s] = TRUE]
    /\ UNCHANGED <<count, quanta_run, cycles, tick>>

\* Returns -1.
SubmitUnknown(id) ==
    /\ MaySubmit
    /\ \A s \in Slots : s < count => SlotId[s] # id
    /\ UNCHANGED vars

TickBeginsKeeping ==                            \* mutant: ran is not reset
    /\ pc = "out"
    /\ pc' = "visit" /\ i' = 0
    /\ due' = {s \in Slots : runnable[s]} /\ turn' = {}
    /\ UNCHANGED <<count, slots, cycles, cpu, ran>>

TickBegins ==
    /\ pc = "out"
    /\ pc' = "visit" /\ i' = 0 /\ ran' = 0
    /\ due' = {s \in Slots : runnable[s]} /\ turn' = {}
    /\ UNCHANGED <<count, slots, cycles, cpu>>

MoreButLast == i < count - 1                    \* mutant: the last slot is not visited
More == i < count

VisitIdle ==
    /\ pc = "visit" /\ More /\ ~ runnable[i]
    /\ i' = i + 1
    /\ UNCHANGED <<count, slots, cycles, pc, ran, cpu, due, turn>>

\* The end of a turn of the loop for a slot that had work.
TurnEnds ==
    /\ quanta_run' = [quanta_run EXCEPT ![i] = Wrap(@ + 1)]
    /\ ran' = ran + 1
    /\ turn' = turn \cup {i}
    /\ i' = i + 1

Cleared == [runnable EXCEPT ![i] = FALSE]

VisitNull ==
    /\ pc = "visit" /\ More /\ runnable[i] /\ work[i] = NullWork
    /\ runnable' = Cleared
    /\ TurnEnds
    /\ UNCHANGED <<count, work, cycles, pc, cpu, due>>

\* The slot is cleared before its work is called: what the work submits stays.
VisitWork ==
    /\ pc = "visit" /\ More /\ runnable[i] /\ work[i] # NullWork
    /\ runnable' = Cleared
    /\ pc' = "in"
    /\ cpu' = work[i]
    /\ UNCHANGED <<count, work, quanta_run, cycles, i, ran, due, turn>>

WorkReturnsClearing ==                          \* mutant: cleared after the call
    /\ pc = "in"
    /\ pc' = "visit"
    /\ cpu' = None
    /\ runnable' = Cleared
    /\ TurnEnds
    /\ UNCHANGED <<count, work, cycles, due>>

WorkReturns ==
    /\ pc = "in"
    /\ pc' = "visit"
    /\ cpu' = None
    /\ TurnEnds
    /\ UNCHANGED <<count, runnable, work, cycles, due>>

TickReturns ==
    /\ pc = "visit" /\ ~ More
    /\ pc' = "out"
    /\ cycles' = Wrap(cycles + 1)
    /\ UNCHANGED <<count, slots, i, ran, cpu, due, turn>>

Next ==
    \/ sam_sched_init
    \/ \E id \in Ids : \/ \E w \in Works \cup {NullWork} : sam_sched_submit(id, w)
                       \/ SubmitUnknown(id)
    \/ TickBegins \/ VisitIdle \/ VisitNull \/ VisitWork \/ WorkReturns \/ TickReturns

Spec == Init /\ [][Next]_vars

------------------------------------------------------------------------------
\* The variables have their types; the loop never visits a slot past the last one.
TypeOK ==
    /\ count \in {0, 3}
    /\ runnable \in [Slots -> BOOLEAN]
    /\ work \in [Slots -> Works \cup {NullWork}]
    /\ quanta_run \in [Slots -> 0 .. CounterSize - 1]
    /\ cycles \in 0 .. CounterSize - 1
    /\ pc \in {"out", "visit", "in"}
    /\ i \in 0 .. count /\ (pc = "in" => i < count)
    /\ ran \in 0 .. count
    /\ cpu \in Works \cup {None}
    /\ due \subseteq Slots /\ turn \subseteq Slots

\* A tick runs work for every domain that had some when it began, whatever the work
\* functions before it submit, each domain at most once, and returns how many ran
\* (scheduler.h: "Each runnable slot gets exactly one quantum").
TickServesDue ==
    /\ ran = Cardinality(turn)
    /\ pc = "out" => due \subseteq turn
    /\ pc # "out" => \A s \in due : s < i => s \in turn

pending == [s \in Slots |-> IF runnable[s] THEN work[s] ELSE None]
running == IF pc = "in" THEN [domain |-> i, work |-> cpu]
                        ELSE [domain |-> None, work |-> None]

Abstract == INSTANCE DomainWork WITH Domains <- Slots, quanta <- quanta_run

\* The slots implement DomainWork: work that is submitted is run once, or replaced by
\* a later submission, and never lost - not even when the work of a slot submits to
\* that slot while it runs.
WorkSpec == Abstract!Spec
==============================================================================
