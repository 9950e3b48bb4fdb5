--------------------------- MODULE SchedulerProofs ----------------------------
(***************************************************************************)
(* The scheduler implements DomainWork and serves what is due, for every   *)
(* set of work functions and every way they submit.                        *)
(***************************************************************************)
EXTENDS Scheduler, FiniteSetTheorems, TLAPS

USE SchedulerAssumptions

\* Only slots before i have run in this tick; the work in progress is not null; a due
\* slot that has not been visited still has work; before sam_sched_init nothing is submitted or run.
TickInv ==
    /\ turn \subseteq 0 .. i - 1 /\ IsFiniteSet(turn)
    /\ pc = "in" => cpu \in Works
    /\ pc = "out" => i = count \/ due = {}
    /\ pc = "visit" => \A s \in due : s >= i => runnable[s]
    /\ pc = "in" => \A s \in due : s > i => runnable[s]
    /\ count = 0 => \A s \in Slots : ~ runnable[s] /\ quanta_run[s] = 0

IInv == TypeOK /\ TickServesDue /\ TickInv

\* A counter that is incremented stays below its modulus.
LEMMA WrapInRange ==
    ASSUME NEW n \in 0 .. CounterSize - 1
    PROVE  Wrap(n + 1) \in 0 .. CounterSize - 1
  BY DEF Wrap

\* A slot before the next one is before this one or is this one.
LEMMA SlotBefore ==
    ASSUME NEW j \in Slots, NEW s \in Slots, s < j + 1
    PROVE  s < j \/ s = j
  BY DEF Slots

\* Nothing has run and nothing is due before the first tick.
LEMMA InitIInv == Init => IInv
  <1>1. IsFiniteSet({}) /\ Cardinality({}) = 0
    BY FS_EmptySet
  <1> QED
    BY <1>1 DEF Init, IInv, TypeOK, TickServesDue, TickInv, Slots

\* Slot i takes its turn: it has not had one in this tick.
LEMMA TurnCounts ==
    ASSUME IInv, pc # "out", i < count, TurnEnds
    PROVE  /\ i \in Slots /\ i' = i + 1 /\ turn' \subseteq Slots
           /\ turn' \subseteq 0 .. i' - 1 /\ IsFiniteSet(turn')
           /\ ran' = Cardinality(turn') /\ ran' \in 0 .. count
           /\ quanta_run' \in [Slots -> 0 .. CounterSize - 1]
           /\ \A s \in due : s < i' => s \in turn'
  <1>1. i \in Slots /\ i \in 0 .. 2 /\ i' = i + 1 /\ turn' = turn \cup {i} /\ i \notin turn
    BY DEF IInv, TypeOK, TickInv, TurnEnds, Slots
  <1>2. IsFiniteSet(turn') /\ Cardinality(turn') = Cardinality(turn) + 1
    BY <1>1, FS_AddElement DEF IInv, TickInv
  <1>3. ran' = Cardinality(turn')
    BY <1>2 DEF TurnEnds, IInv, TickServesDue, TypeOK
  <1>4. turn' \subseteq 0 .. i' - 1 /\ turn' \subseteq Slots
    BY <1>1 DEF IInv, TickInv, TypeOK
  <1>5. ran' \in 0 .. count
    <2>1. IsFiniteSet(0 .. i) /\ Cardinality(0 .. i) = i + 1
      BY <1>1, FS_Interval DEF Slots
    <2>2. Cardinality(turn') <= i + 1 /\ Cardinality(turn') \in Nat
      <3>1. turn' \in SUBSET (0 .. i)
        BY <1>1, <1>4 DEF Slots
      <3> QED
        BY <3>1, <2>1, <1>2, FS_Subset, FS_CardinalityType
    <2> QED
      BY <2>2, <1>3, <1>1 DEF IInv, TypeOK, Slots
  <1>6. quanta_run' \in [Slots -> 0 .. CounterSize - 1]
    BY <1>1, WrapInRange DEF TurnEnds, IInv, TypeOK
  <1>7. \A s \in due : s < i' => s \in turn'
    <2> SUFFICES ASSUME NEW s \in due, s < i' PROVE s \in turn'
      OBVIOUS
    <2>0. s \in Slots /\ s < i + 1
      BY <1>1 DEF IInv, TypeOK
    <2>1. s < i \/ s = i
      BY <1>1, <2>0, SlotBefore
    <2> QED
      BY <2>1, <1>1 DEF IInv, TickServesDue
  <1> QED
    BY <1>1, <1>2, <1>3, <1>4, <1>5, <1>6, <1>7

\* Every step keeps the invariant.
LEMMA NextIInv ==
    ASSUME IInv, [Next]_vars
    PROVE  IInv'
  <1> USE DEF IInv
  <1>1. CASE sam_sched_init
    <2>1. TypeOK'
      BY <1>1 DEF sam_sched_init, TypeOK, tick, Slots
    <2>2. TickServesDue' /\ TickInv'
      BY <1>1 DEF sam_sched_init, TickServesDue, TickInv, TypeOK, tick, Slots
    <2> QED BY <2>1, <2>2
  <1>2. ASSUME NEW id \in Ids, NEW w \in Works \cup {NullWork}, sam_sched_submit(id, w)
        PROVE  IInv'
    <2> PICK s \in Slots :
               /\ s < count /\ SlotId[s] = id
               /\ work' = [work EXCEPT ![s] = w]
               /\ runnable' = [runnable EXCEPT ![s] = TRUE]
      BY <1>2 DEF sam_sched_submit
    <2> UNCHANGED <<count, quanta_run, cycles, pc, i, ran, cpu, due, turn>>
      BY <1>2 DEF sam_sched_submit, tick
    <2>1. TypeOK'
      BY DEF TypeOK
    <2>2. TickServesDue'
      BY DEF TickServesDue
    <2>3. TickInv'
      BY DEF TickInv, TypeOK, Slots
    <2> QED BY <2>1, <2>2, <2>3
  <1>3. ASSUME NEW id \in Ids, SubmitUnknown(id)
        PROVE  IInv'
    BY <1>3 DEF SubmitUnknown, vars, slots, tick, TypeOK, TickServesDue, TickInv
  <1>4. CASE TickBegins
    <2>1. IsFiniteSet({}) /\ Cardinality({}) = 0
      BY FS_EmptySet
    <2>2. TypeOK'
      BY <1>4 DEF TickBegins, TypeOK, slots, Slots
    <2>3. TickServesDue' /\ TickInv'
      BY <1>4, <2>1 DEF TickBegins, TickServesDue, TickInv, slots, TypeOK, Slots
    <2> QED BY <2>2, <2>3
  <1>5. CASE VisitIdle
    <2>0. i \in Slots /\ i \in 0 .. 2
      BY <1>5 DEF VisitIdle, More, TypeOK, Slots
    <2>1. TypeOK'
      BY <1>5 DEF VisitIdle, More, TypeOK, slots, Slots
    <2>2. TickInv'
      BY <1>5, <2>0 DEF VisitIdle, TickInv, slots, TypeOK, Slots
    <2>3. TickServesDue'
      <3>1. \A s \in due : s < i + 1 => s \in turn
        <4> SUFFICES ASSUME NEW s \in due, s < i + 1 PROVE s \in turn
          OBVIOUS
        <4>0. s \in Slots
          BY DEF TypeOK
        <4> HIDE DEF IInv
        <4>1. s < i \/ s = i
          BY <2>0, <4>0, SlotBefore
        <4> USE DEF IInv
        <4>2. s # i
          <5>1. i >= i
            BY <2>0
          <5> QED
            BY <5>1, <1>5 DEF VisitIdle, TickInv
        <4> QED
          BY <4>1, <4>2, <1>5 DEF VisitIdle, TickServesDue
      <3> QED
        BY <1>5, <3>1 DEF VisitIdle, TickServesDue
    <2> QED BY <2>1, <2>2, <2>3
  <1>6. CASE VisitNull
    <2>1. UNCHANGED <<count, work, cycles, pc, cpu, due>> /\ pc = "visit" /\ i < count
          /\ runnable' = [runnable EXCEPT ![i] = FALSE]
      BY <1>6 DEF VisitNull, More, Cleared
    <2>2. TurnEnds
      BY <1>6 DEF VisitNull
    <2> HIDE DEF IInv
    <2>3. /\ i \in Slots /\ i' = i + 1 /\ turn' \subseteq Slots
          /\ turn' \subseteq 0 .. i' - 1 /\ IsFiniteSet(turn')
          /\ ran' = Cardinality(turn') /\ ran' \in 0 .. count
          /\ quanta_run' \in [Slots -> 0 .. CounterSize - 1]
          /\ \A s \in due : s < i' => s \in turn'
      BY <2>1, <2>2, TurnCounts
    <2> USE DEF IInv
    <2>4. TypeOK'
      BY <2>1, <2>3 DEF TypeOK, Slots
    <2>5. TickServesDue'
      BY <2>1, <2>3 DEF TickServesDue
    <2>6. TickInv'
      BY <2>1, <2>3 DEF TickInv, TypeOK, Slots
    <2> QED BY <2>4, <2>5, <2>6
  <1>7. CASE VisitWork
    <2>1. TypeOK'
      BY <1>7 DEF VisitWork, More, Cleared, TypeOK, Slots
    <2>2. TickServesDue'
      BY <1>7 DEF VisitWork, TickServesDue
    <2>3. TickInv'
      BY <1>7 DEF VisitWork, More, Cleared, TickInv, TypeOK, Slots
    <2> QED BY <2>1, <2>2, <2>3
  <1>8. CASE WorkReturns
    <2>1. UNCHANGED <<count, runnable, work, cycles, due>> /\ pc = "in" /\ pc' = "visit"
          /\ cpu' = None /\ i < count
      BY <1>8 DEF WorkReturns, TypeOK
    <2>2. TurnEnds
      BY <1>8 DEF WorkReturns
    <2> HIDE DEF IInv
    <2>3. /\ i \in Slots /\ i' = i + 1 /\ turn' \subseteq Slots
          /\ turn' \subseteq 0 .. i' - 1 /\ IsFiniteSet(turn')
          /\ ran' = Cardinality(turn') /\ ran' \in 0 .. count
          /\ quanta_run' \in [Slots -> 0 .. CounterSize - 1]
          /\ \A s \in due : s < i' => s \in turn'
      BY <2>1, <2>2, TurnCounts
    <2> USE DEF IInv
    <2>4. TypeOK'
      BY <2>1, <2>3 DEF TypeOK, Slots
    <2>5. TickServesDue'
      BY <2>1, <2>3 DEF TickServesDue
    <2>6. TickInv'
      BY <2>1, <2>3 DEF TickInv, TypeOK, Slots
    <2> QED BY <2>4, <2>5, <2>6
  <1>9. CASE TickReturns
    <2>1. TypeOK'
      BY <1>9, WrapInRange DEF TickReturns, TypeOK, slots
    <2>2. i = count
      BY <1>9 DEF TickReturns, More, TypeOK
    <2>3. due \subseteq turn
      BY <1>9, <2>2 DEF TickReturns, TickServesDue, TypeOK, TickInv, Slots
    <2>4. TickServesDue' /\ TickInv'
      BY <1>9, <2>2, <2>3 DEF TickReturns, TickServesDue, TickInv, slots
    <2> QED BY <2>1, <2>4
  <1>10. CASE UNCHANGED vars
    BY <1>10 DEF vars, slots, tick, TypeOK, TickServesDue, TickInv
  <1> QED
    BY <1>1, <1>2, <1>3, <1>4, <1>5, <1>6, <1>7, <1>8, <1>9, <1>10 DEF Next

\* The invariant holds in every behaviour.
LEMMA SchedulerInvariant == Spec => []IInv
  BY InitIInv, NextIInv, PTL DEF Spec

\* scheduler.h never visits a slot past the last, for every counter width.
THEOREM SchedulerTypeCorrect == Spec => []TypeOK
  BY SchedulerInvariant, PTL DEF IInv

\* sam_sched_tick serves every domain that had work when it began, once.
THEOREM DueServed == Spec => []TickServesDue
  BY SchedulerInvariant, PTL DEF IInv

\* Each step of the scheduler is a step of DomainWork or changes nothing it shows.
LEMMA StepImplements ==
    ASSUME IInv, [Next]_vars
    PROVE  [Abstract!Next]_(Abstract!vars)
  <1> USE DEF IInv
  <1>1. CASE sam_sched_init
    <2>1. UNCHANGED <<quanta_run, pc, cpu, i>>
      BY <1>1 DEF sam_sched_init, tick, TypeOK, TickInv
    <2>2. UNCHANGED pending
      BY <1>1 DEF sam_sched_init, pending, TickInv, TypeOK
    <2> QED
      BY <2>1, <2>2 DEF Abstract!vars, running
  <1>2. ASSUME NEW id \in Ids, NEW w \in Works \cup {NullWork}, sam_sched_submit(id, w)
        PROVE  Abstract!Next
    <2> PICK s \in Slots :
               /\ work' = [work EXCEPT ![s] = w]
               /\ runnable' = [runnable EXCEPT ![s] = TRUE]
      BY <1>2 DEF sam_sched_submit
    <2>1. UNCHANGED <<quanta_run, pc, cpu, i>>
      BY <1>2 DEF sam_sched_submit, tick
    <2>2. pending' = [pending EXCEPT ![s] = w]
      BY DEF pending, TypeOK
    <2>3. Abstract!Submit(s, w)
      BY <2>1, <2>2 DEF Abstract!Submit, running
    <2> QED
      BY <2>3 DEF Abstract!Next
  <1>3. ASSUME NEW id \in Ids, SubmitUnknown(id)
        PROVE  UNCHANGED Abstract!vars
    BY <1>3 DEF SubmitUnknown, Abstract!vars, vars, slots, tick, pending, running
  <1>4. CASE TickBegins \/ VisitIdle \/ TickReturns
    BY <1>4 DEF TickBegins, VisitIdle, TickReturns, Abstract!vars, slots, pending, running
  <1>5. CASE VisitNull
    <2>1. i \in Slots
      BY <1>5 DEF VisitNull, More, TypeOK, Slots
    <2>2. pending[i] = NullWork /\ pending' = [pending EXCEPT ![i] = None]
      BY <1>5, <2>1 DEF VisitNull, Cleared, pending, TypeOK
    <2>3. quanta_run' = [quanta_run EXCEPT ![i] = (@ + 1) % CounterSize]
      BY <1>5 DEF VisitNull, TurnEnds, Wrap
    <2>4. Abstract!Pass(i)
      BY <1>5, <2>2, <2>3
         DEF VisitNull, Abstract!Pass, Abstract!Idle, Abstract!Nothing, Abstract!Counted, running
    <2> QED
      BY <2>1, <2>4 DEF Abstract!Next
  <1>6. CASE VisitWork
    <2>1. i \in Slots
      BY <1>6 DEF VisitWork, More, TypeOK, Slots
    <2>2. pending[i] = work[i] /\ work[i] \in Works
          /\ pending' = [pending EXCEPT ![i] = None]
      BY <1>6, <2>1 DEF VisitWork, Cleared, pending, TypeOK
    <2>3. Abstract!Start(i)
      BY <1>6, <2>2
         DEF VisitWork, Abstract!Start, Abstract!Idle, Abstract!Nothing, running
    <2> QED
      BY <2>1, <2>3 DEF Abstract!Next
  <1>7. CASE WorkReturns
    <2>1. i \in Slots
      BY <1>7 DEF WorkReturns, TypeOK, Slots
    <2>2. quanta_run' = [quanta_run EXCEPT ![i] = (@ + 1) % CounterSize]
      BY <1>7 DEF WorkReturns, TurnEnds, Wrap
    <2>3. Abstract!Finish(i)
      BY <1>7, <2>2
         DEF WorkReturns, Abstract!Finish, Abstract!Nothing, Abstract!Counted, running, pending
    <2> QED
      BY <2>1, <2>3 DEF Abstract!Next
  <1>8. CASE UNCHANGED vars
    BY <1>8 DEF vars, slots, tick, Abstract!vars, pending, running
  <1> QED
    BY <1>1, <1>2, <1>3, <1>4, <1>5, <1>6, <1>7, <1>8 DEF Next

\* The slots of scheduler.h implement DomainWork: no work is lost or run twice.
THEOREM SchedulerImplements == Spec => WorkSpec
  <1>1. Init => Abstract!Init
    BY DEF Init, Abstract!Init, Abstract!Nothing, pending, running
  <1> QED
    BY <1>1, StepImplements, SchedulerInvariant, PTL DEF Spec, WorkSpec, Abstract!Spec
==============================================================================
