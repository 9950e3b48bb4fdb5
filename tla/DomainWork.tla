------------------------------ MODULE DomainWork ------------------------------
(***************************************************************************)
(* What the cooperative scheduler promises the domains, with no slots and  *)
(* no loop in it: a piece of work handed in runs once, unless a later one  *)
(* for the same domain replaces it before it runs.  Only one piece of work *)
(* runs at a time, and while it runs it may hand in more, for its own      *)
(* domain too.                                                             *)
(***************************************************************************)
EXTENDS Integers

CONSTANTS
    Domains,
    Works,              \* pieces of work: a function with its context
    NullWork,           \* the null function, which is not called
    None,               \* not a piece of work
    CounterSize         \* counters count modulo this

VARIABLES
    pending,            \* the work each domain waits to have run
    running,            \* the domain whose work runs, and the work
    quanta              \* pieces of work finished, for each domain

vars == <<pending, running, quanta>>

Nothing == [domain |-> None, work |-> None]
Idle == running = Nothing
Counted(d) == [quanta EXCEPT ![d] = (@ + 1) % CounterSize]

Init ==
    /\ pending = [d \in Domains |-> None]
    /\ running = Nothing
    /\ quanta = [d \in Domains |-> 0]

Submit(d, w) ==
    /\ pending' = [pending EXCEPT ![d] = w]
    /\ UNCHANGED <<running, quanta>>

Start(d) ==
    /\ Idle
    /\ pending[d] \in Works
    /\ running' = [domain |-> d, work |-> pending[d]]
    /\ pending' = [pending EXCEPT ![d] = None]
    /\ UNCHANGED quanta

Finish(d) ==
    /\ running.domain = d
    /\ running' = Nothing
    /\ quanta' = Counted(d)
    /\ UNCHANGED pending

\* Null work takes its turn and does nothing.
Pass(d) ==
    /\ Idle
    /\ pending[d] = NullWork
    /\ pending' = [pending EXCEPT ![d] = None]
    /\ quanta' = Counted(d)
    /\ UNCHANGED running

Next ==
    \E d \in Domains :
        \/ \E w \in Works \cup {NullWork} : Submit(d, w)
        \/ Start(d) \/ Finish(d) \/ Pass(d)

Spec == Init /\ [][Next]_vars
==============================================================================
