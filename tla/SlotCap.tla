------------------------------ MODULE SlotCap -------------------------------
(***************************************************************************)
(* What the max_positions counter is for: of all tasks, at most Slots hold *)
(* a slot at any time; a task takes one only when one is free, and gives   *)
(* it back.                                                                *)
(***************************************************************************)
EXTENDS Naturals, FiniteSets

CONSTANTS Task, Slots

VARIABLE holders  \* the tasks that hold a slot

Init == holders = {}

Acquire(t) ==
    /\ t \notin holders
    /\ Cardinality(holders) < Slots
    /\ holders' = holders \cup {t}

Release(t) ==
    /\ t \in holders
    /\ holders' = holders \ {t}

Next == \E t \in Task : Acquire(t) \/ Release(t)

Spec == Init /\ [][Next]_holders
=============================================================================
