-------------------------- MODULE MCSlotThreadPool --------------------------
(* Small instances of SlotThreadPool for TLC: tasks `high` and `other` belong *)
(* to topics of transport priority 0, task `low` to one of priority 1.        *)
EXTENDS SlotThreadPool

CONSTANTS high, other, low

const_Tasks == {high, other, low}
const_Priority == [t \in const_Tasks |-> IF t = low THEN 1 ELSE 0]
const_Emits == [t \in const_Tasks |-> IF t = high THEN 2 ELSE 1]
=============================================================================
