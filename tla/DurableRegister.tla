---------------------------- MODULE DurableRegister ----------------------------
(***************************************************************************)
(* What a journal promises to its owner: one durable value that a save     *)
(* replaces in one step, at some moment between its call and its return.   *)
(* A save that is cut short has happened or has not, and the next load     *)
(* settles which.                                                          *)
(***************************************************************************)
CONSTANTS Data, NoData

VARIABLES
    value,   \* what a load would yield
    up,      \* the owner has loaded it and may save
    seen,    \* what the owner was told, NoData unless up
    pending  \* the value of a save in progress, or NoData

vars == <<value, up, seen, pending>>

Init == value = NoData /\ up = FALSE /\ seen = NoData /\ pending = NoData

Load ==
    /\ pending = NoData
    /\ up' = TRUE /\ seen' = value /\ UNCHANGED <<value, pending>>

Begin(d) ==
    /\ up /\ pending = NoData
    /\ pending' = d /\ UNCHANGED <<value, up, seen>>

Commit ==
    /\ pending # NoData
    /\ value' = pending /\ UNCHANGED <<up, seen, pending>>

Acknowledge ==
    /\ pending # NoData /\ value = pending
    /\ seen' = pending /\ pending' = NoData /\ UNCHANGED <<value, up>>

\* A fault, or the loss of power.
Lose ==
    /\ value' = value \/ (pending # NoData /\ value' = pending)
    /\ up' = FALSE /\ seen' = NoData /\ pending' = NoData

Next == Load \/ (\E d \in Data : Begin(d)) \/ Commit \/ Acknowledge \/ Lose

Spec == Init /\ [][Next]_vars
===============================================================================
