------------------------------ MODULE Reservation ------------------------------
(***************************************************************************)
(* What a hard spending limit promises, without saying how: an amount is   *)
(* set aside once, debits eat into it and are never taken back, and none   *)
(* comes after the order it was set aside for is closed.                   *)
(***************************************************************************)
EXTENDS Integers

CONSTANT Amount     \* amounts that may be set aside

VARIABLES
    reserved,   \* set aside for the order
    spent,      \* debited so far
    closed      \* the order is terminal

vars == <<reserved, spent, closed>>

Init == reserved \in Amount /\ spent = 0 /\ closed = FALSE

(* the debit that completes the order closes it; one that rounds to nothing  *)
(* is still a debit                                                          *)
Debit ==
    /\ ~ closed
    /\ spent' \in spent..reserved
    /\ closed' \in BOOLEAN
    /\ UNCHANGED reserved

Close ==
    /\ ~ closed /\ closed'
    /\ UNCHANGED <<reserved, spent>>

Next == Debit \/ Close

Spec == Init /\ [][Next]_vars
=============================================================================
