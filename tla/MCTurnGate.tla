----------------------------- MODULE MCTurnGate -----------------------------
(***************************************************************************)
(* Instances of TurnGate for TLC: a barge-in interrupts the bot before it   *)
(* announces the user's turn, which releases the gate the most, or in       *)
(* either order.                                                            *)
(***************************************************************************)
EXTENDS TurnGate

MCInterruptFirst == {InterruptFirst}

MCOrders == {InterruptFirst, StartedFirst}
=============================================================================
