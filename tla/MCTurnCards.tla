---------------------------- MODULE MCTurnCards ----------------------------
(* TurnCards on a small instance. *)
EXTENDS TurnCards
=============================================================================
