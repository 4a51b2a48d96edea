-------------------------- MODULE MCAnswerDelivery --------------------------
(***************************************************************************)
(* A small chat: two sessions, of which the first ends two turns.          *)
(***************************************************************************)
EXTENDS AnswerDelivery

MCTurns == 1 .. 3
MCOwner == [t \in MCTurns |-> IF t = 2 THEN "b" ELSE "a"]
OneSession == [t \in MCTurns |-> "a"]
=============================================================================
