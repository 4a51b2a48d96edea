---------------------------- MODULE MCTypingGate ----------------------------
(* TypingGate on small sets for TLC. *)
EXTENDS TypingGate, TLC

Symmetry == Permutations(Hooks) \cup Permutations(Writers)
=============================================================================
