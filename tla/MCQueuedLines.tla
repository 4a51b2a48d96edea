---------------------------- MODULE MCQueuedLines ----------------------------
(* QueuedLines with interchangeable messages and taps.                      *)
EXTENDS QueuedLines, TLC

Symmetry == Permutations(Msgs) \cup Permutations(Taps)
==============================================================================
