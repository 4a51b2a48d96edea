------------------------ MODULE MCTerminalWriter ------------------------
(* TerminalWriter with its writers of one kind interchangeable.           *)
EXTENDS TerminalWriter, TLC

Symmetry == Permutations(Prompts) \cup Permutations(Chords)
              \cup Permutations(Clears) \cup Permutations(Stops)
==========================================================================
