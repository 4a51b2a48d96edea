--------------------------- MODULE MCOpenPrompts ---------------------------
\* Model checking OpenPrompts: the prompts are interchangeable.
EXTENDS OpenPrompts, TLC

PromptSymmetry == Permutations(Prompts)
=============================================================================
