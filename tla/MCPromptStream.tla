--------------------------- MODULE MCPromptStream ---------------------------
(***************************************************************************)
(* Model checking PromptStream: two handler executions and short replays.  *)
(***************************************************************************)
EXTENDS PromptStream, TLC

CONSTANTS p1, p2

PromptSymmetry == Permutations(Prompts)
=============================================================================
