------------------------- MODULE MCSessionCommands -------------------------
(***************************************************************************)
(* Model checking SessionCommands: which commands there are.               *)
(***************************************************************************)
EXTENDS SessionCommands, TLC

CONSTANTS n, p, k, x

Symmetry == Permutations(Sessions)

\* A session is created, prompted, cancelled and closed.
MCEach == n :> "new" @@ p :> "prompt" @@ k :> "cancel" @@ x :> "close"

\* Without a close, with a prompt in flight to cancel.
MCCancel == n :> "new" @@ p :> "prompt" @@ k :> "cancel"
=============================================================================
