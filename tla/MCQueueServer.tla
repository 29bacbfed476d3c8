--------------------------- MODULE MCQueueServer ---------------------------
(***************************************************************************)
(* Model checking QueueServer: connections as model values, one of them    *)
(* silent and one whose line may be malformed.                             *)
(***************************************************************************)
EXTENDS QueueServer

CONSTANTS q1, q2, q3
=============================================================================
