---------------------------- MODULE MCRpcClient ----------------------------
(***************************************************************************)
(* Model checking RpcClient: calls and inbound requests as model values.   *)
(***************************************************************************)
EXTENDS RpcClient, TLC

CONSTANTS c1, c2, k1, k2

\* Neither two calls of the same kind nor two requests are told apart.
CallSymmetry == Permutations(Calls)
=============================================================================
