----------------------------- MODULE MCRpcFleet -----------------------------
(***************************************************************************)
(* An instance of RpcFleet for TLC.                                        *)
(***************************************************************************)
EXTENDS RpcFleet, TLC

CONSTANTS q1, q2, q3

RequestSymmetry == Permutations(Requests)
=============================================================================
