---------------------------- MODULE MCRpcBridge ----------------------------
(* Small instances of RpcBridge for TLC. *)
EXTENDS RpcBridge, TLC

CONSTANTS p1, p2, q1, q2, q3

\* Two clients beside p1 and one beside p2.
const_Origin == [q \in Requests |-> IF q = q3 THEN p2 ELSE p1]
Symmetry == Permutations(Threads)
=============================================================================
