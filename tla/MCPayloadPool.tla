--------------------------- MODULE MCPayloadPool ---------------------------
(* Small instances of PayloadPool for TLC. *)
EXTENDS PayloadPool, TLC

Symmetry == Permutations(Addresses) \cup Permutations(Writers)
=============================================================================
