------------------------------ MODULE MCServer ------------------------------
(* Instances of Server for TLC.                                             *)
EXTENDS Server, TLC

CONSTANTS a1, a2, a3, k1, k2, k3, v1, v2, p1, p2, p3

Symmetry == Permutations(Addr) \cup Permutations(ConstId) \cup Permutations(ConvId)
            \cup Permutations(Conn)
=============================================================================
