---------------------------- MODULE MCTokenCache ----------------------------
(***************************************************************************)
(* Instances of TokenCache for TLC.                                        *)
(***************************************************************************)
EXTENDS TokenCache, TLC

CONSTANTS d1, d2

Symmetry == Permutations(Deliveries)
=============================================================================
