--------------------------- MODULE MCModelRegistry ---------------------------
(***************************************************************************)
(* Processes of the registry: any of them may register, accept, reject for *)
(* either reason, or read.                                                 *)
(***************************************************************************)
EXTENDS ModelRegistry, TLC

CONSTANTS p1, p2, worse, late

RegistrySymmetry == Permutations(Processes) \cup Permutations(Reasons)
=============================================================================
