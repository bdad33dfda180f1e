------------------------------- MODULE MCParts -------------------------------
(* Finite values for Parts. *)
EXTENDS Parts, TLC

Symmetry == Permutations(Elem) \cup Permutations(Other)
==============================================================================
