--------------------------- MODULE MCGraphRuntime ----------------------------
(* Finite values for GraphRuntime. *)
EXTENDS GraphRuntime, TLC

(* The addresses of nodes are interchangeable. *)
Symmetry == Permutations(Coroutine)

(* A client that makes any call, one that waits as it likes but frees and
   orphans with care, one that follows every rule, and two that break one. *)
AnyClient == {}
AnyWaits  == {"freeDone", "orphanLive", "returns"}
Careful   == Clause
CarefulBut(clause) == Clause \ {clause}
NotUnfinished == CarefulBut("unfinished")
NotInherited  == CarefulBut("inherited")
==============================================================================
