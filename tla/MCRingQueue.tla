----------------------------- MODULE MCRingQueue -----------------------------
(* Finite values for RingQueue. *)
EXTENDS RingQueue, TLC

(* The two values are interchangeable. *)
Symmetry == Permutations(Elem)

(* The operations of graph_register_task and graph_next_task alone: push at
   the back, pop at the front. *)
RegisterAndSkip == (\E e \in Elem : PushBack(e)) \/ PopFront
RegisterAndSkipSpec == Init /\ [][RegisterAndSkip]_vars
==============================================================================
