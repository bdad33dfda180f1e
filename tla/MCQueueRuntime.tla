--------------------------- MODULE MCQueueRuntime ----------------------------
(* A client for QueueRuntime that follows every rule. *)
EXTENDS QueueRuntime

Careful == Clause
==============================================================================
