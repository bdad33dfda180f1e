------------------------------ MODULE AsyncSpec ------------------------------
(***************************************************************************)
(* What the API of async.h promises, whichever scheduler is installed: a   *)
(* coroutine is called, runs, and returns once; await, await_any and       *)
(* await_all return only when what they wait for has returned.  Nothing    *)
(* here is translated from the code; GraphRuntime and QueueRuntime are,    *)
(* and are checked to implement this module.                               *)
(***************************************************************************)
CONSTANT Coroutine

VARIABLES
  live,    \* the coroutines that were called and have not returned
  done,    \* those that have returned and were not freed
  waits    \* for each coroutine the wait it is in, if any

Waiting(c) == waits[c].for # {}

Wait == [for : SUBSET Coroutine, all : BOOLEAN]
NoWait == [for |-> {}, all |-> FALSE]

Init == /\ \E main \in Coroutine : live = {main}
        /\ done = {} /\ waits = [c \in Coroutine |-> NoWait]

Call(c) == /\ c \notin live \cup done
           /\ live' = live \cup {c}
           /\ UNCHANGED <<done, waits>>

StartWait(c, w) == /\ c \in live /\ ~ Waiting(c)
                   /\ waits' = [waits EXCEPT ![c] = w]
                   /\ UNCHANGED <<live, done>>

Satisfied(w) == IF w.all THEN w.for \subseteq done ELSE w.for \cap done # {}

EndWait(c) == /\ Waiting(c) /\ Satisfied(waits[c])
              /\ waits' = [waits EXCEPT ![c] = NoWait]
              /\ UNCHANGED <<live, done>>

Unneeded(c) == \A d \in live : c \notin waits[d].for

(* A coroutine that was orphaned is freed when it returns. *)
Return(c) == /\ c \in live /\ ~ Waiting(c)
             /\ live' = live \ {c}
             /\ \/ done' = done \cup {c}
                \/ Unneeded(c) /\ UNCHANGED done
             /\ UNCHANGED waits

Free(c) == /\ c \in done /\ Unneeded(c)
           /\ done' = done \ {c}
           /\ UNCHANGED <<live, waits>>

Next == \E c \in Coroutine :
          \/ Call(c) \/ EndWait(c) \/ Return(c) \/ Free(c)
          \/ \E w \in Wait : StartWait(c, w)

Spec == Init /\ [][Next]_<<live, done, waits>>
==============================================================================
