------------------------------ MODULE TaskPool -------------------------------
(***************************************************************************)
(* The pool of coroutines of scheduler.c and the switch of switch.c: the   *)
(* part of the runtime that does not depend on which scheduler is used.    *)
(*                                                                         *)
(* A Handle is the 1-based index of a slot of the pool.  A slot keeps its  *)
(* stack for ever; async_free chains it into a free list through its       *)
(* handle field, and the next async_call takes it from there.              *)
(***************************************************************************)
EXTENDS Integers, Sequences, FiniteSets

CONSTANTS
  MaxTasks,   \* bound: slots the pool may grow to
  Coroutine,  \* identities of coroutines; a slot has one after another
  NULL        \* the null pointer, and "no value yet"

ASSUME PoolAssumption == MaxTasks \in Nat \ {0} /\ NULL \notin Coroutine

VARIABLES
  tasks,      \* pool.tasks; [h] for tasks[h.idx - 1]
  len,        \* pool.len: the slots in use are 1 .. len
  free_task,  \* pool.free_task: first slot of the free list, or 0
  cur         \* the coroutine on whose stack the CPU is executing

poolVars == <<tasks, len, free_task, cur>>

Handle == 1 .. MaxTasks
Main   == 1                    \* run_async_main asserts h.idx == 1

State == {"INIT", "READY", "RUNNING", "FREE"}

(* data is the argument of the coroutine until async_return stores its
   result there.  Arguments are not told apart (NULL); the result is named
   after the coroutine that returned it, so that no two results are equal. *)
Task == [state : State, orphaned : BOOLEAN, data : Coroutine \cup {NULL},
         handle : 0 .. MaxTasks]

(* The slots beyond len are memory the pool has not handed out yet. *)
Unused == [state |-> "FREE", orphaned |-> FALSE, data |-> NULL, handle |-> 0]

PoolTypeOK ==
  /\ tasks \in [Handle -> Task]
  /\ \A h \in Handle : h > len => tasks[h] = Unused
  /\ len \in Handle
  /\ free_task \in 0 .. len
  /\ cur \in 1 .. len

------------------------------------------------------------------------------
(* start_new_task.  A slot from the free list gets every field but orphaned. *)
CanStart  == free_task # 0 \/ len < MaxTasks
NewHandle == IF free_task = 0 THEN len + 1 ELSE free_task

NewLenAlwaysGrows == len + 1                                     \* mutant
NewLen == IF free_task = 0 THEN len + 1 ELSE len

StartNewTask ==
  /\ CanStart
  /\ tasks' = [tasks EXCEPT
       ![NewHandle] = [state    |-> "INIT",
                       orphaned |-> IF free_task = 0 THEN FALSE
                                    ELSE tasks[free_task].orphaned,
                       data     |-> NULL,
                       handle   |-> NewHandle]]
  /\ len' = NewLen
  /\ free_task' = IF free_task = 0 THEN 0 ELSE tasks[free_task].handle
  /\ UNCHANGED cur

(* free_task: the slot becomes the head of the free list. *)
FreedUnlinked(ts, h) == [ts EXCEPT ![h].state = "FREE"]          \* mutant
Freed(ts, h) == [ts EXCEPT ![h].state = "FREE", ![h].handle = free_task]

(* async_switch marks a coroutine that starts for the first time. *)
Switched(ts, to) ==
  [ts EXCEPT ![to].state = IF @ = "INIT" THEN "RUNNING" ELSE @]

------------------------------------------------------------------------------
(* The slots chained from free_task are exactly the free ones, each once: the
   chain visits them in some order and ends with 0. *)
FreeSlots == {h \in 1 .. len : tasks[h].state = "FREE"}

IsFreeList(f, n) ==
  /\ \A i, j \in 1 .. n : f[i] = f[j] => i = j
  /\ {f[i] : i \in 1 .. n} = FreeSlots
  /\ free_task = IF n = 0 THEN 0 ELSE f[1]
  /\ \A i \in 1 .. n : tasks[f[i]].handle = IF i = n THEN 0 ELSE f[i + 1]

FreeListOK == \E n \in 0 .. MaxTasks : \E f \in [1 .. n -> Handle] : IsFreeList(f, n)
==============================================================================
