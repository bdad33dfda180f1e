---------------------------- MODULE QueueRuntime -----------------------------
(***************************************************************************)
(* The API of async.c over the other scheduler behind the same function    *)
(* table: the plain queue of queue_scheduler.c (use_queue_scheduler).      *)
(* Nobody ever leaves the queue but by returning: whoever waits stays in   *)
(* it and polls.  The scheduler keeps no record of who waits for whom, and *)
(* async_free asks it nothing: the handle of a coroutine that is freed     *)
(* while it is queued stays there, and is queued again with the coroutine  *)
(* that gets its slot.                                                     *)
(*                                                                         *)
(* As in GraphRuntime, an action is the stretch from one API call to the   *)
(* point where the call returns to its caller or switches away, the user's *)
(* coroutines are the environment, and Contract restricts them.            *)
(***************************************************************************)
EXTENDS TaskPool, Functions

CONSTANTS
  MaxPoll,    \* bound: handles passed to one await_any / await_all
  MaxQueue,   \* bound: handles in the queue, which grows with each free and call
  Contract    \* the rules the user's coroutines follow

(* kept       : wait only for a coroutine whose slot carries no orphaned flag
   children   : ... that the caller started itself
   freeDone   : free only a finished coroutine nobody is waiting for
   orphanLive : orphan only an unfinished coroutine nobody is waiting for *)
Clause == {"kept", "children", "freeDone", "orphanLive"}

ASSUME QueueAssumption ==
  MaxPoll \in Nat \ {0} /\ MaxQueue \in Nat /\ Contract \subseteq Clause

VARIABLES
  queue,      \* queue_scheduler.c's queue of handles, front first
  frame,      \* where each coroutine continues when it is switched to
  occupant,   \* history: the coroutine in each slot
  owner,      \* history: the slot of the coroutine that made the call
  process     \* "running", "exited", "trap", or the assertion that failed

vars == <<poolVars, queue, frame, occupant, owner, process>>

HandleLists == UNION {[1 .. n -> Handle] : n \in 1 .. MaxPoll}

(* await(h) is the loop of await_any over the one handle h (busy_wait_ready),
   so a wait is for "any" or for "all" of some handles. *)
Frame == [at : {"user", "any", "all"},
          on : UNION {[1 .. n -> Handle] : n \in 0 .. MaxPoll},
          ids : UNION {[1 .. n -> Coroutine \cup {NULL}] : n \in 0 .. MaxPoll}]

UserFrame == [at |-> "user", on |-> <<>>, ids |-> <<>>]

Abort == {"switch_to_FREE", "switch_to_READY", "slot_not_FREE"}

TypeOK ==
  /\ PoolTypeOK
  /\ queue \in Seq(Handle)
  /\ frame \in [Handle -> Frame]
  /\ occupant \in [Handle -> Coroutine \cup {NULL}]
  /\ owner \in [Handle -> 0 .. MaxTasks]
  /\ process \in {"running", "exited", "trap"} \cup Abort

Init ==
  /\ tasks = [h \in Handle |->
                IF h = Main THEN [Unused EXCEPT !.state = "RUNNING", !.handle = Main]
                            ELSE Unused]
  /\ len = 1 /\ free_task = 0 /\ cur = Main /\ queue = <<Main>>
  /\ frame = [h \in Handle |-> UserFrame]
  /\ \E c \in Coroutine : occupant = [h \in Handle |-> IF h = Main THEN c ELSE NULL]
  /\ owner = [h \in Handle |-> 0]
  /\ process = "running"

------------------------------------------------------------------------------
Issued  == 1 .. len
Running == process = "running"
InUser  == Running /\ frame[cur].at = "user"

Ends(how) == process' = how /\ UNCHANGED <<poolVars, queue, frame, occupant, owner>>

(* async_switch asserts that its target is neither FREE nor READY: a handle in the
   queue may be that of a freed coroutine, or be there twice and have returned. *)
CanRun(ts, h) == ts[h].state \notin {"FREE", "READY"}
Refused(ts, h) ==
  Ends(IF ts[h].state = "FREE" THEN "switch_to_FREE" ELSE "switch_to_READY")

(* next_task pops the caller, pushes it to the back and peeks. *)
PoppedOnly == IF Tail(queue) = <<>> THEN queue ELSE Tail(queue)   \* mutant
Rotated == Append(Tail(queue), Head(queue))

Follows(clause, rule) == clause \in Contract => rule

Live(h) == tasks[h].state \in {"INIT", "RUNNING"}
Polled(h) == \E w \in Issued : Live(w) /\ h \in Range(frame[w].on)

MayWait(h) == /\ Follows("kept", ~ tasks[h].orphaned /\ tasks[h].state # "FREE")
              /\ Follows("children", owner[h] = cur)
MayFree(h)   == Follows("freeDone", tasks[h].state = "READY" /\ ~ Polled(h))
MayOrphan(h) == Follows("orphanLive", Live(h) /\ ~ Polled(h))

(* The coroutines some value of the program still speaks of. *)
Remembered == Range(occupant) \cup {tasks[h].data : h \in Handle}
                \cup UNION {Range(frame[h].ids) : h \in Handle}

------------------------------------------------------------------------------
(* async_call: start_new_task, then register_task at the back.  start_new_task
   asserts that the head of the free list is FREE, not that its handle is in no
   queue.  The coroutine that runs may even get its own slot, after it has freed
   itself: two coroutines then share the handle and the stack. *)
RegisteredInFront(h) == <<h>> \o queue                           \* mutant
Registered(h) == Append(queue, h)

AsyncCall ==
  /\ InUser
  /\ IF free_task # 0 /\ tasks[free_task].state # "FREE" THEN Ends("slot_not_FREE")
     ELSE /\ Len(queue) < MaxQueue
          /\ StartNewTask
          /\ queue' = Registered(NewHandle)
          /\ \E c \in Coroutine \ Remembered : occupant' = [occupant EXCEPT ![NewHandle] = c]
          /\ frame' = [frame EXCEPT ![NewHandle] = UserFrame]
          /\ owner' = [owner EXCEPT ![NewHandle] = cur]
          /\ UNCHANGED process

(* Where the caller will continue.  If its slot is INIT, another coroutine has got
   it: that one is started there, on top of the frames of the caller, which will
   not continue. *)
Suspended(f) == IF tasks[cur].state = "INIT" THEN UserFrame ELSE f

(* async_skip: with nobody else at the front the caller goes on. *)
Skip(f) ==
  LET to == Head(Rotated)
  IN IF to # cur /\ ~ CanRun(tasks, to) THEN Refused(tasks, to)
     ELSE /\ queue' = Rotated
          /\ cur' = to
          /\ tasks' = IF to = cur THEN tasks ELSE Switched(tasks, to)
          /\ frame' = [frame EXCEPT ![cur] = IF to = cur THEN f ELSE Suspended(f)]
          /\ UNCHANGED <<len, free_task, occupant, owner, process>>

AsyncSkip == InUser /\ Skip(UserFrame)

(* One iteration of busy_wait_ready, await_any or await_all. *)
IsReady(h) == tasks[h].state = "READY"
SatisfiedByOne(f) == \E h \in Range(f.on) : IsReady(h)           \* mutant
Satisfied(f) == IF f.at = "any" THEN \E h \in Range(f.on) : IsReady(h)
                                ELSE \A h \in Range(f.on) : IsReady(h)

PollOnce(f) ==
  \/ /\ Satisfied(f)
     /\ frame' = [frame EXCEPT ![cur] = UserFrame]
     /\ UNCHANGED <<poolVars, queue, occupant, owner, process>>
  \/ ~ Satisfied(f) /\ Skip(f)

Await(at, hs) ==
  /\ InUser /\ \A h \in Range(hs) : MayWait(h)
  /\ PollOnce([at |-> at, on |-> hs, ids |-> [i \in DOMAIN hs |-> occupant[hs[i]]]])

PollAgain == Running /\ frame[cur].at # "user" /\ PollOnce(frame[cur])

(* async_free: queue_free_task is empty, so any handle is chained. *)
AsyncFree(h) ==
  /\ InUser /\ MayFree(h)
  /\ tasks' = Freed(tasks, h)
  /\ free_task' = h
  /\ occupant' = [occupant EXCEPT ![h] = NULL]
  /\ UNCHANGED <<len, cur, queue, frame, owner, process>>

AsyncOrphan(h) ==
  /\ InUser /\ MayOrphan(h)
  /\ tasks' = [tasks EXCEPT ![h].orphaned = TRUE]
  /\ UNCHANGED <<len, free_task, cur, queue, frame, occupant, owner, process>>

(* async_return of a coroutine other than main: finish_task pops the caller and
   peeks; then the result is stored and an orphan is chained. *)
NotPopped(q) == Rotated                                          \* mutant
Popped(q) == Tail(q)

FinishedWithoutData(ts) == [ts EXCEPT ![cur].state = "READY"]    \* mutant
StillRunning(ts) == [ts EXCEPT ![cur].data = occupant[cur]]      \* mutant
Finished(ts) == [ts EXCEPT ![cur].data = occupant[cur], ![cur].state = "READY"]

AsyncReturn ==
  LET orphan == tasks[cur].orphaned
      ended  == IF orphan THEN Freed(Finished(tasks), cur) ELSE Finished(tasks)
      to     == Head(Popped(queue))
  IN /\ InUser /\ cur # Main
     /\ IF ~ CanRun(ended, to) THEN Refused(ended, to)
        ELSE /\ queue' = Popped(queue)
             /\ cur' = to
             /\ tasks' = Switched(ended, to)
             /\ free_task' = IF orphan THEN cur ELSE free_task
             /\ occupant' = IF orphan THEN [occupant EXCEPT ![cur] = NULL] ELSE occupant
             /\ owner' = [h \in Handle |-> IF owner[h] = cur THEN 0 ELSE owner[h]]
             /\ UNCHANGED <<len, frame, process>>

MainReturns == InUser /\ cur = Main /\ Ends("exited")

(* A function that returns by itself runs into the trap behind its call. *)
FallsOff == InUser /\ Ends("trap")

Ended == ~ Running /\ UNCHANGED vars

Next ==
  \/ AsyncCall \/ AsyncSkip \/ AsyncReturn \/ MainReturns
  \/ PollAgain \/ FallsOff \/ Ended
  \/ \E h \in Issued : AsyncFree(h) \/ AsyncOrphan(h)
  \/ \E at \in {"any", "all"}, hs \in HandleLists :
       Range(hs) \subseteq Issued /\ Await(at, hs)

Spec == Init /\ [][Next]_vars

(* The program is not stopped between two calls, no coroutine keeps the CPU for
   ever, and each coroutine but main returns if it is scheduled often enough. *)
Proceeds == AsyncSkip \/ AsyncReturn \/ PollAgain
Returns(h) == cur = h /\ AsyncReturn

FairSpec == Spec /\ WF_vars(Proceeds) /\ \A h \in Handle : SF_vars(Returns(h))

------------------------------------------------------------------------------
(* Every function of the API takes the front of the queue for its caller, and
   async_return peeks after it has popped, with no check.  Whatever is freed and
   called, the front is the coroutine whose stack is in use, and main never leaves
   the queue, so that there is always somebody to switch to. *)
QueueOK ==
  /\ Main \in Range(queue)
  /\ Running => Head(queue) = cur

(* In a careful program the queue holds exactly the unfinished coroutines, each
   once: none is lost while it waits, none is scheduled after it has ended or was
   freed, though async_free asks the scheduler nothing; and the free list holds
   each free slot once. *)
QueueHoldsLive ==
  /\ \A h \in Handle : h \in Range(queue) <=> Live(h)
  /\ IsInjective(queue)
  /\ FreeListOK

(* await, await_any and await_all return the results of the coroutines they were
   called with, and of no later occupant of the slot. *)
YieldsResults ==
  [][frame[cur].at # "user" /\ frame'[cur].at = "user"
       => \A i \in DOMAIN frame[cur].on :
            IsReady(frame[cur].on[i]) => tasks[frame[cur].on[i]].data = frame[cur].ids[i]]_vars

(* A program that follows the contract trips no assertion. *)
NoAbort == process \notin Abort

(* Every await, await_any and await_all returns, though they only poll. *)
WaitsEnd == \A h \in Handle : (frame[h].at # "user") ~> (~ Running \/ frame[h].at = "user")

(* Together: the queue scheduler gives a careful program the same API. *)
Slot(c) == {h \in Handle : occupant[h] = c}
API == INSTANCE AsyncSpec WITH
         live <- {c \in Coroutine : \E h \in Slot(c) : Live(h)},
         done <- {c \in Coroutine : \E h \in Slot(c) : IsReady(h)},
         waits <- [c \in Coroutine |->
                     [for |-> UNION {Range(frame[h].ids) : h \in Slot(c)},
                      all |-> \E h \in Slot(c) : frame[h].at = "all"]]
ImplementsAsync == API!Spec
==============================================================================
