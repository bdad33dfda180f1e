---------------------------- MODULE GraphRuntime -----------------------------
(***************************************************************************)
(* The runtime as run_async_main starts it: the API of async.c over the    *)
(* task pool and the graph scheduler of graph_scheduler.c.                 *)
(*                                                                         *)
(* Coroutines are cooperative, so the program is always at one point: the  *)
(* running coroutine calls the API, and an API call runs until it returns  *)
(* to its caller or switches to another coroutine.  An action is one such  *)
(* stretch.  A coroutine that is switched away from inside await or        *)
(* await_any / await_all later continues there: its frame says where.      *)
(*                                                                         *)
(* The user's coroutines are the environment: they may make any call, with *)
(* any handle async_call ever returned, except where Contract restricts    *)
(* them.  A failed assertion of the library aborts the process.            *)
(*                                                                         *)
(* A definition marked "mutant" is a plausible mistake in the definition   *)
(* that follows it, unused, to see that a property fails with it.          *)
(***************************************************************************)
EXTENDS TaskPool, Functions

CONSTANTS
  MaxPoll,    \* bound: handles passed to one await_any / await_all
  Contract    \* the rules the user's coroutines follow

Clause == {"unfinished", "unblocked", "sole", "disowned", "inherited",
           "freeDone", "orphanLive", "children", "returns"}

ASSUME GraphAssumption == MaxPoll \in Nat \ {0} /\ Contract \subseteq Clause

(* A Node is calloc'ed for each coroutine that is registered, so its address
   identifies the coroutine. *)
Node == Coroutine

VARIABLES
  queue,           \* graph.queue, front first (RingQueue implements it)
  node,            \* the Node structures
  handle_to_node,  \* graph.handle_to_node, NULL where there is no entry
  frame,           \* where each coroutine continues when it is switched to
  disowned,        \* history: slots whose occupant was passed to async_orphan
  owner,           \* history: the slot of the coroutine that made the call
  process          \* "running", "exited", or the assertion that aborted it

schedVars == <<queue, node, handle_to_node>>
history   == <<disowned, owner>>
vars == <<poolVars, schedVars, frame, history, process>>

NodeRecord == [parent : Node \cup {NULL}, h : 0 .. MaxTasks, in_queue : BOOLEAN]

HandleLists == UNION {[1 .. n -> Handle] : n \in 1 .. MaxPoll}

(* at: the API call the coroutine is in ("user": its own code).  on: the
   handles it waits for.  ids: the coroutines these handles named when the
   call was made; the local variable child of graph_wait_ready, and for the
   polling calls a history of what the caller meant. *)
Frame ==
  [at : {"user", "await", "any", "all"},
   on : UNION {[1 .. n -> Handle] : n \in 0 .. MaxPoll},
   ids : UNION {[1 .. n -> Node \cup {NULL}] : n \in 0 .. MaxPoll}]

UserFrame == [at |-> "user", on |-> <<>>, ids |-> <<>>]

(* The assertions a caller can trip, and the trap behind a coroutine whose
   function returns. *)
Abort == {"no_hash_node", "has_parent", "in_queue", "switch_to_itself",
          "switch_to_0", "switch_to_READY", "poll_0", "child_not_READY",
          "trap"}

TypeOK ==
  /\ PoolTypeOK
  /\ queue \in Seq(Node)
  /\ node \in [Node -> NodeRecord]
  /\ handle_to_node \in [Handle -> Node \cup {NULL}]
  /\ frame \in [Handle -> Frame]
  /\ disowned \subseteq Handle
  /\ owner \in [Handle -> 0 .. MaxTasks]
  /\ process \in {"running", "exited"} \cup Abort

------------------------------------------------------------------------------
(* run_async_main: main is started in slot 1 and switched to. *)
Init ==
  /\ tasks = [h \in Handle |->
                IF h = Main THEN [Unused EXCEPT !.state = "RUNNING", !.handle = Main]
                            ELSE Unused]
  /\ len = 1 /\ free_task = 0 /\ cur = Main
  /\ \E n \in Node :
       /\ node = [m \in Node |-> [parent |-> NULL, h |-> IF m = n THEN Main ELSE 0,
                                  in_queue |-> m = n]]
       /\ queue = <<n>>
       /\ handle_to_node = [h \in Handle |-> IF h = Main THEN n ELSE NULL]
  /\ frame = [h \in Handle |-> UserFrame]
  /\ disowned = {} /\ owner = [h \in Handle |-> 0]
  /\ process = "running"

Issued  == 1 .. len                                  \* handles the user may hold
Running == process = "running"
InUser  == Running /\ frame[cur].at = "user"
Me      == Head(queue)                               \* node of the current task

FrontOfTheBack(q) == node[q[Len(q)]].h                           \* mutant
Front(q) == node[Head(q)].h                          \* queue_peek_front, then ->h

(* graph_next_task moves the caller to the back. *)
NotRotated == queue                                              \* mutant
Rotated == Append(Tail(queue), Me)

(* Both pushes to the front are guarded by the flag of the node pushed. *)
PushedAlways(n, q) == <<n>> \o q                                 \* mutant
Pushed(n, q) == IF node[n].in_queue THEN q ELSE <<n>> \o q

(* hash_map_remove of graph_free_task *)
NotForgotten(h) == handle_to_node                                \* mutant
Forgotten(h) == [handle_to_node EXCEPT ![h] = NULL]

Fails(assertion) ==
  /\ process' = assertion
  /\ UNCHANGED <<poolVars, schedVars, frame, history>>


SwitchTo(ts, to) == cur' = to /\ tasks' = Switched(ts, to)

(* A node no pointer of the program reaches any more is memory calloc may be
   thought to return again: graph_free_task leaks it, and it is not observed. *)
Reachable ==
  LET registered == {h \in Issued : handle_to_node[h] # NULL}
  IN Range(queue)
     \cup {handle_to_node[h] : h \in registered}
     \cup {node[handle_to_node[h]].parent : h \in registered}
     \cup {tasks[h].data : h \in registered}
     \cup UNION {Range(frame[h].ids) : h \in registered}

------------------------------------------------------------------------------
(* What the rules of Contract say of a handle.
   unfinished : wait only for a coroutine that has not returned
   unblocked  : ... that is not inside await itself
   sole       : ... that nobody else awaits, and that is not the caller
   disowned   : ... that was not given up with async_orphan
   inherited  : ... whose slot does not carry the orphaned flag
   children   : ... that the caller started itself
   freeDone   : free only a finished coroutine nobody is waiting for
   orphanLive : orphan only an unfinished coroutine nobody is waiting for
   returns    : leave the coroutine's function only through async_return *)
Follows(clause, rule) == clause \in Contract => rule

Live(h) == tasks[h].state \in {"INIT", "RUNNING"}
Polled(h) == \E w \in Issued : /\ tasks[w].state = "RUNNING"
                               /\ \E i \in DOMAIN frame[w].on : frame[w].on[i] = h

MayWait(h) ==
  /\ Follows("disowned", h \notin disowned)
  /\ Follows("inherited", ~ tasks[h].orphaned)
  /\ Follows("children", owner[h] = cur)

MayAwait(h) ==
  /\ MayWait(h)
  /\ Follows("unfinished", Live(h))
  /\ Follows("unblocked", frame[h].at # "await")
  /\ Follows("sole", h # cur /\ (handle_to_node[h] # NULL
                                    => node[handle_to_node[h]].parent = NULL))

MayPoll(hs) ==
  \A i \in DOMAIN hs : MayWait(hs[i]) /\ Follows("freeDone", tasks[hs[i]].state # "FREE")

MayFree(h)   == Follows("freeDone", tasks[h].state = "READY" /\ ~ Polled(h))
MayOrphan(h) == Follows("orphanLive", Live(h) /\ ~ Polled(h))

------------------------------------------------------------------------------
(* async_call = start_new_task and graph_register_task: the coroutine is put
   at the back of the queue and does not run yet. *)
AsyncCall ==
  /\ InUser
  /\ StartNewTask
  /\ \E n \in Node \ Reachable :
       /\ node' = [node EXCEPT ![n] = [parent |-> NULL, h |-> NewHandle, in_queue |-> TRUE]]
       /\ handle_to_node' = [handle_to_node EXCEPT ![NewHandle] = n]
       /\ queue' = Append(queue, n)
  /\ frame' = [frame EXCEPT ![NewHandle] = UserFrame]
  /\ disowned' = disowned \ {NewHandle}
  /\ owner' = [owner EXCEPT ![NewHandle] = cur]
  /\ UNCHANGED process

(* async_skip = graph_next_task and async_switch, unless the caller is the
   only coroutine in the queue; f is where the caller continues. *)
Skip(f) ==
  /\ queue' = Rotated
  /\ frame' = [frame EXCEPT ![cur] = f]
  /\ SwitchTo(tasks, Front(Rotated))
  /\ UNCHANGED <<len, free_task, node, handle_to_node, history, process>>

AsyncSkip == InUser /\ Skip(UserFrame)

(* graph_wait_ready makes the caller the parent of the awaited node. *)
LinkedInQueue(child) ==                                          \* mutant
  [node EXCEPT ![child].parent = Me, ![child].in_queue = TRUE]
Linked(child) == [node EXCEPT ![Me].in_queue = FALSE,
                              ![child].parent = Me, ![child].in_queue = TRUE]

(* await, until it switches away (graph_wait_ready up to async_switch).  The
   caller leaves the queue, becomes the parent of the awaited coroutine, and
   that coroutine is pushed to the front unless it is in the queue. *)
Await(h) ==
  LET child == handle_to_node[h]
      q     == Pushed(child, Tail(queue))
  IN /\ InUser /\ MayAwait(h)
     /\ child # NULL /\ node[child].parent = NULL
     /\ h # cur /\ tasks[h].state # "READY"
     /\ queue' = q
     /\ node' = Linked(child)
     /\ frame' = [frame EXCEPT ![cur] = [at |-> "await", on |-> <<h>>, ids |-> <<child>>]]
     /\ SwitchTo(tasks, Front(q))
     /\ UNCHANGED <<len, free_task, handle_to_node, history, process>>

AwaitAborts(h) ==
  LET child == handle_to_node[h]
  IN /\ InUser /\ MayAwait(h)
     /\ \/ child = NULL /\ Fails("no_hash_node")
        \/ child # NULL /\ node[child].parent # NULL /\ Fails("has_parent")
        \/ child # NULL /\ node[child].parent = NULL /\ h = cur /\ Fails("switch_to_itself")
        \/ child # NULL /\ node[child].parent = NULL /\ tasks[h].state = "READY"
             /\ Fails("switch_to_READY")

(* The rest of graph_wait_ready, when the caller is switched to again. *)
AwaitReturns ==
  LET child == frame[cur].ids[1]
  IN /\ Running /\ frame[cur].at = "await"
     /\ node[child].h # 0 /\ tasks[node[child].h].state = "READY"
     /\ frame' = [frame EXCEPT ![cur] = UserFrame]
     /\ UNCHANGED <<poolVars, schedVars, history, process>>

AwaitReturnAborts ==
  LET child == frame[cur].ids[1]
  IN /\ Running /\ frame[cur].at = "await"
     /\ \/ node[child].h = 0 /\ Fails("poll_0")
        \/ /\ node[child].h # 0 /\ tasks[node[child].h].state # "READY"
           /\ Fails("child_not_READY")

(* One iteration of the loop of await_any (some handle is READY) or await_all
   (every handle is READY): return to the caller, or skip and try again. *)
IsStarted(h) == tasks[h].state # "INIT"                          \* mutant
IsReady(h) == tasks[h].state = "READY"
SatisfiedByOne(f) == \E i \in DOMAIN f.on : IsReady(f.on[i])     \* mutant
Satisfied(f) == IF f.at = "any" THEN \E i \in DOMAIN f.on : IsReady(f.on[i])
                                ELSE \A i \in DOMAIN f.on : IsReady(f.on[i])

PollOnce(f) ==
  \/ /\ Satisfied(f)
     /\ frame' = [frame EXCEPT ![cur] = UserFrame]
     /\ UNCHANGED <<poolVars, schedVars, history, process>>
  \/ ~ Satisfied(f) /\ Skip(f)

PollFrame(at, hs) ==
  [at |-> at, on |-> hs, ids |-> [i \in DOMAIN hs |-> handle_to_node[hs[i]]]]

AwaitAny(hs) == InUser /\ MayPoll(hs) /\ PollOnce(PollFrame("any", hs))
AwaitAll(hs) == InUser /\ MayPoll(hs) /\ PollOnce(PollFrame("all", hs))
PollAgain    == Running /\ frame[cur].at \in {"any", "all"} /\ PollOnce(frame[cur])

(* async_free = free_task: graph_free_task forgets the node, then the slot is
   chained into the free list. *)
AsyncFree(h) ==
  LET n == handle_to_node[h]
  IN /\ InUser /\ MayFree(h)
     /\ n # NULL /\ ~ node[n].in_queue
     /\ handle_to_node' = Forgotten(h)
     /\ node' = [node EXCEPT ![n].h = 0]
     /\ tasks' = Freed(tasks, h)
     /\ free_task' = h
     /\ UNCHANGED <<len, cur, queue, frame, history, process>>

AsyncFreeAborts(h) ==
  LET n == handle_to_node[h]
  IN /\ InUser /\ MayFree(h)
     /\ \/ n = NULL /\ Fails("no_hash_node")
        \/ n # NULL /\ node[n].in_queue /\ Fails("in_queue")

AsyncOrphan(h) ==
  /\ InUser /\ MayOrphan(h)
  /\ tasks' = [tasks EXCEPT ![h].orphaned = TRUE]
  /\ disowned' = disowned \cup {h}
  /\ UNCHANGED <<len, free_task, cur, schedVars, frame, owner, process>>

(* async_return of a coroutine other than main.  graph_finish_task removes
   the current node and chooses who runs next: the parent, put at the front,
   unless it is in the queue; else the front.  Then the result is stored and
   an orphan is freed. *)
Parent == node[Me].parent

WakesNever == FALSE                                              \* mutant
WakesQueued == Parent # NULL /\ node[Parent].in_queue            \* mutant
Wakes  == Parent # NULL /\ ~ node[Parent].in_queue
AfterFinish == IF Wakes THEN <<Parent>> \o Tail(queue) ELSE Tail(queue)

FinishedWithoutData(ts) == [ts EXCEPT ![cur].state = "READY"]    \* mutant
StillRunning(ts) == [ts EXCEPT ![cur].data = Me]                 \* mutant
Finished(ts) == [ts EXCEPT ![cur].data = Me, ![cur].state = "READY"]

NeverReclaims == FALSE                                           \* mutant
Reclaims == tasks[cur].orphaned

Dequeued == [n \in Node |-> [node[n] EXCEPT
               !.in_queue = IF n = Me THEN FALSE ELSE @ \/ (Wakes /\ n = Parent)]]

AsyncReturn ==
  /\ InUser /\ cur # Main
  /\ AfterFinish # <<>> /\ Front(AfterFinish) # 0
  /\ queue' = AfterFinish
  /\ IF Reclaims
     THEN /\ node' = [Dequeued EXCEPT ![Me].h = 0]
          /\ handle_to_node' = Forgotten(cur)
          /\ free_task' = cur
          /\ SwitchTo(Freed(Finished(tasks), cur), Front(AfterFinish))
     ELSE /\ node' = Dequeued
          /\ UNCHANGED <<handle_to_node, free_task>>
          /\ SwitchTo(Finished(tasks), Front(AfterFinish))
  /\ owner' = [h \in Handle |-> IF owner[h] = cur THEN 0 ELSE owner[h]]
  /\ UNCHANGED <<len, frame, disowned, process>>

(* The parent was freed while it waited, so the switch goes to handle 0. *)
AsyncReturnAborts ==
  /\ InUser /\ cur # Main
  /\ AfterFinish # <<>> /\ Front(AfterFinish) = 0
  /\ Fails("switch_to_0")

(* async_return of main, in async_deinit and exit. *)
MainReturns ==
  /\ InUser /\ cur = Main
  /\ process' = "exited"
  /\ UNCHANGED <<poolVars, schedVars, frame, history>>

(* The function of a coroutine returns without async_return. *)
FallsOff == InUser /\ "returns" \notin Contract /\ Fails("trap")

Ended == ~ Running /\ UNCHANGED vars

Next ==
  \/ AsyncCall \/ AsyncSkip \/ AsyncReturn \/ AsyncReturnAborts \/ MainReturns
  \/ AwaitReturns \/ AwaitReturnAborts \/ PollAgain \/ FallsOff \/ Ended
  \/ \E h \in Issued : \/ Await(h) \/ AwaitAborts(h)
                       \/ AsyncFree(h) \/ AsyncFreeAborts(h)
                       \/ AsyncOrphan(h)
  \/ \E hs \in HandleLists :
       (\A i \in DOMAIN hs : hs[i] \in Issued) /\ (AwaitAny(hs) \/ AwaitAll(hs))

Spec == Init /\ [][Next]_vars

(* The program is never stopped between two API calls, and a coroutine's own
   code does not keep the CPU for ever: it comes back to a call that may switch,
   and the polling loops and await go on when their coroutine is switched to. *)
Proceeds == AsyncSkip \/ AsyncReturn \/ PollAgain \/ AwaitReturns

FairSpec == Spec /\ WF_vars(Proceeds)

(* Besides, each coroutine but main returns if it is scheduled often enough. *)
Returns(h) == cur = h /\ AsyncReturn

TerminatingSpec == FairSpec /\ \A h \in Handle : SF_vars(Returns(h))

------------------------------------------------------------------------------
(* The queue lists the runnable coroutines, each once.  The in_queue flags,
   from which every call decides whether to push a node again, agree with it,
   and each node in it is a coroutine that async_switch can run: what
   verify_queue and the asserts of async_switch demand. *)
QueueOK ==
  /\ \A i, j \in DOMAIN queue : queue[i] = queue[j] => i = j
  /\ \A n \in Node : node[n].in_queue <=> n \in Range(queue)
  /\ \A n \in Range(queue) : node[n].h # 0 /\ Live(node[n].h)

(* The scheduler finds out who is calling by looking at the front of the
   queue.  That is always the coroutine whose stack is in use. *)
RunningAtFront ==
  Running => queue # <<>> /\ node[Me].h = cur /\ tasks[cur].state = "RUNNING"

(* The map has an entry for exactly the slots in use, and a slot's node is the
   only one that names the slot.  A free slot has no entry: graph_register_task
   relies on it, it would write through NULL if it found one. *)
RegistryOK ==
  /\ \A h \in Handle :
       /\ handle_to_node[h] = NULL <=> tasks[h].state = "FREE"
       /\ handle_to_node[h] # NULL => node[handle_to_node[h]].h = h
  /\ \A n \in Node : node[n].h # 0 => handle_to_node[node[n].h] = n

(* The parent of an unfinished coroutine is blocked in the await that made it
   the parent, so graph_finish_task wakes the right one, out of the queue; the
   exception is a parent that was itself awaited meanwhile and therefore
   switched to: its await is about to abort. *)
Awaited(n) == node[n].h # 0 /\ Live(node[n].h) /\ node[n].parent # NULL

ParentsWait ==
  \A n \in Node :
    LET p == node[n].parent
    IN Awaited(n) /\ node[p].h # 0 =>
         /\ tasks[node[p].h].state = "RUNNING"
         /\ frame[node[p].h].at = "await"
         /\ frame[node[p].h].ids[1] = n
         /\ (node[p].in_queue => node[p].h = cur)

(* Nobody waits in vain.  A coroutine that has run and is in no queue is inside
   await; the coroutine it awaits was freed under it, or is unfinished and has it
   as its parent, so that graph_finish_task will wake it. *)
Blocked(h) == /\ tasks[h].state = "RUNNING"
              /\ handle_to_node[h] # NULL /\ ~ node[handle_to_node[h]].in_queue

WaitersLinked ==
  \A h \in Issued : Blocked(h) =>
    /\ frame[h].at = "await"
    /\ LET child == frame[h].ids[1]
       IN node[child].h # 0 => /\ node[child].h = frame[h].on[1]
                               /\ node[child].parent = handle_to_node[h]
                               /\ Live(node[child].h)

(* When a coroutine returns there is another one to switch to: queue_peek_front
   in graph_finish_task never finds the queue empty. *)
SuccessorExists == InUser /\ cur # Main => AfterFinish # <<>>

(* await returns the result of the coroutine that was awaited, and of no later
   occupant of its slot. *)
AwaitYieldsResult ==
  [][frame[cur].at = "await" /\ frame'[cur].at = "user"
       => tasks[frame[cur].on[1]].data = frame[cur].ids[1]]_vars

(* The same of await_any and await_all, after they have skipped: the results
   they read are those of the coroutines whose handles they were called with. *)
PollYieldsResults ==
  [][frame[cur].at \in {"any", "all"} /\ frame'[cur].at = "user"
       => \A i \in DOMAIN frame[cur].on :
            IsReady(frame[cur].on[i]) => tasks[frame[cur].on[i]].data = frame[cur].ids[i]]_vars

(* A program that follows the contract never trips an assertion. *)
NoAbort == process \notin Abort

(* What two assertions of the code say of any program.
   async_switch, switch.c:51: "f2->state != READY". *)
SwitchesToRunnable == process # "switch_to_READY"

(* graph_poll_task, graph_scheduler.c:117: "h.idx", the handle polled is one. *)
PollsAHandle == process # "poll_0"

(* Every coroutine in the queue gets the CPU, whatever the others call, though
   await and async_return push at the front. *)
Scheduled == \A n \in Node : (n \in Range(queue)) ~> (~ Running \/ Head(queue) = n)

(* Every call of await, await_any and await_all returns. *)
WaitsEnd == \A h \in Handle : (frame[h].at # "user") ~> (~ Running \/ frame[h].at = "user")

(* The slot of an orphan is reclaimed (main's never is: main exits). *)
OrphansReclaimed ==
  \A h \in Handle \ {Main} : (h \in disowned) ~> (~ Running \/ tasks[h].state = "FREE")

(* Together: the graph scheduler gives a careful program the API of AsyncSpec. *)
Occupied(n) == node[n].h # 0
API == INSTANCE AsyncSpec WITH
         live <- {n \in Node : Occupied(n) /\ Live(node[n].h)},
         done <- {n \in Node : Occupied(n) /\ IsReady(node[n].h)},
         waits <- [n \in Node |->
                     IF Occupied(n) THEN [for |-> Range(frame[node[n].h].ids),
                                          all |-> frame[node[n].h].at = "all"]
                     ELSE [for |-> {}, all |-> FALSE]]
ImplementsAsync == API!Spec
==============================================================================
