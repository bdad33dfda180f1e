-------------------------- MODULE GraphRuntimeProofs --------------------------
(***************************************************************************)
(* Proofs about the graph scheduler, for every number of slots and every    *)
(* set of coroutines.  The invariants are layers, each with the rules of    *)
(* the contract that it needs:                                              *)
(*                                                                          *)
(*   IInv       any contract: the queue, the map, the task states, the      *)
(*              parents and the free list agree;                            *)
(*   WaitInv    any contract: whom each waiting coroutine waits for, and    *)
(*              that its parent pointer will wake it;                       *)
(*   ChainInv   freeDone: what is awaited is not freed, and nobody waits    *)
(*              in a circle, so somebody can run;                           *)
(*   ResultInv  inherited, freeDone, orphanLive: a handle that is waited    *)
(*              for names the coroutine it named when the wait began;       *)
(*   SafeInv    every rule but disowned and children: no assertion fails.   *)
(*                                                                          *)
(* The calls that change more than a frame are first reduced to what they   *)
(* do, slot by slot and node by node; everything else is a step of Moves.   *)
(***************************************************************************)
EXTENDS GraphRuntime, TaskPoolProofs

IInv ==
  /\ TypeOK
  /\ QueueOK
  /\ RunningAtFront
  /\ RegistryOK
  /\ ParentsWait
  /\ FreeChain

(* What the calls that change more than their own frame do, slot by slot and
   node by node.  async_call puts the coroutine of node n in slot g: *)
Called(g, n) ==
  /\ Running /\ cur' = cur /\ g # cur
  /\ tasks[g].state = "FREE" /\ handle_to_node[g] = NULL
  /\ node[n].h = 0
  /\ \A h \in Handle : handle_to_node[h] # NULL =>
       handle_to_node[h] # n /\ n \notin Range(frame[h].ids)
  /\ \A m \in Node : node[m].h # 0 =>
       m # n /\ node[m].parent # n /\ node[m].h \in Handle \ {g}
  /\ tasks'[g].state = "INIT"
  /\ \A h \in Handle \ {g} : tasks'[h] = tasks[h]
  /\ \A m \in Node \ {n} : node'[m] = node[m]
  /\ node'[n].parent = NULL /\ node'[n].h = g /\ node'[n].in_queue = TRUE
  /\ \A h \in Handle : handle_to_node'[h] = IF h = g THEN n ELSE handle_to_node[h]
  /\ \A h \in Handle : frame'[h] = IF h = g THEN UserFrame ELSE frame[h]

(* await by the coroutine of node m for the coroutine of node n, in slot h: *)
Awaits(h, n, m) ==
  /\ Running /\ frame[cur].at = "user" /\ MayAwait(h)
  /\ cur \in Handle /\ m = Me /\ handle_to_node[cur] = m /\ node[m].h = cur
  /\ tasks[cur].state = "RUNNING" /\ node[m].in_queue
  /\ h # cur /\ handle_to_node[h] = n /\ node[n].h = h /\ n # m
  /\ node[n].parent = NULL /\ Live(h)
  /\ \A g \in Handle :
       /\ tasks'[g].data = tasks[g].data /\ tasks'[g].orphaned = tasks[g].orphaned
       /\ \/ tasks'[g].state = tasks[g].state
          \/ tasks[g].state = "INIT" /\ tasks'[g].state = "RUNNING"
       /\ frame'[g] = IF g = cur THEN [at |-> "await", on |-> <<h>>, ids |-> <<n>>]
                      ELSE frame[g]
  /\ \A k \in Node :
       /\ node'[k].h = node[k].h
       /\ node'[k].parent = IF k = n THEN m ELSE node[k].parent
       /\ node'[k].in_queue = IF k = n THEN TRUE
                              ELSE IF k = m THEN FALSE ELSE node[k].in_queue
  /\ handle_to_node' = handle_to_node

(* async_free of slot h, whose node is n: *)
Frees(h, n) ==
  /\ Running /\ cur' = cur /\ h # cur /\ MayFree(h)
  /\ handle_to_node[h] = n /\ node[n].h = h /\ ~ node[n].in_queue
  /\ tasks[h].state # "FREE" /\ tasks'[h].state = "FREE"
  /\ \A g \in Handle \ {h} : tasks'[g] = tasks[g]
  /\ node'[n].h = 0
  /\ \A k \in Node \ {n} : node'[k].h = node[k].h
  /\ \A k \in Node : /\ node'[k].parent = node[k].parent
                      /\ node'[k].in_queue = node[k].in_queue
  /\ \A g \in Handle : handle_to_node'[g] = IF g = h THEN NULL ELSE handle_to_node[g]
  /\ frame' = frame

(* async_return of the coroutine of node m, whose parent is p: *)
Returned(m, p) ==
  /\ Running /\ frame[cur].at = "user" /\ cur # Main
  /\ cur \in Handle /\ m = Me /\ handle_to_node[cur] = m /\ node[m].h = cur
  /\ tasks[cur].state = "RUNNING" /\ node[m].parent = p
  /\ \A g \in Handle \ {cur} :
       /\ tasks'[g].data = tasks[g].data /\ tasks'[g].orphaned = tasks[g].orphaned
       /\ \/ tasks'[g].state = tasks[g].state
          \/ tasks[g].state = "INIT" /\ tasks'[g].state = "RUNNING"
       /\ handle_to_node'[g] = handle_to_node[g]
  /\ IF tasks[cur].orphaned
     THEN tasks'[cur].state = "FREE" /\ handle_to_node'[cur] = NULL /\ node'[m].h = 0
     ELSE /\ tasks'[cur].state = "READY" /\ tasks'[cur].data = m
          /\ ~ tasks'[cur].orphaned
          /\ handle_to_node'[cur] = m /\ node'[m].h = cur
  /\ \A k \in Node \ {m} : node'[k].h = node[k].h
  /\ \A k \in Node :
       /\ node'[k].parent = node[k].parent
       /\ node'[k].in_queue = IF k = m THEN FALSE ELSE node[k].in_queue \/ k = p
  /\ frame' = frame

LEMMA Frames ==
  /\ UserFrame \in Frame
  /\ \A h \in Handle, c \in Node \cup {NULL} :
       [at |-> "await", on |-> <<h>>, ids |-> <<c>>] \in Frame
<1>1. 0 \in 0 .. MaxPoll /\ 1 \in 0 .. MaxPoll
  BY GraphAssumption
<1>2. <<>> \in [1 .. 0 -> Handle] /\ <<>> \in [1 .. 0 -> Node \cup {NULL}]
  OBVIOUS
<1>3. UserFrame \in Frame
  BY <1>1, <1>2 DEF UserFrame, Frame
<1>4. ASSUME NEW h \in Handle, NEW c \in Node \cup {NULL}
      PROVE  [at |-> "await", on |-> <<h>>, ids |-> <<c>>] \in Frame
  <2>1. <<h>> \in [1 .. 1 -> Handle] /\ <<c>> \in [1 .. 1 -> Node \cup {NULL}]
    OBVIOUS
  <2>2. /\ <<h>> \in UNION {[1 .. n -> Handle] : n \in 0 .. MaxPoll}
        /\ <<c>> \in UNION {[1 .. n -> Node \cup {NULL}] : n \in 0 .. MaxPoll}
    BY <2>1, <1>1
  <2> QED BY <2>2 DEF Frame
<1> QED BY <1>3, <1>4

LEMMA PollFrames ==
  ASSUME TypeOK, NEW hs \in HandleLists, NEW at \in {"any", "all"}
  PROVE  PollFrame(at, hs) \in Frame /\ PollFrame(at, hs).at = at
<1>1. PICK n \in 1 .. MaxPoll : hs \in [1 .. n -> Handle]
  BY DEF HandleLists
<1>2. n \in 0 .. MaxPoll
  BY GraphAssumption
<1>3. [i \in DOMAIN hs |-> handle_to_node[hs[i]]] \in [1 .. n -> Node \cup {NULL}]
  BY <1>1 DEF TypeOK
<1> QED BY <1>1, <1>2, <1>3 DEF PollFrame, Frame

------------------------------------------------------------------------------
(* The running coroutine, as the invariant describes it. *)
LEMMA CurrentNode ==
  ASSUME IInv, Running
  PROVE  /\ queue \in Seq(Node) /\ queue # <<>> /\ IsInjective(queue)
         /\ Me \in Node /\ Me \in Range(queue) /\ Range(queue) \subseteq Node
         /\ node[Me].h = cur /\ node[Me].in_queue
         /\ cur \in Handle /\ handle_to_node[cur] = Me
         /\ tasks[cur].state = "RUNNING"
<1>1. queue \in Seq(Node) /\ queue # <<>> /\ IsInjective(queue)
  BY DEF IInv, TypeOK, QueueOK, RunningAtFront, IsInjective
<1>2. Me \in Node /\ Me \in Range(queue) /\ Range(queue) \subseteq Node
  BY <1>1, NonEmpty DEF Me
<1>3. node[Me].h = cur /\ tasks[cur].state = "RUNNING"
  BY DEF IInv, RunningAtFront
<1>4. cur \in Handle
  BY PoolBounds DEF IInv, TypeOK, PoolTypeOK
<1>5. handle_to_node[cur] = Me
  BY <1>2, <1>3, <1>4, PoolAssumption DEF IInv, RegistryOK, Handle
<1>6. node[Me].in_queue
  BY <1>2 DEF IInv, QueueOK
<1> QED BY <1>1, <1>2, <1>3, <1>4, <1>5, <1>6

(* Every queued node is a coroutine that can run. *)
LEMMA QueuedNode ==
  ASSUME IInv, NEW n \in Node, node[n].h # 0
  PROVE  /\ node[n].h \in Handle
         /\ handle_to_node[node[n].h] = n
         /\ node[n].h \in 1 .. len
         /\ n \in Range(queue) => Live(node[n].h)
<1>1. node[n].h \in Handle
  BY DEF IInv, TypeOK, NodeRecord, Handle
<1>2. handle_to_node[node[n].h] = n
  BY DEF IInv, RegistryOK
<1>3. n # NULL
  BY PoolAssumption DEF Node
<1>4. tasks[node[n].h].state # "FREE"
  BY <1>1, <1>2, <1>3 DEF IInv, RegistryOK
<1>5. node[n].h \in 1 .. len
  BY <1>1, <1>4, PoolAssumption DEF IInv, TypeOK, PoolTypeOK, Unused, Handle
<1> QED BY <1>1, <1>2, <1>5 DEF IInv, QueueOK

(* While a coroutine executes its own code or polls, no parent is queued. *)
LEMMA ParentsOutOfQueue ==
  ASSUME IInv, Running, frame[cur].at # "await",
         NEW n \in Node, Awaited(n), node[node[n].parent].h # 0
  PROVE  /\ node[n].parent \in Node
         /\ node[node[n].parent].h # cur
         /\ ~ node[node[n].parent].in_queue
<1>1. node[n].parent \in Node
  BY DEF IInv, TypeOK, NodeRecord, Awaited
<1> QED BY <1>1 DEF IInv, ParentsWait

------------------------------------------------------------------------------
(* async_skip, from user code and from the polling loops. *)
LEMMA SkipKeeps ==
  ASSUME IInv, Running, frame[cur].at # "await",
         NEW f \in Frame, f.at # "await", Skip(f)
  PROVE  IInv'
<1> DEFINE q == Rotated  n == Head(q)  to == node[n].h
<1>1. /\ q \in Seq(Node) /\ q # <<>> /\ IsInjective(q) /\ Range(q) = Range(queue)
  <2>1. /\ Tail(queue) \in Seq(Node) /\ IsInjective(Tail(queue))
        /\ Range(Tail(queue)) = Range(queue) \ {Me} /\ Me \in Node
        /\ Me \in Range(queue)
    BY CurrentNode, TailDistinct DEF Me
  <2>2. Me \notin Range(Tail(queue))
    BY <2>1
  <2>3. /\ q \in Seq(Node) /\ q # <<>> /\ IsInjective(q)
        /\ Range(q) = Range(Tail(queue)) \cup {Me}
    <3> DEFINE t == Tail(queue)
    <3>1. t \in Seq(Node) /\ IsInjective(t) /\ Me \in Node /\ Me \notin Range(t)
      BY <2>1, <2>2
    <3>2. q = Append(t, Me)
      BY DEF Rotated
    <3> HIDE DEF t, q
    <3>3. /\ Append(t, Me) \in Seq(Node) /\ Append(t, Me) # <<>>
          /\ IsInjective(Append(t, Me)) /\ Range(Append(t, Me)) = Range(t) \cup {Me}
      BY <3>1, AppendDistinct
    <3> QED BY <3>2, <3>3 DEF t
  <2> HIDE DEF q
  <2> QED BY <2>1, <2>3
<1> HIDE DEF q
<1>2. n \in Node /\ n \in Range(queue)
  BY <1>1, NonEmpty
<1>3. to # 0 /\ Live(to) /\ to \in Handle /\ to \in 1 .. len
  BY <1>2, QueuedNode DEF IInv, QueueOK
<1> HIDE DEF to, n
<1>4. /\ queue' = q /\ cur' = to /\ tasks' = Switched(tasks, to)
      /\ frame' = [frame EXCEPT ![cur] = f]
      /\ UNCHANGED <<len, free_task, node, handle_to_node, disowned, owner, process>>
  BY DEF Skip, SwitchTo, Front, q, to, n, history
<1>5. tasks \in [Handle -> Task] /\ frame \in [Handle -> Frame] /\ cur \in Handle
  BY CurrentNode DEF IInv, TypeOK, PoolTypeOK
<1>6. /\ tasks' \in [Handle -> Task]
      /\ \A h \in Handle :
           /\ h # to => tasks'[h] = tasks[h]
           /\ tasks'[h].handle = tasks[h].handle
           /\ tasks'[h].state =
                IF h = to /\ tasks[h].state = "INIT" THEN "RUNNING" ELSE tasks[h].state
  BY <1>3, <1>4, <1>5, SwitchedFacts
<1>7. TypeOK'
  <2>1. \A h \in Handle : h > len => h # to
    BY <1>3, PoolBounds DEF IInv, TypeOK, PoolTypeOK
  <2>2. PoolTypeOK'
    BY <2>1, <1>3, <1>4, <1>6 DEF PoolTypeOK, IInv, TypeOK
  <2> QED BY <2>2, <1>1, <1>4, <1>5 DEF IInv, TypeOK
<1>8. \A h \in Handle : Live(h)' <=> Live(h)
  BY <1>6 DEF Live
<1>9. QueueOK'
  <2>1. \A m \in Range(queue) : m \in Node /\ node[m].h # 0 /\ node[m].h \in Handle
    BY CurrentNode, QueuedNode DEF IInv, QueueOK
  <2> QED BY <2>1, <1>1, <1>4, <1>8 DEF IInv, QueueOK, IsInjective
<1>10. RunningAtFront'
  BY <1>1, <1>3, <1>4, <1>6 DEF RunningAtFront, Me, to, n, Live
<1>11. RegistryOK'
  BY <1>4, <1>6 DEF IInv, RegistryOK
<1>12. ParentsWait'
  <2> SUFFICES ASSUME NEW m \in Node, Awaited(m)', (node[node[m].parent].h # 0)'
               PROVE  LET p == node[m].parent
                      IN /\ tasks'[node[p].h].state = "RUNNING"
                         /\ frame'[node[p].h].at = "await"
                         /\ frame'[node[p].h].ids[1] = m
                         /\ node[p].in_queue => node[p].h = cur'
    BY <1>4 DEF ParentsWait
  <2> DEFINE p == node[m].parent
  <2>1. Awaited(m) /\ node[p].h # 0
    <3>1. node[m].h \in Handle
      BY <1>4, QueuedNode DEF Awaited
    <3> QED BY <3>1, <1>4, <1>8 DEF Awaited
  <2>2. p \in Node /\ node[p].h # cur /\ ~ node[p].in_queue
    BY <2>1, ParentsOutOfQueue
  <2>3. /\ tasks[node[p].h].state = "RUNNING" /\ frame[node[p].h].at = "await"
        /\ frame[node[p].h].ids[1] = m /\ node[p].h \in Handle
    BY <2>1, <2>2, QueuedNode DEF IInv, ParentsWait
  <2> QED BY <2>2, <2>3, <1>4, <1>5, <1>6
<1>13. FreeChain'
  <2>1. \A h \in Handle : /\ tasks'[h].state = "FREE" <=> tasks[h].state = "FREE"
                          /\ tasks'[h].handle = tasks[h].handle
    BY <1>6
  <2> QED BY <2>1, <1>4, FreeChainStable DEF IInv, TypeOK, PoolTypeOK
<1> QED BY <1>7, <1>9, <1>10, <1>11, <1>12, <1>13 DEF IInv

------------------------------------------------------------------------------
(* The steps that end the process, and those that do nothing. *)
LEMMA QuietKeeps ==
  ASSUME IInv, UNCHANGED <<poolVars, schedVars, frame, history>>,
         process' \in {"running", "exited"} \cup Abort, Running' => Running
  PROVE  IInv'
<1> USE DEF poolVars, schedVars, history
<1>1. TypeOK'
  BY DEF IInv, TypeOK, PoolTypeOK
<1>2. QueueOK'
  BY DEF IInv, QueueOK, Live
<1>3. RunningAtFront'
  BY DEF IInv, RunningAtFront, Me
<1>4. RegistryOK'
  BY DEF IInv, RegistryOK
<1>5. ParentsWait'
  BY DEF IInv, ParentsWait, Awaited, Live
<1>6. FreeChain'
  BY FreeChainStable DEF IInv, TypeOK, PoolTypeOK
<1> QED BY <1>1, <1>2, <1>3, <1>4, <1>5, <1>6 DEF IInv

LEMMA FailsKeeps ==
  ASSUME IInv, Running, NEW assertion \in Abort, Fails(assertion)
  PROVE  IInv'
BY QuietKeeps DEF Fails, Running

(* await, await_any and await_all return to the caller: it is nobody's parent
   in a way that matters. *)
LEMMA ReturnToCallerKeeps ==
  ASSUME IInv, Running, frame' = [frame EXCEPT ![cur] = UserFrame],
         UNCHANGED <<poolVars, schedVars, history, process>>,
         \A n \in Node : Awaited(n) => node[node[n].parent].h # cur
  PROVE  IInv'
<1> USE DEF poolVars, schedVars, history
<1>1. TypeOK'
  BY Frames DEF IInv, TypeOK, PoolTypeOK
<1>2. QueueOK'
  BY DEF IInv, QueueOK, Live
<1>3. RunningAtFront'
  BY DEF IInv, RunningAtFront, Me, Running
<1>4. RegistryOK'
  BY DEF IInv, RegistryOK
<1>5. ParentsWait'
  <2> SUFFICES ASSUME NEW n \in Node, Awaited(n), node[node[n].parent].h # 0
               PROVE  LET p == node[n].parent
                      IN /\ tasks[node[p].h].state = "RUNNING"
                         /\ frame'[node[p].h].at = "await"
                         /\ frame'[node[p].h].ids[1] = n
                         /\ node[p].in_queue => node[p].h = cur
    BY DEF ParentsWait, Awaited, Live
  <2> DEFINE p == node[n].parent
  <2>1. p \in Node /\ node[p].h \in Handle /\ node[p].h # cur
    BY QueuedNode DEF IInv, TypeOK, NodeRecord, Awaited
  <2>2. frame'[node[p].h] = frame[node[p].h]
    BY <2>1 DEF IInv, TypeOK
  <2> QED BY <2>2, ZenonT(30) DEF IInv, ParentsWait
<1>6. FreeChain'
  BY FreeChainStable DEF IInv, TypeOK, PoolTypeOK
<1> QED BY <1>1, <1>2, <1>3, <1>4, <1>5, <1>6 DEF IInv

LEMMA AwaitReturnsKeeps ==
  ASSUME IInv, AwaitReturns
  PROVE  IInv'
<1> DEFINE child == frame[cur].ids[1]
<1>1. ASSUME NEW n \in Node, Awaited(n), node[node[n].parent].h = cur
      PROVE  FALSE
  <2>1. cur # 0
    BY CurrentNode, PoolBounds DEF AwaitReturns, IInv, TypeOK, PoolTypeOK
  <2>2. child = n
    BY <1>1, <2>1 DEF IInv, ParentsWait
  <2> QED BY <1>1, <2>2 DEF AwaitReturns, Awaited, Live
<1> QED BY <1>1, ReturnToCallerKeeps DEF AwaitReturns

LEMMA PollOnceKeeps ==
  ASSUME IInv, Running, frame[cur].at # "await",
         NEW f \in Frame, f.at # "await", PollOnce(f)
  PROVE  IInv'
<1>1. CASE Skip(f)
  BY <1>1, SkipKeeps
<1>2. CASE /\ frame' = [frame EXCEPT ![cur] = UserFrame]
           /\ UNCHANGED <<poolVars, schedVars, history, process>>
  <2>1. cur # 0
    BY CurrentNode, PoolBounds DEF IInv, TypeOK, PoolTypeOK
  <2>2. \A n \in Node : Awaited(n) => node[node[n].parent].h # cur
    BY <2>1, ParentsOutOfQueue
  <2> QED BY <1>2, <2>2, ReturnToCallerKeeps
<1> QED BY <1>1, <1>2 DEF PollOnce

(* async_orphan sets a flag that none of the invariants mentions. *)
LEMMA AsyncOrphanKeeps ==
  ASSUME IInv, NEW h \in Issued, AsyncOrphan(h)
  PROVE  IInv'
<1>0. h \in Handle
  BY PoolBounds DEF Issued, IInv, TypeOK, PoolTypeOK
<1>1. /\ tasks' = [tasks EXCEPT ![h].orphaned = TRUE]
      /\ UNCHANGED <<len, free_task, cur, queue, node, handle_to_node, frame, owner, process>>
      /\ disowned' = disowned \cup {h}
  BY DEF AsyncOrphan, schedVars
<1>2. /\ tasks' \in [Handle -> Task]
      /\ \A g \in Handle : /\ tasks'[g].state = tasks[g].state
                           /\ tasks'[g].handle = tasks[g].handle
                           /\ g # h => tasks'[g] = tasks[g]
  BY <1>0, <1>1 DEF IInv, TypeOK, PoolTypeOK, Task
<1>3. TypeOK'
  <2>1. \A g \in Handle : g > len => tasks'[g] = Unused
    BY <1>2, PoolBounds DEF IInv, TypeOK, PoolTypeOK, Issued
  <2> QED BY <2>1, <1>0, <1>1, <1>2 DEF IInv, TypeOK, PoolTypeOK
<1>4. \A n \in Node : node[n].h # 0 => node[n].h \in Handle
  BY QueuedNode
<1>5. QueueOK'
  <2>1. Range(queue) \subseteq Node
    BY ElementOfSeq, LenProperties DEF Range, IInv, TypeOK
  <2> QED BY <2>1, <1>1, <1>2, <1>4 DEF IInv, QueueOK, Live
<1>6. RunningAtFront'
  BY <1>1, <1>2, CurrentNode DEF IInv, RunningAtFront, Me, Running
<1>7. RegistryOK'
  BY <1>1, <1>2 DEF IInv, RegistryOK
<1>8. ParentsWait'
  <2> SUFFICES ASSUME NEW n \in Node, Awaited(n)', node[node[n].parent].h # 0
               PROVE  LET p == node[n].parent
                      IN /\ tasks'[node[p].h].state = "RUNNING"
                         /\ frame[node[p].h].at = "await"
                         /\ frame[node[p].h].ids[1] = n
                         /\ node[p].in_queue => node[p].h = cur
    BY <1>1 DEF ParentsWait
  <2>1. Awaited(n)
    BY <1>1, <1>2, <1>4 DEF Awaited, Live
  <2>2. node[n].parent \in Node
    BY <2>1 DEF IInv, TypeOK, NodeRecord, Awaited
  <2> QED BY <2>1, <2>2, <1>2, <1>4 DEF IInv, ParentsWait
<1>9. FreeChain'
  BY <1>1, <1>2, FreeChainStable DEF IInv, TypeOK, PoolTypeOK
<1> QED BY <1>3, <1>5, <1>6, <1>7, <1>8, <1>9 DEF IInv

------------------------------------------------------------------------------
(* A node no pointer reaches is free to be returned by calloc. *)
LEMMA UnreachableNode ==
  ASSUME IInv, NEW n \in Node \ Reachable
  PROVE  /\ n \notin Range(queue)
         /\ node[n].h = 0
         /\ \A h \in Handle : handle_to_node[h] # n
         /\ \A h \in Handle : handle_to_node[h] # NULL => n \notin Range(frame[h].ids)
         /\ \A m \in Node : node[m].h # 0 => node[m].parent # n
<1>1. \A h \in Handle : handle_to_node[h] # NULL => h \in Issued
  <2> SUFFICES ASSUME NEW h \in Handle, h > len PROVE handle_to_node[h] = NULL
    BY PoolBounds DEF Issued, IInv, TypeOK, PoolTypeOK
  <2>1. tasks[h] = Unused
    BY DEF IInv, TypeOK, PoolTypeOK
  <2> QED BY <2>1 DEF IInv, RegistryOK, Unused
<1>2. n # NULL
  BY PoolAssumption DEF Node
<1>3. n \notin Range(queue)
  BY DEF Reachable
<1>4. \A h \in Handle : handle_to_node[h] # n
  BY <1>1, <1>2 DEF Reachable
<1>5. node[n].h = 0
  BY <1>4, QueuedNode
<1>6. ASSUME NEW m \in Node, node[m].h # 0 PROVE node[m].parent # n
  <2>1. node[m].h \in Handle /\ handle_to_node[node[m].h] = m /\ m # NULL
    BY <1>6, QueuedNode, PoolAssumption DEF Node
  <2>2. node[m].h \in Issued
    BY <2>1, <1>1
  <2> QED BY <2>1, <2>2 DEF Reachable
<1>7. \A h \in Handle : handle_to_node[h] # NULL => n \notin Range(frame[h].ids)
  BY <1>1 DEF Reachable
<1> QED BY <1>3, <1>4, <1>5, <1>6, <1>7

LEMMA AsyncCallKeeps ==
  ASSUME IInv, AsyncCall
  PROVE  IInv' /\ \E g \in Handle, n \in Node : Called(g, n)
<1>0. /\ Running /\ frame[cur].at = "user" /\ StartNewTask /\ CanStart
      /\ frame' = [frame EXCEPT ![NewHandle] = UserFrame]
      /\ disowned' = disowned \ {NewHandle}
      /\ owner' = [owner EXCEPT ![NewHandle] = cur]
      /\ process' = process
  BY DEF AsyncCall, InUser, StartNewTask
<1>1. PICK n \in Node \ Reachable :
       /\ node' = [node EXCEPT ![n] = [parent |-> NULL, h |-> NewHandle, in_queue |-> TRUE]]
       /\ handle_to_node' = [handle_to_node EXCEPT ![NewHandle] = n]
       /\ queue' = Append(queue, n)
  BY DEF AsyncCall
<1>2. /\ NewHandle \in Handle /\ NewHandle \in 1 .. NewLen
      /\ tasks[NewHandle].state = "FREE"
      /\ NewLen \in Handle /\ len <= NewLen
      /\ \A h \in Handle : h > NewLen => h > len /\ h # NewHandle
      /\ handle_to_node[NewHandle] = NULL
  <2>1. PoolTypeOK /\ (free_task # 0 => tasks[free_task].state = "FREE")
    BY HeadIsFree DEF IInv, TypeOK
  <2>2. tasks[NewHandle].state = "FREE" /\ NewHandle \in Handle
    BY <1>0, <2>1, NewSlot
  <2> QED BY <1>0, <2>1, <2>2, NewSlot DEF IInv, RegistryOK
<1>3. /\ tasks' \in [Handle -> Task]
      /\ len' = NewLen /\ cur' = cur
      /\ tasks'[NewHandle].state = "INIT"
      /\ \A h \in Handle : h # NewHandle => tasks'[h] = tasks[h]
  BY <1>0, StartedFacts, HeadIsFree DEF IInv, TypeOK
<1>4. FreeChain' /\ free_task' \in 0 .. len'
  BY <1>0, FreeChainPopped DEF IInv, TypeOK
<1>5. /\ n \in Node /\ n \notin Range(queue) /\ node[n].h = 0
      /\ \A h \in Handle : handle_to_node[h] # n
      /\ \A h \in Handle : handle_to_node[h] # NULL => n \notin Range(frame[h].ids)
      /\ \A m \in Node : node[m].h # 0 => node[m].parent # n
  BY UnreachableNode
<1>6. /\ queue \in Seq(Node) /\ queue # <<>> /\ IsInjective(queue)
      /\ Me \in Node /\ Me \in Range(queue) /\ Range(queue) \subseteq Node
      /\ node[Me].h = cur /\ cur \in Handle /\ tasks[cur].state = "RUNNING"
  BY <1>0, CurrentNode
<1>7. /\ queue' \in Seq(Node) /\ queue' # <<>> /\ IsInjective(queue')
      /\ Range(queue') = Range(queue) \cup {n}
      /\ Head(queue') = Head(queue)
  BY <1>1, <1>5, <1>6, AppendDistinct
<1>8. /\ node \in [Node -> NodeRecord] /\ handle_to_node \in [Handle -> Node \cup {NULL}]
      /\ frame \in [Handle -> Frame] /\ disowned \subseteq Handle
      /\ owner \in [Handle -> 0 .. MaxTasks]
      /\ process \in {"running", "exited"} \cup Abort
  BY DEF IInv, TypeOK
<1>9. /\ \A m \in Node : m # n => node'[m] = node[m]
      /\ node'[n] = [parent |-> NULL, h |-> NewHandle, in_queue |-> TRUE]
      /\ node'[n].parent = NULL /\ node'[n].h = NewHandle /\ node'[n].in_queue = TRUE
      /\ \A h \in Handle : handle_to_node'[h] = IF h = NewHandle THEN n ELSE handle_to_node[h]
      /\ \A h \in Handle : h # NewHandle => frame'[h] = frame[h]
  BY <1>0, <1>1, <1>5, <1>8
<1>10. NewHandle # 0 /\ NewHandle \in 0 .. MaxTasks /\ cur \in 0 .. MaxTasks
  BY <1>2, <1>6 DEF Handle
(* A node in use names another slot than the new one. *)
<1>11. \A m \in Node : node[m].h # 0 =>
          node[m].h \in Handle /\ node[m].h # NewHandle /\ m # n
  BY QueuedNode, <1>2, <1>5, PoolAssumption DEF Node
<1>12. TypeOK'
  <2>1. PoolTypeOK'
    <3>1. \A h \in Handle : h > len' => tasks'[h] = Unused
      BY <1>2, <1>3 DEF IInv, TypeOK, PoolTypeOK
    <3>2. cur' \in 1 .. len'
      BY <1>2, <1>3 DEF IInv, TypeOK, PoolTypeOK, Handle
    <3> QED BY <1>2, <1>3, <1>4, <3>1, <3>2 DEF PoolTypeOK
  <2>2. node' \in [Node -> NodeRecord]
    BY <1>1, <1>8, <1>10 DEF NodeRecord
  <2>3. /\ handle_to_node' \in [Handle -> Node \cup {NULL}]
        /\ frame' \in [Handle -> Frame] /\ disowned' \subseteq Handle
        /\ owner' \in [Handle -> 0 .. MaxTasks]
    BY <1>0, <1>1, <1>8, <1>10, Frames
  <2> QED BY <2>1, <2>2, <2>3, <1>7, <1>8, <1>0 DEF TypeOK
<1>13. QueueOK'
  <2>1. \A m \in Node : node'[m].in_queue <=> m \in Range(queue')
    BY <1>5, <1>7, <1>9 DEF IInv, QueueOK
  <2>2. ASSUME NEW m \in Range(queue') PROVE (node[m].h # 0 /\ Live(node[m].h))'
    <3>1. CASE m = n
      BY <3>1, <1>3, <1>9, <1>10 DEF Live
    <3>2. CASE m # n
      <4>1. m \in Range(queue) /\ m \in Node /\ node[m].h # 0 /\ Live(node[m].h)
        BY <3>2, <2>2, <1>6, <1>7 DEF IInv, QueueOK
      <4> QED BY <3>2, <4>1, <1>3, <1>9, <1>11 DEF Live
    <3> QED BY <3>1, <3>2
  <2> QED BY <2>1, <2>2, <1>7 DEF QueueOK, IsInjective
<1>14. RunningAtFront'
  <2>1. Me # n /\ cur # NewHandle
    BY <1>2, <1>5, <1>6
  <2> QED BY <2>1, <1>3, <1>6, <1>7, <1>9 DEF RunningAtFront, Me
<1>15. RegistryOK'
  <2>1. ASSUME NEW h \in Handle
        PROVE  /\ handle_to_node'[h] = NULL <=> tasks'[h].state = "FREE"
               /\ handle_to_node'[h] # NULL => node'[handle_to_node'[h]].h = h
    <3>1. CASE h = NewHandle
      BY <3>1, <1>3, <1>5, <1>9, PoolAssumption DEF Node
    <3>2. CASE h # NewHandle
      <4>1. handle_to_node'[h] = handle_to_node[h] /\ tasks'[h] = tasks[h]
            /\ handle_to_node[h] # n
        BY <3>2, <1>3, <1>5, <1>9
      <4>2. handle_to_node[h] # NULL => handle_to_node[h] \in Node
        BY <1>8
      <4> QED BY <4>1, <4>2, <1>9 DEF IInv, RegistryOK
    <3> QED BY <3>1, <3>2
  <2>2. ASSUME NEW m \in Node, node'[m].h # 0 PROVE handle_to_node'[node'[m].h] = m
    <3>1. CASE m = n
      BY <3>1, <1>2, <1>9
    <3>2. CASE m # n
      BY <3>2, <2>2, <1>9, <1>11 DEF IInv, RegistryOK
    <3> QED BY <3>1, <3>2
  <2> QED BY <2>1, <2>2 DEF RegistryOK
<1>16. ParentsWait'
  <2> SUFFICES ASSUME NEW m \in Node, Awaited(m)', node'[node'[m].parent].h # 0
               PROVE  LET p == node'[m].parent
                      IN /\ tasks'[node'[p].h].state = "RUNNING"
                         /\ frame'[node'[p].h].at = "await"
                         /\ frame'[node'[p].h].ids[1] = m
                         /\ node'[p].in_queue => node'[p].h = cur'
    BY DEF ParentsWait
  <2> DEFINE p == node[m].parent
  <2>1. m # n /\ node'[m] = node[m]
    BY <1>9 DEF Awaited
  <2>2. /\ node[m].h # 0 /\ node[m].h # NewHandle /\ node[m].h \in Handle
    BY <2>1, <1>11 DEF Awaited
  <2>3. Awaited(m)
    BY <2>1, <2>2, <1>3 DEF Awaited, Live
  <2>4. p \in Node /\ p # n
    BY <2>2, <2>3, <1>5, <1>8 DEF NodeRecord, Awaited
  <2>5. node'[p] = node[p] /\ node[p].h # 0 /\ node[p].h \in Handle /\ node[p].h # NewHandle
    BY <2>1, <2>4, <1>9, <1>11
  <2>6. /\ tasks[node[p].h].state = "RUNNING" /\ frame[node[p].h].at = "await"
        /\ frame[node[p].h].ids[1] = m
        /\ node[p].in_queue => node[p].h = cur
    BY <2>3, <2>5 DEF IInv, ParentsWait
  <2> QED BY <2>1, <2>5, <2>6, <1>3, <1>9
<1>17. Called(NewHandle, n)
  <2>1. cur # NewHandle
    BY <1>2, <1>6
  <2>2. frame'[NewHandle] = UserFrame
    BY <1>0, <1>2, <1>8
  <2> QED BY <2>1, <2>2, <1>0, <1>2, <1>3, <1>5, <1>9, <1>11 DEF Called
<1>18. \E g \in Handle, k \in Node : Called(g, k)
  BY <1>17, <1>2, <1>5
<1> QED BY <1>4, <1>12, <1>13, <1>14, <1>15, <1>16, <1>18 DEF IInv

------------------------------------------------------------------------------
(* await: the caller leaves the queue, the awaited coroutine is in it. *)
LEMMA PushedFacts ==
  ASSUME IInv, Running, NEW n \in Node, n # Me
  PROVE  LET q == Pushed(n, Tail(queue))
         IN /\ q \in Seq(Node) /\ q # <<>> /\ IsInjective(q)
            /\ Range(q) = (Range(queue) \ {Me}) \cup {n}
            /\ ~ node[n].in_queue => Head(q) = n
<1> DEFINE t == Tail(queue)
<1>1. /\ t \in Seq(Node) /\ IsInjective(t) /\ Range(t) = Range(queue) \ {Me}
  BY CurrentNode, TailDistinct DEF Me
<1> HIDE DEF t
<1>2. node[n].in_queue <=> n \in Range(queue)
  BY DEF IInv, QueueOK
<1>3. CASE node[n].in_queue
  <2>1. Pushed(n, t) = t /\ n \in Range(t)
    BY <1>1, <1>2, <1>3 DEF Pushed
  <2>2. t # <<>>
    BY <2>1, EmptySeq DEF Range
  <2> QED BY <1>1, <1>3, <2>1, <2>2 DEF t
<1>4. CASE ~ node[n].in_queue
  <2>1. Pushed(n, t) = <<n>> \o t /\ n \notin Range(t)
    BY <1>1, <1>2, <1>4 DEF Pushed
  <2>2. /\ <<n>> \o t \in Seq(Node) /\ <<n>> \o t # <<>> /\ IsInjective(<<n>> \o t)
        /\ Range(<<n>> \o t) = Range(t) \cup {n} /\ Head(<<n>> \o t) = n
    BY <1>1, <2>1, PrependDistinct
  <2> QED BY <1>1, <2>1, <2>2 DEF t
<1> QED BY <1>3, <1>4

LEMMA AwaitKeeps ==
  ASSUME IInv, NEW h \in Issued, Await(h)
  PROVE  IInv' /\ \E n, m \in Node : Awaits(h, n, m)
<1> DEFINE child == handle_to_node[h]
           q     == Pushed(child, Tail(queue))
           n     == Head(q)
           to    == node[n].h
           f     == [at |-> "await", on |-> <<h>>, ids |-> <<child>>]
<1>0. h \in Handle
  BY PoolBounds DEF Issued, IInv, TypeOK, PoolTypeOK
<1>1. /\ Running /\ frame[cur].at = "user"
      /\ child # NULL /\ node[child].parent = NULL
      /\ h # cur /\ tasks[h].state # "READY"
      /\ queue' = q /\ node' = Linked(child)
      /\ frame' = [frame EXCEPT ![cur] = f]
      /\ cur' = to /\ tasks' = Switched(tasks, to)
      /\ UNCHANGED <<len, free_task, handle_to_node, disowned, owner, process>>
  BY DEF Await, InUser, SwitchTo, Front, history
<1>2. /\ queue \in Seq(Node) /\ queue # <<>> /\ IsInjective(queue)
      /\ Me \in Node /\ Me \in Range(queue) /\ Range(queue) \subseteq Node
      /\ node[Me].h = cur /\ cur \in Handle /\ tasks[cur].state = "RUNNING"
  BY <1>1, CurrentNode
<1>3. child \in Node /\ node[child].h = h /\ child # Me
  BY <1>0, <1>1, <1>2 DEF IInv, TypeOK, RegistryOK
<1>4. /\ tasks \in [Handle -> Task] /\ node \in [Node -> NodeRecord]
      /\ frame \in [Handle -> Frame] /\ f \in Frame
  BY <1>0, <1>3, Frames DEF IInv, TypeOK, PoolTypeOK
<1>5. Live(h)
  BY <1>0, <1>1, <1>4 DEF IInv, RegistryOK, Live, Task, State
<1>6. /\ q \in Seq(Node) /\ q # <<>> /\ IsInjective(q)
      /\ Range(q) = (Range(queue) \ {Me}) \cup {child}
      /\ ~ node[child].in_queue => n = child
  BY <1>1, <1>3, PushedFacts
<1>7. f.at = "await" /\ f.ids[1] = child
  OBVIOUS
<1> HIDE DEF q, f, child
<1>8. n \in Range(q) /\ n \in Node
  BY <1>6, NonEmpty
<1>9. to # 0 /\ to \in Handle /\ to \in 1 .. len /\ Live(to)
  <2>1. CASE n = child
    BY <2>1, <1>0, <1>3, <1>5, PoolBounds DEF Issued, IInv, TypeOK, PoolTypeOK
  <2>2. CASE n \in Range(queue)
    BY <2>2, <1>8, QueuedNode DEF IInv, QueueOK
  <2> QED BY <2>1, <2>2, <1>6, <1>8
<1> HIDE DEF n, to
<1>10. /\ tasks' \in [Handle -> Task]
       /\ \A g \in Handle :
            /\ g # to => tasks'[g] = tasks[g]
            /\ tasks'[g].handle = tasks[g].handle
            /\ tasks'[g].data = tasks[g].data
            /\ tasks'[g].orphaned = tasks[g].orphaned
            /\ tasks'[g].state =
                 IF g = to /\ tasks[g].state = "INIT" THEN "RUNNING" ELSE tasks[g].state
  BY <1>1, <1>4, <1>9, SwitchedFacts
<1>11. /\ node' \in [Node -> NodeRecord]
       /\ \A m \in Node : node'[m].h = node[m].h
       /\ \A m \in Node : node'[m].parent = IF m = child THEN Me ELSE node[m].parent
       /\ \A m \in Node : node'[m].in_queue =
            IF m = child THEN TRUE ELSE IF m = Me THEN FALSE ELSE node[m].in_queue
  <2>1. node' = [node EXCEPT ![Me].in_queue = FALSE,
                             ![child].parent = Me, ![child].in_queue = TRUE]
    BY <1>1 DEF Linked
  <2>2. ASSUME NEW m \in Node
        PROVE  /\ node'[m].h = node[m].h
               /\ node'[m].parent = IF m = child THEN Me ELSE node[m].parent
               /\ node'[m].in_queue =
                    IF m = child THEN TRUE ELSE IF m = Me THEN FALSE ELSE node[m].in_queue
               /\ node'[m] \in NodeRecord
    <3>0. node[m] \in NodeRecord
      BY <1>4
    <3>1. CASE m = child
      BY <2>1, <3>0, <3>1, <1>2, <1>3, <1>4 DEF NodeRecord
    <3>2. CASE m = Me
      BY <2>1, <3>0, <3>2, <1>2, <1>3, <1>4 DEF NodeRecord
    <3>3. CASE m # child /\ m # Me
      BY <2>1, <3>0, <3>3, <1>2, <1>3, <1>4
    <3> QED BY <3>1, <3>2, <3>3
  <2>3. node' = [m \in Node |-> node'[m]]
    BY <2>1, <1>4
  <2> QED BY <2>2, <2>3
<1>12. \A g \in Handle : Live(g)' <=> Live(g)
  BY <1>10 DEF Live
<1>13. \A m \in Node : node[m].h # 0 => node[m].h \in Handle
  BY QueuedNode
<1>14. TypeOK'
  <2>1. \A g \in Handle : g > len => g # to
    BY <1>9, PoolBounds DEF IInv, TypeOK, PoolTypeOK
  <2>2. PoolTypeOK'
    BY <2>1, <1>1, <1>9, <1>10 DEF PoolTypeOK, IInv, TypeOK
  <2>3. frame' \in [Handle -> Frame]
    BY <1>1, <1>4
  <2> QED BY <2>2, <2>3, <1>1, <1>6, <1>11 DEF IInv, TypeOK
<1>15. QueueOK'
  <2>1. \A m \in Node : node'[m].in_queue <=> m \in Range(queue')
    BY <1>1, <1>3, <1>6, <1>11 DEF IInv, QueueOK
  <2>2. ASSUME NEW m \in Range(queue') PROVE (node[m].h # 0 /\ Live(node[m].h))'
    <3>1. m \in Node
      BY <1>1, <1>2, <1>3, <1>6
    <3>2. CASE m = child
      BY <3>2, <3>1, <1>0, <1>3, <1>5, <1>11, <1>12, <1>13, PoolAssumption DEF Handle, Live
    <3>3. CASE m # child
      <4>1. node[m].h # 0 /\ Live(node[m].h)
        BY <3>3, <1>1, <1>6 DEF IInv, QueueOK
      <4> QED BY <4>1, <3>1, <1>11, <1>12, <1>13 DEF Live
    <3> QED BY <3>2, <3>3
  <2> QED BY <2>1, <2>2, <1>1, <1>6 DEF QueueOK, IsInjective
<1>16. RunningAtFront'
  <2>1. queue' # <<>> /\ Me' = n
    BY <1>1, <1>6 DEF Me, n
  <2>2. node'[n].h = cur' /\ tasks'[cur'].state = "RUNNING"
    BY <1>1, <1>8, <1>9, <1>10, <1>11 DEF to, Live
  <2> QED BY <2>1, <2>2 DEF RunningAtFront
<1>17. RegistryOK'
  <2>1. \A g \in Handle : handle_to_node[g] # NULL => handle_to_node[g] \in Node
    BY DEF IInv, TypeOK
  <2> QED BY <2>1, <1>1, <1>10, <1>11 DEF IInv, RegistryOK
<1>18. ParentsWait'
  <2> SUFFICES ASSUME NEW m \in Node, Awaited(m)', node'[node'[m].parent].h # 0
               PROVE  LET p == node'[m].parent
                      IN /\ tasks'[node'[p].h].state = "RUNNING"
                         /\ frame'[node'[p].h].at = "await"
                         /\ frame'[node'[p].h].ids[1] = m
                         /\ node'[p].in_queue => node'[p].h = cur'
    BY DEF ParentsWait
  <2>1. CASE m = child
    <3>1. node'[m].parent = Me /\ node'[Me].h = cur /\ node'[Me].in_queue = FALSE
      BY <2>1, <1>2, <1>3, <1>11
    <3>2. frame'[cur] = f /\ tasks'[cur].state = "RUNNING"
      BY <1>1, <1>2, <1>4, <1>10
    <3> QED BY <3>1, <3>2, <2>1, <1>7
  <2>2. CASE m # child
    <3> DEFINE p == node[m].parent
    <3>1. Awaited(m) /\ node'[m].parent = p
      BY <2>2, <1>11, <1>12, <1>13 DEF Awaited, Live
    <3>2. p \in Node
      BY <3>1, <1>4 DEF NodeRecord, Awaited
    <3>3. node[p].h # 0 /\ node'[p].h = node[p].h
      BY <3>1, <3>2, <1>11
    <3>4. node[p].h # cur /\ ~ node[p].in_queue /\ node[p].h \in Handle
      BY <3>1, <3>2, <3>3, <1>1, <1>13, ParentsOutOfQueue
    <3>5. /\ tasks[node[p].h].state = "RUNNING" /\ frame[node[p].h].at = "await"
          /\ frame[node[p].h].ids[1] = m
      BY <3>1, <3>3 DEF IInv, ParentsWait
    <3>6. node'[p].in_queue => node[p].h = cur'
      <4>1. node'[p].in_queue => p = child
        BY <3>2, <3>4, <1>11
      <4>2. p = child => n = p
        BY <3>4, <1>6
      <4> QED BY <4>1, <4>2, <1>1 DEF to
    <3>7. /\ tasks'[node[p].h].state = "RUNNING"
          /\ frame'[node[p].h] = frame[node[p].h]
      BY <3>4, <3>5, <1>1, <1>4, <1>10
    <3> QED BY <3>1, <3>3, <3>5, <3>6, <3>7
  <2> QED BY <2>1, <2>2
<1>19. FreeChain'
  <2>1. \A g \in Handle : /\ tasks'[g].state = "FREE" <=> tasks[g].state = "FREE"
                          /\ tasks'[g].handle = tasks[g].handle
    BY <1>10
  <2> QED BY <2>1, <1>1, FreeChainStable DEF IInv, TypeOK, PoolTypeOK
<1>20. Awaits(h, child, Me)
  <2>1. node[Me].in_queue /\ handle_to_node[cur] = Me
    BY <1>1, CurrentNode
  <2>2. \A g \in Handle : frame'[g] = IF g = cur THEN f ELSE frame[g]
    BY <1>1, <1>2, <1>4
  <2>3. MayAwait(h) /\ handle_to_node[h] = child
    BY DEF Await, child
  <2>4. \A g \in Handle :
          \/ tasks'[g].state = tasks[g].state
          \/ tasks[g].state = "INIT" /\ tasks'[g].state = "RUNNING"
    BY <1>10
  <2> QED BY <2>1, <2>2, <2>3, <2>4, <1>1, <1>2, <1>3, <1>5, <1>10, <1>11 DEF Awaits, f
<1>21. \E n_1, m \in Node : Awaits(h, n_1, m)
  BY <1>20, <1>2, <1>3
<1> QED BY <1>14, <1>15, <1>16, <1>17, <1>18, <1>19, <1>21 DEF IInv

------------------------------------------------------------------------------
(* async_free of a coroutine that is in no queue. *)
LEMMA AsyncFreeKeeps ==
  ASSUME IInv, NEW h \in Issued, AsyncFree(h)
  PROVE  IInv' /\ \E n \in Node : Frees(h, n)
<1> DEFINE n == handle_to_node[h]
<1>0. h \in Handle /\ h \in 1 .. len /\ len \in Handle
  BY PoolBounds DEF Issued, IInv, TypeOK, PoolTypeOK
<1>1. /\ Running /\ n # NULL /\ ~ node[n].in_queue
      /\ handle_to_node' = [handle_to_node EXCEPT ![h] = NULL]
      /\ node' = [node EXCEPT ![n].h = 0]
      /\ tasks' = [tasks EXCEPT ![h].state = "FREE", ![h].handle = free_task]
      /\ free_task' = h
      /\ UNCHANGED <<len, cur, queue, frame, disowned, owner, process>>
  BY DEF AsyncFree, InUser, Forgotten, Freed, history
<1>2. /\ tasks \in [Handle -> Task] /\ node \in [Node -> NodeRecord]
      /\ handle_to_node \in [Handle -> Node \cup {NULL}]
      /\ free_task \in 0 .. MaxTasks
  BY PoolBounds DEF IInv, TypeOK, PoolTypeOK
<1>3. n \in Node /\ node[n].h = h /\ tasks[h].state # "FREE"
  BY <1>0, <1>1, <1>2 DEF IInv, RegistryOK
<1> HIDE DEF n
<1>4. /\ Me \in Node /\ node[Me].h = cur /\ cur \in Handle /\ node[Me].in_queue
      /\ tasks[cur].state = "RUNNING"
      /\ queue \in Seq(Node) /\ queue # <<>> /\ Range(queue) \subseteq Node
  BY <1>1, CurrentNode
<1>5. /\ tasks' \in [Handle -> Task]
      /\ tasks'[h].state = "FREE" /\ tasks'[h].handle = free_task
      /\ \A g \in Handle : g # h => tasks'[g] = tasks[g]
  BY <1>0, <1>1, <1>2 DEF Task, State
<1>6. /\ node' \in [Node -> NodeRecord]
      /\ node'[n].h = 0
      /\ \A m \in Node : m # n => node'[m] = node[m]
      /\ \A m \in Node : /\ node'[m].parent = node[m].parent
                         /\ node'[m].in_queue = node[m].in_queue
  <2>1. 0 \in 0 .. MaxTasks
    BY PoolAssumption
  <2> QED BY <2>1, <1>1, <1>2, <1>3 DEF NodeRecord
<1>7. \A m \in Node : node[m].h # 0 /\ m # n => node[m].h \in Handle /\ node[m].h # h
  <2> SUFFICES ASSUME NEW m \in Node, node[m].h # 0, m # n
               PROVE  node[m].h \in Handle /\ node[m].h # h
    OBVIOUS
  <2> QED BY QueuedNode DEF n
<1>8. n # Me /\ cur # h
  <2>1. n # Me
    BY <1>1, <1>4
  <2>2. cur # 0
    BY <1>4, PoolBounds, <1>0
  <2> QED BY <2>1, <2>2, <1>4, <1>7
<1>9. TypeOK'
  <2>1. \A g \in Handle : g > len => g # h
    BY <1>0, PoolBounds
  <2>2. PoolTypeOK'
    <3>1. h \in 0 .. len
      BY <1>0, PoolBounds
    <3> QED BY <2>1, <3>1, <1>1, <1>5 DEF PoolTypeOK, IInv, TypeOK
  <2>3. handle_to_node' \in [Handle -> Node \cup {NULL}]
    BY <1>1, <1>2
  <2> QED BY <2>2, <2>3, <1>1, <1>6 DEF IInv, TypeOK
<1>10. QueueOK'
  <2>1. \A m \in Range(queue) : m \in Node /\ m # n /\ node[m].h # 0 /\ Live(node[m].h)
    BY <1>1, <1>4 DEF IInv, QueueOK
  <2>2. \A m \in Range(queue) : node'[m].h = node[m].h /\ tasks'[node[m].h] = tasks[node[m].h]
    BY <2>1, <1>5, <1>6, <1>7
  <2> QED BY <2>1, <2>2, <1>1, <1>6, ZenonT(30) DEF IInv, QueueOK, Live
<1>11. RunningAtFront'
  BY <1>1, <1>4, <1>5, <1>6, <1>8 DEF RunningAtFront, Me
<1>12. RegistryOK'
  <2>1. ASSUME NEW g \in Handle
        PROVE  /\ handle_to_node'[g] = NULL <=> tasks'[g].state = "FREE"
               /\ handle_to_node'[g] # NULL => node'[handle_to_node'[g]].h = g
    <3>1. CASE g = h
      BY <3>1, <1>1, <1>2, <1>5
    <3>2. CASE g # h
      <4>1. handle_to_node'[g] = handle_to_node[g] /\ tasks'[g] = tasks[g]
        BY <3>2, <1>1, <1>2, <1>5
      <4>2. handle_to_node[g] # n
        BY <3>2, <1>1, <1>3 DEF IInv, RegistryOK
      <4>3. handle_to_node[g] # NULL => handle_to_node[g] \in Node
        BY <1>2
      <4> QED BY <4>1, <4>2, <4>3, <1>6 DEF IInv, RegistryOK
    <3> QED BY <3>1, <3>2
  <2>2. ASSUME NEW m \in Node, node'[m].h # 0 PROVE handle_to_node'[node'[m].h] = m
    <3>1. m # n /\ node'[m].h = node[m].h
      BY <2>2, <1>6
    <3>2. node[m].h \in Handle /\ node[m].h # h /\ handle_to_node[node[m].h] = m
      BY <2>2, <3>1, <1>7 DEF IInv, RegistryOK
    <3> QED BY <3>1, <3>2, <1>1, <1>2
  <2> QED BY <2>1, <2>2 DEF RegistryOK
<1>13. ParentsWait'
  <2> SUFFICES ASSUME NEW m \in Node, Awaited(m)', node'[node'[m].parent].h # 0
               PROVE  LET p == node'[m].parent
                      IN /\ tasks'[node'[p].h].state = "RUNNING"
                         /\ frame'[node'[p].h].at = "await"
                         /\ frame'[node'[p].h].ids[1] = m
                         /\ node'[p].in_queue => node'[p].h = cur'
    BY DEF ParentsWait
  <2> DEFINE p == node[m].parent
  <2>1. m # n /\ node'[m] = node[m]
    BY <1>6 DEF Awaited
  <2>2. node[m].h # 0 /\ node[m].h # h /\ node[m].h \in Handle
    BY <2>1, <1>7 DEF Awaited
  <2>3. Awaited(m)
    BY <2>1, <2>2, <1>5 DEF Awaited, Live
  <2>4. p \in Node
    BY <2>3, <1>2 DEF NodeRecord, Awaited
  <2>5. p # n /\ node'[p] = node[p]
    BY <2>1, <2>4, <1>6
  <2>6. node[p].h # 0 /\ node[p].h # h /\ node[p].h \in Handle
    BY <2>1, <2>4, <2>5, <1>7
  <2>7. /\ tasks[node[p].h].state = "RUNNING" /\ frame[node[p].h].at = "await"
        /\ frame[node[p].h].ids[1] = m
        /\ node[p].in_queue => node[p].h = cur
    BY <2>3, <2>6 DEF IInv, ParentsWait
  <2> QED BY <2>1, <2>5, <2>6, <2>7, <1>1, <1>5
<1>14. FreeChain'
  <2>1. FreeChain
    BY DEF IInv
  <2> QED BY <2>1, <1>0, <1>1, <1>3, <1>5, FreeChainPushed
<1>15. Frees(h, n)
  <2>1. MayFree(h) /\ handle_to_node[h] = n
    BY DEF AsyncFree, n
  <2>2. \A g \in Handle : handle_to_node'[g] = IF g = h THEN NULL ELSE handle_to_node[g]
    BY <1>1, <1>2
  <2> QED BY <2>1, <2>2, <1>1, <1>3, <1>5, <1>6, <1>8 DEF Frees
<1>16. \E k \in Node : Frees(h, k)
  BY <1>15, <1>3
<1> QED BY <1>9, <1>10, <1>11, <1>12, <1>13, <1>14, <1>16 DEF IInv

------------------------------------------------------------------------------
(* async_return: who is in the queue when the caller has left it, and who is
   switched to.  The parent it wakes is blocked in await and can run. *)
LEMMA AfterFinishFacts ==
  ASSUME IInv, InUser, AfterFinish # <<>>
  PROVE  LET q == AfterFinish
         IN /\ q \in Seq(Node) /\ IsInjective(q)
            /\ Range(q) = (Range(queue) \ {Me}) \cup (IF Wakes THEN {Parent} ELSE {})
            /\ Wakes => Parent \in Node /\ Parent # Me /\ Head(q) = Parent
            /\ Wakes /\ node[Parent].h # 0 => Live(node[Parent].h)
<1> DEFINE t == Tail(queue)
           p == Parent
<1>1. /\ t \in Seq(Node) /\ IsInjective(t) /\ Range(t) = Range(queue) \ {Me}
      /\ Me \in Node /\ node[Me].in_queue /\ node[Me].h = cur /\ cur # 0
      /\ tasks[cur].state = "RUNNING"
  BY CurrentNode, TailDistinct, PoolBounds DEF InUser, Me, IInv, TypeOK, PoolTypeOK
<1> HIDE DEF t
<1>2. CASE Wakes
  <2>1. p \in Node /\ ~ node[p].in_queue
    BY <1>1, <1>2 DEF Wakes, Parent, IInv, TypeOK, NodeRecord
  <2>2. AfterFinish = <<p>> \o t /\ p # Me /\ p \notin Range(t)
    BY <1>1, <1>2, <2>1 DEF AfterFinish, IInv, QueueOK, t
  <2>3. /\ <<p>> \o t \in Seq(Node) /\ IsInjective(<<p>> \o t)
        /\ Range(<<p>> \o t) = Range(t) \cup {p} /\ Head(<<p>> \o t) = p
    BY <1>1, <2>1, <2>2, PrependDistinct
  <2>4. ASSUME node[p].h # 0 PROVE Live(node[p].h)
    <3>1. Awaited(Me)
      BY <1>1, <1>2 DEF Awaited, Live, Wakes, Parent
    <3>2. node[Me].parent = p
      BY DEF Parent
    <3> QED BY <1>1, <2>4, <3>1, <3>2 DEF IInv, ParentsWait, Live
  <2> QED BY <1>1, <1>2, <2>1, <2>2, <2>3, <2>4
<1>3. CASE ~ Wakes
  BY <1>1, <1>3 DEF AfterFinish, t
<1> QED BY <1>2, <1>3

(* What async_return and free_task write into a slot, and into a node. *)
LEMMA FinishedFacts ==
  ASSUME NEW ts \in [Handle -> Task], cur \in Handle, Me \in Node
  PROVE  /\ Finished(ts) \in [Handle -> Task]
         /\ \A h \in Handle \ {cur} : Finished(ts)[h] = ts[h]
         /\ Finished(ts)[cur].state = "READY"
         /\ Finished(ts)[cur].data = Me
         /\ Finished(ts)[cur].orphaned = ts[cur].orphaned
         /\ Finished(ts)[cur].handle = ts[cur].handle
<1> DEFINE us == [ts EXCEPT ![cur].data = Me, ![cur].state = "READY"]
<1>1. /\ us \in [Handle -> Task] /\ us[cur].state = "READY" /\ us[cur].data = Me
      /\ us[cur].handle = ts[cur].handle /\ us[cur].orphaned = ts[cur].orphaned
  BY DEF Task, State, Node
<1>2. \A h \in Handle \ {cur} : us[h] = ts[h]
  OBVIOUS
<1> QED BY <1>1, <1>2 DEF Finished

LEMMA ForgottenNode ==
  ASSUME NEW ns \in [Node -> NodeRecord], NEW m \in Node
  PROVE  LET ms == [ns EXCEPT ![m].h = 0]
         IN /\ ms \in [Node -> NodeRecord] /\ ms[m].h = 0
            /\ \A n \in Node \ {m} : ms[n].h = ns[n].h
            /\ \A n \in Node : ms[n].parent = ns[n].parent /\ ms[n].in_queue = ns[n].in_queue
BY PoolAssumption DEF NodeRecord

(* Both branches of async_return, the slot kept or reclaimed, in one view. *)
LEMMA ReturnFacts ==
  ASSUME IInv, AsyncReturn
  PROVE  LET to == node[Head(AfterFinish)].h
         IN /\ to \in Handle /\ to \in 1 .. len /\ to # cur /\ Live(to)
            /\ queue' = AfterFinish /\ cur' = to
            /\ tasks' \in [Handle -> Task]
            /\ \A h \in Handle \ {cur} :
                 /\ h # to => tasks'[h] = tasks[h]
                 /\ tasks'[h].handle = tasks[h].handle
                 /\ tasks'[h].data = tasks[h].data
                 /\ tasks'[h].orphaned = tasks[h].orphaned
                 /\ tasks'[h].state = IF h = to /\ tasks[h].state = "INIT"
                                      THEN "RUNNING" ELSE tasks[h].state
            /\ tasks'[cur].state = IF Reclaims THEN "FREE" ELSE "READY"
            /\ ~ Reclaims => tasks'[cur].data = Me /\ ~ tasks'[cur].orphaned
            /\ tasks'[cur].handle = IF Reclaims THEN free_task ELSE tasks[cur].handle
            /\ free_task' = IF Reclaims THEN cur ELSE free_task
            /\ handle_to_node' \in [Handle -> Node \cup {NULL}]
            /\ handle_to_node'[cur] = IF Reclaims THEN NULL ELSE Me
            /\ \A h \in Handle \ {cur} : handle_to_node'[h] = handle_to_node[h]
            /\ node' \in [Node -> NodeRecord]
            /\ node'[Me].h = IF Reclaims THEN 0 ELSE cur
            /\ \A n \in Node \ {Me} : node'[n].h = node[n].h
            /\ \A n \in Node :
                 /\ node'[n].parent = node[n].parent
                 /\ node'[n].in_queue = IF n = Me THEN FALSE
                                        ELSE node[n].in_queue \/ (Wakes /\ n = Parent)
<1> DEFINE q == AfterFinish
           to == node[Head(q)].h
<1>1. /\ InUser /\ Running /\ q # <<>> /\ to # 0 /\ queue' = q
  BY DEF AsyncReturn, InUser, Front
<1>2. /\ Me \in Node /\ node[Me].h = cur /\ cur \in Handle /\ tasks[cur].state = "RUNNING"
      /\ handle_to_node[cur] = Me /\ Range(queue) \subseteq Node
  BY <1>1, CurrentNode
<1>3. /\ tasks \in [Handle -> Task] /\ node \in [Node -> NodeRecord]
      /\ handle_to_node \in [Handle -> Node \cup {NULL}]
      /\ free_task \in 0 .. MaxTasks
  BY PoolBounds DEF IInv, TypeOK, PoolTypeOK
<1>4. Head(q) \in Node /\ Head(q) # Me /\ Live(to)
  <2>1. /\ q \in Seq(Node)
        /\ Range(q) = (Range(queue) \ {Me}) \cup (IF Wakes THEN {Parent} ELSE {})
        /\ Wakes => Parent \in Node /\ Parent # Me
        /\ Wakes /\ node[Parent].h # 0 => Live(node[Parent].h)
    BY <1>1, AfterFinishFacts
  <2>2. Head(q) \in Range(q) /\ Head(q) \in Node
    BY <1>1, <2>1, NonEmpty
  <2> QED BY <1>1, <2>1, <2>2 DEF IInv, QueueOK
<1> HIDE DEF q
<1>5. to \in Handle /\ to \in 1 .. len /\ to # cur
  <2>1. to \in Handle /\ to \in 1 .. len /\ handle_to_node[to] = Head(q)
    BY <1>1, <1>4, QueuedNode
  <2> QED BY <2>1, <1>2, <1>4
<1> HIDE DEF to
<1> DEFINE ts == IF Reclaims THEN Freed(Finished(tasks), cur) ELSE Finished(tasks)
<1>6. /\ cur' = to /\ tasks' = Switched(ts, to)
      /\ free_task' = IF Reclaims THEN cur ELSE free_task
      /\ handle_to_node' = IF Reclaims THEN [handle_to_node EXCEPT ![cur] = NULL]
                           ELSE handle_to_node
      /\ node' = IF Reclaims THEN [Dequeued EXCEPT ![Me].h = 0] ELSE Dequeued
  BY DEF AsyncReturn, SwitchTo, Forgotten, Front, to, q
<1>7. /\ ts \in [Handle -> Task]
      /\ \A h \in Handle \ {cur} : ts[h] = tasks[h]
      /\ ts[cur].state = IF Reclaims THEN "FREE" ELSE "READY"
      /\ ~ Reclaims => ts[cur].data = Me /\ ~ ts[cur].orphaned
      /\ ts[cur].handle = IF Reclaims THEN free_task ELSE tasks[cur].handle
  <2> DEFINE fs == Finished(tasks)
  <2>1. /\ fs \in [Handle -> Task]
        /\ \A h \in Handle \ {cur} : fs[h] = tasks[h]
        /\ fs[cur].state = "READY" /\ fs[cur].data = Me
        /\ ~ Reclaims => ~ fs[cur].orphaned
        /\ fs[cur].handle = tasks[cur].handle
    BY <1>2, <1>3, FinishedFacts DEF Reclaims
  <2> HIDE DEF fs
  <2>2. /\ Freed(fs, cur) \in [Handle -> Task]
        /\ \A h \in Handle \ {cur} : Freed(fs, cur)[h] = fs[h]
        /\ Freed(fs, cur)[cur].state = "FREE"
        /\ Freed(fs, cur)[cur].handle = free_task
    BY <2>1, <1>2, <1>3, FreedFacts
  <2> QED BY <2>1, <2>2 DEF fs
<1> HIDE DEF ts
<1>8. /\ tasks' \in [Handle -> Task]
      /\ \A h \in Handle :
           /\ h # to => tasks'[h] = ts[h]
           /\ tasks'[h].handle = ts[h].handle
           /\ tasks'[h].data = ts[h].data
           /\ tasks'[h].orphaned = ts[h].orphaned
           /\ tasks'[h].state =
                IF h = to /\ ts[h].state = "INIT" THEN "RUNNING" ELSE ts[h].state
  BY <1>5, <1>6, <1>7, SwitchedFacts
<1>9. /\ Dequeued \in [Node -> NodeRecord]
      /\ \A n \in Node :
           /\ Dequeued[n].h = node[n].h
           /\ Dequeued[n].parent = node[n].parent
           /\ Dequeued[n].in_queue = IF n = Me THEN FALSE
                                     ELSE node[n].in_queue \/ (Wakes /\ n = Parent)
  BY <1>3 DEF Dequeued, NodeRecord
<1>10. /\ node' \in [Node -> NodeRecord]
       /\ node'[Me].h = IF Reclaims THEN 0 ELSE cur
       /\ \A n \in Node \ {Me} : node'[n].h = node[n].h
       /\ \A n \in Node : /\ node'[n].parent = Dequeued[n].parent
                          /\ node'[n].in_queue = Dequeued[n].in_queue
  <2>2. CASE Reclaims
    <3>1. node' = [Dequeued EXCEPT ![Me].h = 0]
      BY <1>6, <2>2
    <3> DEFINE ns == Dequeued
    <3>2. ns \in [Node -> NodeRecord] /\ \A n \in Node : ns[n].h = node[n].h
      BY <1>9
    <3> HIDE DEF ns
    <3>3. /\ node' \in [Node -> NodeRecord] /\ node'[Me].h = 0
          /\ \A n \in Node \ {Me} : node'[n].h = ns[n].h
          /\ \A n \in Node : node'[n].parent = ns[n].parent /\ node'[n].in_queue = ns[n].in_queue
      BY <3>1, <3>2, <1>2, ForgottenNode DEF ns
    <3> QED BY <2>2, <3>2, <3>3 DEF ns
  <2>3. CASE ~ Reclaims
    BY <2>3, <1>2, <1>6, <1>9
  <2> QED BY <2>2, <2>3
<1>11. /\ handle_to_node' \in [Handle -> Node \cup {NULL}]
       /\ handle_to_node'[cur] = IF Reclaims THEN NULL ELSE Me
       /\ \A h \in Handle \ {cur} : handle_to_node'[h] = handle_to_node[h]
  BY <1>2, <1>3, <1>6
<1>12. /\ \A h \in Handle \ {cur} :
            /\ h # to => tasks'[h] = tasks[h]
            /\ tasks'[h].handle = tasks[h].handle
            /\ tasks'[h].data = tasks[h].data
            /\ tasks'[h].orphaned = tasks[h].orphaned
            /\ tasks'[h].state = IF h = to /\ tasks[h].state = "INIT"
                                 THEN "RUNNING" ELSE tasks[h].state
       /\ tasks'[cur].state = IF Reclaims THEN "FREE" ELSE "READY"
       /\ ~ Reclaims => tasks'[cur].data = Me /\ ~ tasks'[cur].orphaned
       /\ tasks'[cur].handle = IF Reclaims THEN free_task ELSE tasks[cur].handle
  BY <1>2, <1>5, <1>7, <1>8
<1> QED BY <1>1, <1>4, <1>5, <1>6, <1>8, <1>9, <1>10, <1>11, <1>12, ZenonT(30) DEF to, q

LEMMA AsyncReturnKeeps ==
  ASSUME IInv, AsyncReturn
  PROVE  IInv' /\ \E m \in Node, p \in Node \cup {NULL} : Returned(m, p)
<1> DEFINE q  == AfterFinish
           to == node[Head(q)].h
<1>1. /\ InUser /\ Running /\ frame[cur].at = "user" /\ q # <<>> /\ to # 0
      /\ UNCHANGED <<len, frame, disowned, process>>
      /\ owner' = [h \in Handle |-> IF owner[h] = cur THEN 0 ELSE owner[h]]
  BY DEF AsyncReturn, InUser, Front
<1>2. /\ Me \in Node /\ node[Me].h = cur /\ cur \in Handle /\ tasks[cur].state = "RUNNING"
      /\ handle_to_node[cur] = Me /\ node[Me].in_queue
      /\ Range(queue) \subseteq Node
  BY <1>1, CurrentNode
<1>3. /\ q \in Seq(Node) /\ IsInjective(q)
      /\ Range(q) = (Range(queue) \ {Me}) \cup (IF Wakes THEN {Parent} ELSE {})
      /\ Wakes => Parent \in Node /\ Parent # Me /\ Head(q) = Parent
      /\ Wakes /\ node[Parent].h # 0 => Live(node[Parent].h)
  BY <1>1, AfterFinishFacts
<1>4. /\ to \in Handle /\ to \in 1 .. len /\ to # cur /\ Live(to)
      /\ queue' = q /\ cur' = to
      /\ tasks' \in [Handle -> Task]
      /\ \A h \in Handle \ {cur} :
           /\ h # to => tasks'[h] = tasks[h]
           /\ tasks'[h].handle = tasks[h].handle
           /\ tasks'[h].state = IF h = to /\ tasks[h].state = "INIT"
                                THEN "RUNNING" ELSE tasks[h].state
  BY ReturnFacts
<1>5. /\ tasks'[cur].state = IF Reclaims THEN "FREE" ELSE "READY"
      /\ tasks'[cur].handle = IF Reclaims THEN free_task ELSE tasks[cur].handle
      /\ free_task' = IF Reclaims THEN cur ELSE free_task
      /\ handle_to_node' \in [Handle -> Node \cup {NULL}]
      /\ handle_to_node'[cur] = IF Reclaims THEN NULL ELSE Me
      /\ \A h \in Handle \ {cur} : handle_to_node'[h] = handle_to_node[h]
  BY ReturnFacts
<1>6. /\ node' \in [Node -> NodeRecord]
      /\ node'[Me].h = IF Reclaims THEN 0 ELSE cur
      /\ \A n \in Node \ {Me} : node'[n].h = node[n].h
      /\ \A n \in Node :
           /\ node'[n].parent = node[n].parent
           /\ node'[n].in_queue = IF n = Me THEN FALSE
                                  ELSE node[n].in_queue \/ (Wakes /\ n = Parent)
  BY ReturnFacts
<1>7. Head(q) \in Range(q) /\ Range(q) \subseteq Node
  BY <1>1, <1>3, NonEmpty
<1>8. Me \notin Range(q)
  BY <1>3
(* The other nodes in use name other slots. *)
<1>9. \A n \in Node : node[n].h # 0 /\ n # Me => node[n].h \in Handle \ {cur}
  <2> SUFFICES ASSUME NEW n \in Node, node[n].h # 0, n # Me
               PROVE  node[n].h \in Handle \ {cur}
    OBVIOUS
  <2>1. node[n].h \in Handle /\ handle_to_node[node[n].h] = n
    BY QueuedNode
  <2> QED BY <2>1, <1>2
<1>10. \A h \in Handle \ {cur} : Live(h)' <=> Live(h)
  BY <1>4 DEF Live
<1>11. len \in Handle /\ len' = len
  BY <1>1 DEF IInv, TypeOK, PoolTypeOK
<1> HIDE DEF q, to
<1>12. TypeOK'
  <2>1. \A h \in Handle : h > len' => tasks'[h] = Unused
    <3>1. cur \in 1 .. len
      BY DEF IInv, TypeOK, PoolTypeOK
    <3>2. \A h \in Handle : h > len => h # to /\ h # cur
      BY <3>1, <1>4, <1>11, PoolBounds
    <3> QED BY <3>2, <1>4, <1>11 DEF IInv, TypeOK, PoolTypeOK
  <2>2. free_task' \in 0 .. len'
    <3>1. cur \in 0 .. len /\ free_task \in 0 .. len
      BY PoolBounds DEF IInv, TypeOK, PoolTypeOK
    <3> QED BY <3>1, <1>5, <1>11
  <2>3. PoolTypeOK'
    BY <2>1, <2>2, <1>4, <1>11 DEF PoolTypeOK
  <2>4. owner' \in [Handle -> 0 .. MaxTasks]
    BY <1>1, PoolAssumption DEF IInv, TypeOK
  <2> QED BY <2>3, <2>4, <1>1, <1>3, <1>4, <1>5, <1>6 DEF IInv, TypeOK
<1>13. QueueOK'
  <2>1. \A n \in Node : node'[n].in_queue <=> n \in Range(queue')
    BY <1>3, <1>4, <1>6 DEF IInv, QueueOK
  <2>2. ASSUME NEW n \in Range(queue') PROVE (node[n].h # 0 /\ Live(node[n].h))'
    <3>1. n \in Node /\ n # Me /\ n \in Range(q)
      BY <2>2, <1>4, <1>7, <1>8
    <3>2. node[n].h # 0 /\ Live(node[n].h)
      <4>1. CASE n \in Range(queue)
        BY <4>1 DEF IInv, QueueOK
      <4>2. CASE Wakes /\ n = Parent
        <5>1. node[n].h # 0
          BY <4>2, <1>1, <1>3 DEF to
        <5> QED BY <4>2, <5>1, <1>3
      <4> QED BY <3>1, <4>1, <4>2, <1>3
    <3> QED BY <3>1, <3>2, <1>6, <1>9, <1>10 DEF Live
  <2> QED BY <2>1, <2>2, <1>3, <1>4 DEF QueueOK, IsInjective
<1>14. RunningAtFront'
  <2>1. queue' # <<>> /\ Me' = Head(q)
    BY <1>1, <1>4 DEF Me
  <2>2. node'[Head(q)].h = to
    BY <1>6, <1>7, <1>8 DEF to
  <2>3. tasks'[to].state = "RUNNING"
    BY <1>4 DEF Live
  <2> QED BY <2>1, <2>2, <2>3, <1>4 DEF RunningAtFront
<1>15. RegistryOK'
  <2>1. ASSUME NEW h \in Handle
        PROVE  /\ handle_to_node'[h] = NULL <=> tasks'[h].state = "FREE"
               /\ handle_to_node'[h] # NULL => node'[handle_to_node'[h]].h = h
    <3>1. CASE h = cur
      BY <3>1, <1>2, <1>5, <1>6, PoolAssumption DEF Node
    <3>2. CASE h # cur
      <4>1. handle_to_node'[h] = handle_to_node[h]
            /\ (tasks'[h].state = "FREE" <=> tasks[h].state = "FREE")
        BY <3>2, <1>4, <1>5
      <4>2. handle_to_node[h] # NULL => handle_to_node[h] \in Node \ {Me}
        BY <3>2, <1>2 DEF IInv, TypeOK, RegistryOK
      <4> QED BY <4>1, <4>2, <1>6 DEF IInv, RegistryOK
    <3> QED BY <3>1, <3>2
  <2>2. ASSUME NEW n \in Node, node'[n].h # 0 PROVE handle_to_node'[node'[n].h] = n
    <3>1. CASE n = Me
      BY <3>1, <2>2, <1>5, <1>6
    <3>2. CASE n # Me
      BY <3>2, <2>2, <1>5, <1>6, <1>9 DEF IInv, RegistryOK
    <3> QED BY <3>1, <3>2
  <2> QED BY <2>1, <2>2 DEF RegistryOK
<1>16. ParentsWait'
  <2> SUFFICES ASSUME NEW n \in Node, Awaited(n)', node'[node'[n].parent].h # 0
               PROVE  LET p == node'[n].parent
                      IN /\ tasks'[node'[p].h].state = "RUNNING"
                         /\ frame'[node'[p].h].at = "await"
                         /\ frame'[node'[p].h].ids[1] = n
                         /\ node'[p].in_queue => node'[p].h = cur'
    BY DEF ParentsWait
  <2> DEFINE p == node[n].parent
  <2>1. n # Me
    BY <1>5, <1>6 DEF Awaited, Live
  <2>2. /\ node'[n].h = node[n].h /\ node'[n].parent = p
        /\ node[n].h \in Handle \ {cur}
    BY <2>1, <1>6, <1>9 DEF Awaited
  <2>3. Awaited(n)
    BY <2>2, <1>10 DEF Awaited, Live
  <2>4. p \in Node
    BY <2>3 DEF IInv, TypeOK, NodeRecord, Awaited
  <2>5. node[p].h # 0
    <3>1. CASE p = Me
      BY <3>1, <1>2, <1>11, PoolBounds
    <3>2. CASE p # Me
      BY <3>2, <2>2, <2>4, <1>6
    <3> QED BY <3>1, <3>2
  <2>6. node[p].h # cur /\ ~ node[p].in_queue
    BY <2>3, <2>5, <1>1, ParentsOutOfQueue
  <2>7. p # Me /\ node'[p].h = node[p].h /\ node[p].h \in Handle \ {cur}
    BY <2>4, <2>5, <2>6, <1>2, <1>6, <1>9
  <2>8. /\ tasks[node[p].h].state = "RUNNING" /\ frame[node[p].h].at = "await"
        /\ frame[node[p].h].ids[1] = n
    BY <2>3, <2>5 DEF IInv, ParentsWait
  <2>9. tasks'[node[p].h].state = "RUNNING"
    BY <2>7, <2>8, <1>4
  <2>10. node'[p].in_queue => node[p].h = cur'
    <3>1. node'[p].in_queue => Wakes /\ p = Parent
      BY <2>4, <2>6, <2>7, <1>6
    <3> QED BY <3>1, <1>3, <1>4 DEF to
  <2> QED BY <2>2, <2>7, <2>8, <2>9, <2>10, <1>1
<1>17. FreeChain'
  <2>0. FreeChain /\ \A h \in Handle : h # cur =>
                       /\ tasks'[h].state = "FREE" <=> tasks[h].state = "FREE"
                       /\ tasks'[h].handle = tasks[h].handle
    BY <1>4 DEF IInv
  <2>1. CASE Reclaims
    <3>1. cur \in 1 .. len
      BY DEF IInv, TypeOK, PoolTypeOK
    <3>2. /\ tasks[cur].state # "FREE" /\ tasks'[cur].state = "FREE"
          /\ tasks'[cur].handle = free_task /\ free_task' = cur
      BY <2>1, <1>2, <1>5
    <3> QED BY <2>0, <3>1, <3>2, <1>11, FreeChainPushed
  <2>2. CASE ~ Reclaims
    BY <2>0, <2>2, <1>2, <1>5, <1>11, FreeChainStable
  <2> QED BY <2>1, <2>2
<1>18. Returned(Me, Parent)
  <2>1. \A g \in Handle \ {cur} :
          /\ tasks'[g].data = tasks[g].data /\ tasks'[g].orphaned = tasks[g].orphaned
          /\ \/ tasks'[g].state = tasks[g].state
             \/ tasks[g].state = "INIT" /\ tasks'[g].state = "RUNNING"
    BY ReturnFacts
  <2>2. IF tasks[cur].orphaned
        THEN tasks'[cur].state = "FREE" /\ handle_to_node'[cur] = NULL /\ node'[Me].h = 0
        ELSE /\ tasks'[cur].state = "READY" /\ tasks'[cur].data = Me
             /\ ~ tasks'[cur].orphaned
             /\ handle_to_node'[cur] = Me /\ node'[Me].h = cur
    BY ReturnFacts, <1>5, <1>6 DEF Reclaims
  <2>3. \A k \in Node :
          node'[k].in_queue = IF k = Me THEN FALSE ELSE node[k].in_queue \/ k = Parent
    <3>1. \A k \in Node : node[k].in_queue \in BOOLEAN /\ k # NULL
      BY PoolAssumption DEF IInv, TypeOK, NodeRecord, Node
    <3>2. \A k \in Node : (Wakes /\ k = Parent) \/ node[k].in_queue <=> node[k].in_queue \/ k = Parent
      BY <3>1 DEF Wakes
    <3>3. \A k \in Node : node'[k].in_queue \in BOOLEAN
      BY <1>6 DEF NodeRecord
    <3> QED BY <1>6, <3>1, <3>2, <3>3
  <2>4. cur # Main /\ Parent = node[Me].parent
    BY DEF AsyncReturn, Parent
  <2> QED BY <2>1, <2>2, <2>3, <2>4, <1>1, <1>2, <1>5, <1>6 DEF Returned
<1>19. \E m \in Node, p \in Node \cup {NULL} : Returned(m, p)
  <2>1. Parent \in Node \cup {NULL}
    BY <1>2 DEF Parent, IInv, TypeOK, NodeRecord
  <2> QED BY <2>1, <1>18, <1>2
<1> QED BY <1>12, <1>13, <1>14, <1>15, <1>16, <1>17, <1>19 DEF IInv

------------------------------------------------------------------------------
LEMMA InitIInv == Init => IInv
<1> SUFFICES ASSUME Init PROVE IInv
  OBVIOUS
<1>0. /\ MaxTasks \in Nat /\ Main \in Handle /\ Main = 1 /\ Main # 0 /\ Main \in 0 .. MaxTasks
      /\ 0 \in 0 .. MaxTasks
  BY PoolAssumption DEF Handle, Main
<1>1. PICK n \in Node :
       /\ node = [m \in Node |-> [parent |-> NULL, h |-> IF m = n THEN Main ELSE 0,
                                  in_queue |-> m = n]]
       /\ queue = <<n>>
       /\ handle_to_node = [h \in Handle |-> IF h = Main THEN n ELSE NULL]
  BY DEF Init
<1> DEFINE started == [Unused EXCEPT !.state = "RUNNING", !.handle = Main]
<1>2. /\ tasks = [h \in Handle |-> IF h = Main THEN started ELSE Unused]
      /\ len = 1 /\ free_task = 0 /\ cur = Main
      /\ frame = [h \in Handle |-> UserFrame]
      /\ disowned = {} /\ owner = [h \in Handle |-> 0]
      /\ process = "running"
  BY DEF Init
<1>3. /\ Unused \in Task /\ Unused.state = "FREE"
      /\ started \in Task /\ started.state = "RUNNING"
  BY <1>0 DEF Unused, Task, State
<1> HIDE DEF started
<1>4. tasks \in [Handle -> Task]
  BY <1>2, <1>3
<1>5. n # NULL
  BY PoolAssumption DEF Node
<1>6. /\ queue \in Seq(Node) /\ queue # <<>> /\ Head(queue) = n
      /\ DOMAIN queue = {1} /\ queue[1] = n /\ Range(queue) = {n}
  BY <1>1 DEF Range
<1>7. /\ node \in [Node -> NodeRecord]
      /\ \A m \in Node : /\ node[m].parent = NULL
                         /\ node[m].h = IF m = n THEN Main ELSE 0
                         /\ node[m].in_queue <=> m = n
  BY <1>0, <1>1 DEF NodeRecord
<1>8. TypeOK
  <2>1. \A h \in Handle : h > len => h # Main
    BY <1>0, <1>2
  <2>2. PoolTypeOK
    BY <2>1, <1>0, <1>2, <1>4 DEF PoolTypeOK
  <2> QED BY <2>2, <1>0, <1>1, <1>2, <1>6, <1>7, Frames DEF TypeOK
<1>9. QueueOK
  BY <1>0, <1>2, <1>3, <1>6, <1>7 DEF QueueOK, Live
<1>10. RunningAtFront
  BY <1>0, <1>2, <1>3, <1>6, <1>7 DEF RunningAtFront, Me
<1>11. RegistryOK
  BY <1>0, <1>1, <1>2, <1>3, <1>5, <1>7 DEF RegistryOK
<1>12. ParentsWait
  BY <1>7 DEF ParentsWait, Awaited
<1>13. FreeChain
  <2>1. FreeSlots = {}
    BY <1>0, <1>2, <1>3 DEF FreeSlots
  <2> DEFINE f == [i \in 1 .. 0 |-> Main]
  <2>2. IsFreeList(f, 0)
    BY <2>1, <1>2 DEF IsFreeList
  <2>3. f \in [1 .. 0 -> Handle] /\ 0 \in Nat
    OBVIOUS
  <2> QED BY <2>2, <2>3 DEF FreeChain
<1> QED BY <1>8, <1>9, <1>10, <1>11, <1>12, <1>13 DEF IInv

(* Every step of the program keeps the invariant. *)
LEMMA NextIInv == IInv /\ [Next]_vars => IInv'
<1> SUFFICES ASSUME IInv, [Next]_vars PROVE IInv'
  OBVIOUS
<1>1. CASE AsyncCall
  BY <1>1, AsyncCallKeeps
<1>2. CASE AsyncSkip
  BY <1>2, Frames, SkipKeeps DEF AsyncSkip, InUser, UserFrame
<1>3. CASE AsyncReturn
  BY <1>3, AsyncReturnKeeps
<1>4. CASE AsyncReturnAborts
  BY <1>4, FailsKeeps DEF AsyncReturnAborts, InUser, Abort
<1>5. CASE MainReturns
  BY <1>5, QuietKeeps DEF MainReturns, Running
<1>6. CASE AwaitReturns
  BY <1>6, AwaitReturnsKeeps
<1>7. CASE AwaitReturnAborts
  BY <1>7, FailsKeeps DEF AwaitReturnAborts, Abort
<1>8. CASE PollAgain
  <2>1. frame[cur] \in Frame
    BY PoolBounds DEF IInv, TypeOK, PoolTypeOK
  <2> QED BY <2>1, <1>8, PollOnceKeeps DEF PollAgain
<1>9. CASE FallsOff
  BY <1>9, FailsKeeps DEF FallsOff, InUser, Abort
<1>10. CASE Ended \/ UNCHANGED vars
  BY <1>10, QuietKeeps DEF Ended, vars, Running, IInv, TypeOK
<1>11. ASSUME NEW h \in Issued, Await(h) PROVE IInv'
  BY <1>11, AwaitKeeps
<1>12. ASSUME NEW h \in Issued, AwaitAborts(h) PROVE IInv'
  BY <1>12, FailsKeeps DEF AwaitAborts, InUser, Abort
<1>13. ASSUME NEW h \in Issued, AsyncFree(h) PROVE IInv'
  BY <1>13, AsyncFreeKeeps
<1>14. ASSUME NEW h \in Issued, AsyncFreeAborts(h) PROVE IInv'
  BY <1>14, FailsKeeps DEF AsyncFreeAborts, InUser, Abort
<1>15. ASSUME NEW h \in Issued, AsyncOrphan(h) PROVE IInv'
  BY <1>15, AsyncOrphanKeeps
<1>16. ASSUME NEW hs \in HandleLists, AwaitAny(hs) \/ AwaitAll(hs) PROVE IInv'
  BY <1>16, PollFrames, PollOnceKeeps DEF AwaitAny, AwaitAll, InUser, IInv
<1> QED BY <1>1, <1>2, <1>3, <1>4, <1>5, <1>6, <1>7, <1>8, <1>9, <1>10, <1>11,
           <1>12, <1>13, <1>14, <1>15, <1>16 DEF Next

(* The queue, the in_queue flags, the map, the task states, the parents and the
   free list of scheduler.c and graph_scheduler.c agree in every reachable
   state, whatever calls the coroutines make. *)
THEOREM Consistent == Spec => []IInv
<1>1. Init => IInv
  BY InitIInv
<1>2. IInv /\ [Next]_vars => IInv'
  BY NextIInv
<1> QED BY <1>1, <1>2, PTL DEF Spec

(* Every variable keeps its type: no handle, node or index leaves its range. *)
THEOREM GraphTypeCorrect == Spec => []TypeOK
<1>1. IInv => TypeOK
  BY DEF IInv
<1> QED BY <1>1, Consistent, PTL

(* The queue of graph_scheduler.c lists exactly the nodes flagged in_queue, each
   once, and each can be switched to: the checks of verify_queue and of the
   switch never fail for a node taken from the queue. *)
THEOREM QueueConsistent == Spec => []QueueOK
<1>1. IInv => QueueOK
  BY DEF IInv
<1> QED BY <1>1, Consistent, PTL

(* graph_current_task, which answers with the front of the queue, is right:
   the front is the coroutine whose stack is in use. *)
THEOREM CallerIsFront == Spec => []RunningAtFront
<1>1. IInv => RunningAtFront
  BY DEF IInv
<1> QED BY <1>1, Consistent, PTL

(* The map of graph_register_task and graph_free_task names exactly the slots
   in use, and no two nodes name one slot. *)
THEOREM RegistryConsistent == Spec => []RegistryOK
<1>1. IInv => RegistryOK
  BY DEF IInv
<1> QED BY <1>1, Consistent, PTL

(* Whom graph_finish_task wakes is blocked in the await of the coroutine that
   finishes. *)
THEOREM ParentsBlocked == Spec => []ParentsWait
<1>1. IInv => ParentsWait
  BY DEF IInv
<1> QED BY <1>1, Consistent, PTL

(* The free list of start_new_task and free_task visits every free slot once and
   no slot in use, and is never longer than the pool. *)
THEOREM FreeListCorrect == Spec => []FreeListOK
<1>1. IInv => FreeListOK
  BY FreeChainBounded DEF IInv
<1> QED BY <1>1, Consistent, PTL

------------------------------------------------------------------------------
(* Whom each waiting coroutine waits for, for every contract. *)
Shaped(f) ==
  /\ f.at = "user" => f = UserFrame
  /\ f.at # "user" => f.on \in HandleLists /\ DOMAIN f.ids = DOMAIN f.on
  /\ f.at = "await" => DOMAIN f.on = {1}

(* Only a coroutine that has started and not returned is inside a call. *)
FramesOK ==
  \A h \in Handle : /\ Shaped(frame[h])
                    /\ tasks[h].state \in {"INIT", "READY"} => frame[h].at = "user"

InitQueued == \A h \in Handle : tasks[h].state = "INIT" => node[handle_to_node[h]].in_queue

ResultsStored == \A n \in Node : node[n].h # 0 /\ IsReady(node[n].h)
                                   => tasks[node[n].h].data = n

(* The node a coroutine awaits is forgotten, or still that of the slot. *)
AwaitsOK ==
  \A h \in Handle : handle_to_node[h] # NULL /\ frame[h].at = "await" =>
    frame[h].ids[1] \in Node /\ node[frame[h].ids[1]].h \in {0, frame[h].on[1]}

AwaitLinked(h) ==
  /\ frame[h].at = "await"
  /\ LET n == frame[h].ids[1]
     IN node[n].h # 0 => node[n].parent = handle_to_node[h] /\ Live(node[n].h)
BlockedOK == \A h \in Handle : Blocked(h) => AwaitLinked(h)

WaitInv ==
  /\ IInv
  /\ FramesOK
  /\ InitQueued
  /\ ResultsStored
  /\ AwaitsOK
  /\ BlockedOK

(* What every other call does: at most, it switches to another coroutine and
   changes the frame of the caller, or it sets an orphaned flag. *)
Wanted(f) ==
  \/ f = UserFrame
  \/ \E at \in {"any", "all"}, hs \in HandleLists : MayPoll(hs) /\ f = PollFrame(at, hs)

Moves ==
  /\ \A h \in Handle :
       /\ tasks'[h].data = tasks[h].data
       /\ \/ tasks'[h].orphaned = tasks[h].orphaned
          \/ MayOrphan(h) /\ frame' = frame
       /\ \/ tasks'[h].state = tasks[h].state
          \/ tasks[h].state = "INIT" /\ tasks'[h].state = "RUNNING"
       /\ \/ frame'[h] = frame[h]
          \/ Running /\ h = cur /\ Wanted(frame'[h])
  /\ node' = node /\ handle_to_node' = handle_to_node

LEMMA FrameShapes ==
  /\ Shaped(UserFrame)
  /\ \A h \in Handle : \A c : Shaped([at |-> "await", on |-> <<h>>, ids |-> <<c>>])
  /\ \A at \in {"any", "all"}, hs \in HandleLists : Shaped(PollFrame(at, hs))
<1>1. Shaped(UserFrame)
  BY DEF Shaped, UserFrame
<1>2. ASSUME NEW h \in Handle, NEW c
      PROVE  Shaped([at |-> "await", on |-> <<h>>, ids |-> <<c>>])
  <2>1. <<h>> \in [1 .. 1 -> Handle] /\ 1 \in 1 .. MaxPoll
    BY GraphAssumption
  <2>2. <<h>> \in HandleLists
    BY <2>1 DEF HandleLists
  <2>3. DOMAIN <<h>> = {1} /\ DOMAIN <<c>> = {1}
    OBVIOUS
  <2> QED BY <2>2, <2>3 DEF Shaped
<1>3. ASSUME NEW at \in {"any", "all"}, NEW hs \in HandleLists
      PROVE  Shaped(PollFrame(at, hs))
  BY DEF Shaped, PollFrame
<1> QED BY <1>1, <1>2, <1>3

LEMMA WantedShape ==
  ASSUME NEW f, Wanted(f)
  PROVE  Shaped(f) /\ f.at # "await"
BY FrameShapes DEF Wanted, UserFrame, PollFrame

LEMMA SkipMoves ==
  ASSUME IInv, Running, NEW f, f = frame[cur] \/ Wanted(f), Skip(f)
  PROVE  Moves
<1> DEFINE to == Front(Rotated)
<1>1. /\ tasks' = Switched(tasks, to) /\ frame' = [frame EXCEPT ![cur] = f]
      /\ node' = node /\ handle_to_node' = handle_to_node
  BY DEF Skip, SwitchTo
<1>2. to \in Handle
  <2>1. queue \in Seq(Node) /\ queue # <<>> /\ IsInjective(queue)
    BY CurrentNode
  <2>2. Rotated \in Seq(Node) /\ Rotated # <<>> /\ Range(Rotated) = Range(queue)
    BY <2>1, RotateDistinct DEF Rotated, Me
  <2>3. Head(Rotated) \in Node /\ Head(Rotated) \in Range(queue)
    BY <2>2, NonEmpty
  <2> QED BY <2>3, QueuedNode DEF IInv, QueueOK, Front
<1> HIDE DEF to
<1>3. tasks \in [Handle -> Task] /\ frame \in [Handle -> Frame] /\ cur \in Handle
  BY CurrentNode DEF IInv, TypeOK, PoolTypeOK
<1>4. \A h \in Handle :
        /\ tasks'[h].data = tasks[h].data
        /\ tasks'[h].orphaned = tasks[h].orphaned
        /\ tasks'[h].state = IF h = to /\ tasks[h].state = "INIT"
                             THEN "RUNNING" ELSE tasks[h].state
  BY <1>1, <1>2, <1>3, SwitchedFacts
<1>5. \A h \in Handle : frame'[h] = IF h = cur THEN f ELSE frame[h]
  BY <1>1, <1>3
<1> QED BY <1>1, <1>4, <1>5 DEF Moves

LEMMA ReturnToCallerMoves ==
  ASSUME IInv, Running, frame' = [frame EXCEPT ![cur] = UserFrame],
         UNCHANGED <<poolVars, schedVars, history, process>>
  PROVE  Moves
<1>1. \A h \in Handle : frame'[h] = IF h = cur THEN UserFrame ELSE frame[h]
  BY CurrentNode DEF IInv, TypeOK
<1> QED BY <1>1 DEF Moves, Wanted, poolVars, schedVars

LEMMA PollOnceMoves ==
  ASSUME IInv, Running, NEW f, f = frame[cur] \/ Wanted(f), PollOnce(f)
  PROVE  Moves
BY SkipMoves, ReturnToCallerMoves DEF PollOnce

LEMMA QuietMoves ==
  ASSUME UNCHANGED <<poolVars, schedVars, frame>>
  PROVE  Moves
BY DEF Moves, poolVars, schedVars

LEMMA OrphanMoves ==
  ASSUME IInv, NEW h \in Issued, AsyncOrphan(h)
  PROVE  Moves
<1>1. h \in Handle /\ tasks \in [Handle -> Task]
  BY PoolBounds DEF Issued, IInv, TypeOK, PoolTypeOK
<1>2. tasks' = [tasks EXCEPT ![h].orphaned = TRUE]
      /\ node' = node /\ handle_to_node' = handle_to_node /\ frame' = frame
      /\ MayOrphan(h)
  BY DEF AsyncOrphan, schedVars
<1>3. \A g \in Handle : /\ tasks'[g].data = tasks[g].data /\ tasks'[g].state = tasks[g].state
                        /\ g # h => tasks'[g] = tasks[g]
  BY <1>1, <1>2 DEF Task
<1> QED BY <1>2, <1>3 DEF Moves

(* A step after which nobody waits who did not wait before, in the same way. *)
OldWaiters == \A h \in Handle : (Blocked(h))' => Blocked(h) /\ frame'[h] = frame[h]

(* Every step is one of five. *)
LEMMA NextEffects ==
  ASSUME IInv, [Next]_vars
  PROVE  \/ Moves
         \/ \E g \in Handle, n \in Node : Called(g, n)
         \/ \E h \in Handle, n, m \in Node : Awaits(h, n, m)
         \/ \E h \in Handle, n \in Node : Frees(h, n)
         \/ \E m \in Node, p \in Node \cup {NULL} : Returned(m, p)
<1>0. Issued \subseteq Handle
  BY PoolBounds DEF Issued, IInv, TypeOK, PoolTypeOK
<1>1. CASE AsyncCall
  BY <1>1, AsyncCallKeeps
<1>2. CASE AsyncSkip
  BY <1>2, SkipMoves DEF AsyncSkip, InUser, Wanted
<1>3. CASE AsyncReturn
  BY <1>3, AsyncReturnKeeps
<1>4. CASE AsyncReturnAborts
  BY <1>4, QuietMoves DEF AsyncReturnAborts, Fails
<1>5. CASE MainReturns
  BY <1>5, QuietMoves DEF MainReturns
<1>6. CASE AwaitReturns
  BY <1>6, ReturnToCallerMoves DEF AwaitReturns
<1>7. CASE AwaitReturnAborts
  BY <1>7, QuietMoves DEF AwaitReturnAborts, Fails
<1>8. CASE PollAgain
  BY <1>8, PollOnceMoves DEF PollAgain
<1>9. CASE FallsOff
  BY <1>9, QuietMoves DEF FallsOff, Fails
<1>10. CASE Ended \/ UNCHANGED vars
  BY <1>10, QuietMoves DEF Ended, vars
<1>11. ASSUME NEW h \in Issued, Await(h)
       PROVE  \E n, m \in Node : Awaits(h, n, m)
  BY <1>11, AwaitKeeps
<1>12. ASSUME NEW h \in Issued, AwaitAborts(h) PROVE Moves
  BY <1>12, QuietMoves DEF AwaitAborts, Fails
<1>13. ASSUME NEW h \in Issued, AsyncFree(h) PROVE \E n \in Node : Frees(h, n)
  BY <1>13, AsyncFreeKeeps
<1>14. ASSUME NEW h \in Issued, AsyncFreeAborts(h) PROVE Moves
  BY <1>14, QuietMoves DEF AsyncFreeAborts, Fails
<1>15. ASSUME NEW h \in Issued, AsyncOrphan(h) PROVE Moves
  BY <1>15, OrphanMoves
<1>16. ASSUME NEW hs \in HandleLists, AwaitAny(hs) \/ AwaitAll(hs) PROVE Moves
  <2>1. PICK at \in {"any", "all"} : Running /\ PollOnce(PollFrame(at, hs)) /\ MayPoll(hs)
    BY <1>16 DEF AwaitAny, AwaitAll, InUser
  <2> DEFINE f == PollFrame(at, hs)
  <2>2. Wanted(f)
    BY <2>1 DEF Wanted
  <2> HIDE DEF f
  <2> QED BY <2>1, <2>2, PollOnceMoves DEF f
<1> QED BY <1>0, <1>1, <1>2, <1>3, <1>4, <1>5, <1>6, <1>7, <1>8, <1>9, <1>10, <1>11,
           <1>12, <1>13, <1>14, <1>15, <1>16 DEF Next

(* The parent of a live coroutine is awaiting it. *)
LEMMA ParentAwaits ==
  ASSUME IInv, NEW k \in Node, Awaited(k), node[node[k].parent].h # 0
  PROVE  /\ node[k].parent \in Node
         /\ tasks[node[node[k].parent].h].state = "RUNNING"
         /\ frame[node[node[k].parent].h].at = "await"
<1>1. node[k] \in NodeRecord
  BY DEF IInv, TypeOK
<1>2. node[k].parent \in Node
  BY <1>1 DEF NodeRecord, Awaited
<1>3. ParentsWait
  BY DEF IInv
<1> QED BY <1>2, <1>3 DEF ParentsWait

(* The map leads from each slot in use to its node and back. *)
LEMMA Registered ==
  ASSUME IInv
  PROVE  /\ \A h \in Handle : /\ handle_to_node[h] = NULL <=> tasks[h].state = "FREE"
                              /\ handle_to_node[h] # NULL =>
                                   handle_to_node[h] \in Node /\ node[handle_to_node[h]].h = h
         /\ \A n \in Node : node[n].h # 0 =>
              node[n].h \in Handle /\ handle_to_node[node[n].h] = n
         /\ NULL \notin Node
<1>1. \A h \in Handle : handle_to_node[h] # NULL => handle_to_node[h] \in Node
  BY DEF IInv, TypeOK
<1>2. \A n \in Node : node[n].h # 0 => node[n].h \in Handle
  BY QueuedNode
<1> QED BY <1>1, <1>2, PoolAssumption DEF IInv, RegistryOK, Node

LEMMA MovesKeepWaits ==
  ASSUME WaitInv, IInv', Moves
  PROVE  WaitInv' /\ OldWaiters
<1> USE DEF WaitInv
<1>1. /\ \A h \in Handle :
           /\ tasks'[h].data = tasks[h].data
           /\ \/ tasks'[h].state = tasks[h].state
              \/ tasks[h].state = "INIT" /\ tasks'[h].state = "RUNNING"
           /\ \/ frame'[h] = frame[h]
              \/ /\ Running /\ h = cur
                 /\ Shaped(frame'[h]) /\ frame'[h].at # "await"
      /\ node' = node /\ handle_to_node' = handle_to_node
  BY WantedShape DEF Moves
<1>2. Running => /\ tasks[cur].state = "RUNNING" /\ handle_to_node[cur] = Me
                 /\ node[Me].in_queue
  BY CurrentNode
<1>3. FramesOK'
  BY <1>1, <1>2 DEF FramesOK
<1>4. InitQueued'
  BY <1>1 DEF InitQueued
<1>5. \A n \in Node : node[n].h # 0 => node[n].h \in Handle
  BY Registered
<1>6. ResultsStored'
  BY <1>1, <1>5 DEF ResultsStored, IsReady
<1>7. AwaitsOK'
  <2>1. ASSUME NEW h \in Handle, frame'[h].at = "await" PROVE frame'[h] = frame[h]
    BY <2>1, <1>1
  <2> QED BY <2>1, <1>1 DEF AwaitsOK
<1>8. BlockedOK' /\ OldWaiters
  <2> SUFFICES ASSUME NEW h \in Handle, Blocked(h)'
               PROVE  AwaitLinked(h)' /\ Blocked(h) /\ frame'[h] = frame[h]
    BY <1>1 DEF BlockedOK, OldWaiters
  <2>1. Blocked(h)
    BY <1>1 DEF Blocked, InitQueued
  <2>2. frame'[h] = frame[h] /\ frame'[h].ids[1] = frame[h].ids[1]
    BY <2>1, <1>1, <1>2 DEF Blocked
  <2>3. frame[h].ids[1] \in Node /\ frame[h].at = "await"
    BY <2>1 DEF BlockedOK, AwaitLinked, AwaitsOK, Blocked
  <2>4. \A g \in Handle : Live(g) => Live(g)'
    BY <1>1 DEF Live
  <2> QED BY <2>1, <2>2, <2>3, <2>4, <1>1, <1>5 DEF BlockedOK, AwaitLinked, Live
<1> QED BY <1>3, <1>4, <1>6, <1>7, <1>8

LEMMA CalledKeepsWaits ==
  ASSUME WaitInv, IInv', NEW g \in Handle, NEW n \in Node, Called(g, n)
  PROVE  WaitInv' /\ OldWaiters
<1> USE DEF WaitInv
<1>1. /\ handle_to_node[g] = NULL /\ node[n].h = 0
      /\ \A h \in Handle : handle_to_node[h] # NULL =>
           handle_to_node[h] # n /\ n \notin Range(frame[h].ids)
      /\ tasks'[g].state = "INIT"
      /\ \A h \in Handle \ {g} : tasks'[h] = tasks[h]
      /\ \A m \in Node \ {n} : node'[m] = node[m]
      /\ node'[n].h = g /\ node'[n].in_queue = TRUE
      /\ \A h \in Handle : handle_to_node'[h] = IF h = g THEN n ELSE handle_to_node[h]
      /\ \A h \in Handle : frame'[h] = IF h = g THEN UserFrame ELSE frame[h]
      /\ \A m \in Node : node[m].h # 0 => m # n /\ node[m].h \in Handle \ {g}
  BY DEF Called
<1>2. UserFrame.at = "user" /\ Shaped(UserFrame)
  BY FrameShapes DEF UserFrame
<1>3. FramesOK'
  BY <1>1, <1>2 DEF FramesOK
<1>4. InitQueued'
  BY <1>1, Registered DEF InitQueued
<1>5. ResultsStored'
  BY <1>1 DEF ResultsStored, IsReady
(* A frame that waits keeps a node in reach. *)
<1>6. ASSUME NEW h \in Handle \ {g}, handle_to_node[h] # NULL, frame[h].at = "await"
      PROVE  /\ frame[h].ids[1] \in Node \ {n} /\ node'[frame[h].ids[1]] = node[frame[h].ids[1]]
             /\ frame'[h].ids[1] = frame[h].ids[1]
  <2>1. 1 \in DOMAIN frame[h].ids
    BY <1>6 DEF FramesOK, Shaped
  <2>2. frame[h].ids[1] \in Range(frame[h].ids)
    BY <2>1 DEF Range
  <2> QED BY <2>2, <1>1, <1>6 DEF AwaitsOK
<1>7. AwaitsOK'
  <2> SUFFICES ASSUME NEW h \in Handle, handle_to_node'[h] # NULL, frame'[h].at = "await"
               PROVE  frame'[h].ids[1] \in Node /\ node'[frame'[h].ids[1]].h \in {0, frame'[h].on[1]}
    BY DEF AwaitsOK
  <2>1. h # g
    BY <1>1, <1>2
  <2> QED BY <2>1, <1>1, <1>6 DEF AwaitsOK
<1>8. BlockedOK' /\ OldWaiters
  <2> SUFFICES ASSUME NEW h \in Handle, Blocked(h)'
               PROVE  AwaitLinked(h)' /\ Blocked(h) /\ frame'[h] = frame[h]
    BY DEF BlockedOK, OldWaiters
  <2>1. h # g
    BY <1>1 DEF Blocked
  <2>2. Blocked(h)
    <3>1. handle_to_node[h] # NULL /\ handle_to_node'[h] = handle_to_node[h]
          /\ node'[handle_to_node[h]] = node[handle_to_node[h]] /\ tasks'[h] = tasks[h]
      BY <2>1, <1>1, Registered DEF Blocked
    <3> QED BY <3>1 DEF Blocked
  <2>3. frame[h].at = "await" /\ handle_to_node[h] # NULL /\ frame'[h] = frame[h]
    BY <2>1, <2>2, <1>1 DEF BlockedOK, AwaitLinked, Blocked
  <2>4. /\ frame'[h].ids[1] = frame[h].ids[1] /\ frame[h].ids[1] \in Node
        /\ node'[frame[h].ids[1]] = node[frame[h].ids[1]]
    BY <2>1, <2>3, <1>6
  <2>5. ASSUME node[frame[h].ids[1]].h # 0
        PROVE  /\ node[frame[h].ids[1]].parent = handle_to_node'[h]
               /\ Live(node[frame[h].ids[1]].h)'
    <3>1. node[frame[h].ids[1]].h \in Handle \ {g}
      BY <2>4, <2>5, <1>1
    <3>2. node[frame[h].ids[1]].parent = handle_to_node[h] /\ Live(node[frame[h].ids[1]].h)
      BY <2>2, <2>5 DEF BlockedOK, AwaitLinked
    <3> QED BY <3>1, <3>2, <2>1, <2>4, <1>1 DEF Live
  <2> QED BY <2>2, <2>3, <2>4, <2>5 DEF AwaitLinked, Live
<1> QED BY <1>3, <1>4, <1>5, <1>7, <1>8

LEMMA AwaitKeepsWaits ==
  ASSUME WaitInv, IInv', NEW h \in Handle, NEW n \in Node, NEW m \in Node, Awaits(h, n, m)
  PROVE  /\ WaitInv'
         /\ \A g \in Handle : Blocked(g)' => g = cur \/ (Blocked(g) /\ frame'[g] = frame[g])
<1> USE DEF WaitInv
<1>1. /\ cur \in Handle /\ handle_to_node[cur] = m /\ node[m].h = cur
      /\ tasks[cur].state = "RUNNING" /\ node[m].in_queue
      /\ h # cur /\ handle_to_node[h] = n /\ node[n].h = h /\ n # m
      /\ node[n].parent = NULL /\ Live(h)
      /\ handle_to_node' = handle_to_node
  BY DEF Awaits
<1>2. \A g \in Handle :
       /\ tasks'[g].data = tasks[g].data
       /\ \/ tasks'[g].state = tasks[g].state
          \/ tasks[g].state = "INIT" /\ tasks'[g].state = "RUNNING"
  BY DEF Awaits
<1>3. \A k \in Node :
       /\ node'[k].h = node[k].h
       /\ node'[k].parent = IF k = n THEN m ELSE node[k].parent
       /\ node'[k].in_queue = IF k = n THEN TRUE
                              ELSE IF k = m THEN FALSE ELSE node[k].in_queue
  BY DEF Awaits
<1> DEFINE f == [at |-> "await", on |-> <<h>>, ids |-> <<n>>]
<1>4. \A g \in Handle : frame'[g] = IF g = cur THEN f ELSE frame[g]
  BY DEF Awaits
<1>5. Shaped(f) /\ f.at = "await" /\ f.on[1] = h /\ f.ids[1] = n
  BY FrameShapes
<1> HIDE DEF f
<1>6. FramesOK'
  BY <1>1, <1>2, <1>4, <1>5 DEF FramesOK
<1>7. InitQueued'
  <2> SUFFICES ASSUME NEW g \in Handle, tasks'[g].state = "INIT"
               PROVE  node'[handle_to_node[g]].in_queue
    BY <1>1 DEF InitQueued
  <2>1. tasks[g].state = "INIT" /\ node[handle_to_node[g]].in_queue
    BY <1>2 DEF InitQueued
  <2>2. handle_to_node[g] \in Node /\ handle_to_node[g] # m
    BY <2>1, <1>1, Registered
  <2> QED BY <2>1, <2>2, <1>3
<1>8. \A k \in Node : node[k].h # 0 => node[k].h \in Handle
  BY Registered
<1>9. ResultsStored'
  <2> SUFFICES ASSUME NEW k \in Node, node[k].h # 0, tasks'[node[k].h].state = "READY"
               PROVE  tasks'[node[k].h].data = k
    BY <1>3 DEF ResultsStored, IsReady
  <2>1. node[k].h \in Handle
    BY <1>8
  <2> QED BY <2>1, <1>2 DEF ResultsStored, IsReady
<1>10. AwaitsOK'
  <2> SUFFICES ASSUME NEW g \in Handle, handle_to_node[g] # NULL, frame'[g].at = "await"
               PROVE  /\ frame'[g].ids[1] \in Node
                      /\ node'[frame'[g].ids[1]].h \in {0, frame'[g].on[1]}
    BY <1>1 DEF AwaitsOK
  <2>1. CASE g = cur
    <3>1. frame'[g] = f
      BY <2>1, <1>4
    <3>2. node'[n].h = h
      BY <1>1, <1>3
    <3> QED BY <3>1, <3>2, <1>5
  <2>2. CASE g # cur
    <3>1. frame'[g] = frame[g]
      BY <2>2, <1>4
    <3>2. frame[g].ids[1] \in Node /\ node[frame[g].ids[1]].h \in {0, frame[g].on[1]}
      BY <3>1 DEF AwaitsOK
    <3> QED BY <3>1, <3>2, <1>3
  <2> QED BY <2>1, <2>2
<1>11. \A g \in Handle : Live(g) => Live(g)'
  BY <1>2 DEF Live
<1>12. /\ BlockedOK'
       /\ \A g \in Handle : Blocked(g)' => g = cur \/ (Blocked(g) /\ frame'[g] = frame[g])
  <2> SUFFICES ASSUME NEW g \in Handle, Blocked(g)'
               PROVE  /\ AwaitLinked(g)'
                      /\ g = cur \/ (Blocked(g) /\ frame'[g] = frame[g])
    BY DEF BlockedOK
  <2>1. CASE g = cur
    <3>1. frame'[g] = f /\ f.ids[1] = n /\ node'[n].h = h /\ node'[n].parent = m
      BY <2>1, <1>1, <1>3, <1>4, <1>5
    <3>2. tasks'[h].state \in {"INIT", "RUNNING"} /\ handle_to_node'[g] = m
      BY <2>1, <1>1, <1>11 DEF Live
    <3> QED BY <2>1, <3>1, <3>2, <1>5 DEF AwaitLinked, Live
  <2>2. CASE g # cur
    <3> DEFINE c == frame[g].ids[1]
    <3>1. handle_to_node[g] \in Node /\ handle_to_node[g] # m /\ tasks'[g].state = "RUNNING"
          /\ handle_to_node[g] # NULL /\ ~ node'[handle_to_node[g]].in_queue
      BY <2>2, <1>1, Registered DEF Blocked
    <3>2. ~ node[handle_to_node[g]].in_queue
      BY <3>1, <1>3
    <3>3. Blocked(g)
      BY <3>1, <3>2, <1>2 DEF Blocked, InitQueued
    <3>4. AwaitLinked(g) /\ c \in Node /\ frame'[g] = frame[g]
      BY <2>2, <3>1, <3>3, <1>4 DEF BlockedOK, AwaitsOK, AwaitLinked
    (* The awaited coroutine had no parent, so it is not the one g waits for. *)
    <3>5. node[c].h # 0 => c # n
      BY <3>1, <3>4, <1>1, Registered DEF AwaitLinked
    <3>6. ASSUME node[c].h # 0
          PROVE  /\ node'[c].parent = handle_to_node[g]
                 /\ tasks'[node[c].h].state \in {"INIT", "RUNNING"}
      <4>1. node[c].h \in Handle /\ node'[c].parent = node[c].parent
        BY <3>4, <3>5, <3>6, <1>3, <1>8
      <4> QED BY <3>4, <3>6, <4>1, <1>11 DEF AwaitLinked, Live
    <3>7. node'[c].h = node[c].h
      BY <3>4, <1>3
    <3> QED BY <3>3, <3>4, <3>6, <3>7, <1>1 DEF AwaitLinked, Live
  <2> QED BY <2>1, <2>2
<1> QED BY <1>6, <1>7, <1>9, <1>10, <1>12

LEMMA FreeKeepsWaits ==
  ASSUME WaitInv, IInv', NEW h \in Handle, NEW n \in Node, Frees(h, n)
  PROVE  WaitInv' /\ OldWaiters
<1> USE DEF WaitInv
<1>1. /\ handle_to_node[h] = n /\ node[n].h = h
      /\ tasks'[h].state = "FREE" /\ frame' = frame
      /\ \A g \in Handle \ {h} : tasks'[g] = tasks[g]
      /\ node'[n].h = 0
      /\ \A k \in Node \ {n} : node'[k].h = node[k].h
      /\ \A k \in Node : /\ node'[k].parent = node[k].parent
                         /\ node'[k].in_queue = node[k].in_queue
      /\ \A g \in Handle : handle_to_node'[g] = IF g = h THEN NULL ELSE handle_to_node[g]
  BY DEF Frees
<1>2. \A k \in Node \ {n} : node[k].h # 0 => node[k].h \in Handle \ {h}
  BY <1>1, Registered
<1>3. FramesOK'
  BY <1>1 DEF FramesOK
<1>4. InitQueued'
  <2> SUFFICES ASSUME NEW g \in Handle, tasks'[g].state = "INIT"
               PROVE  node'[handle_to_node'[g]].in_queue
    BY DEF InitQueued
  <2>1. g # h /\ tasks[g].state = "INIT" /\ handle_to_node[g] \in Node
    BY <1>1, Registered
  <2> QED BY <2>1, <1>1 DEF InitQueued
<1>5. ResultsStored'
  BY <1>1, <1>2 DEF ResultsStored, IsReady
<1>6. AwaitsOK'
  BY <1>1 DEF AwaitsOK
<1>7. BlockedOK' /\ OldWaiters
  <2> SUFFICES ASSUME NEW g \in Handle, Blocked(g)'
               PROVE  AwaitLinked(g)' /\ Blocked(g)
    BY <1>1 DEF BlockedOK, OldWaiters
  <2> DEFINE c == frame[g].ids[1]
  <2>1. g # h /\ Blocked(g) /\ handle_to_node'[g] = handle_to_node[g]
    <3>1. g # h
      BY <1>1 DEF Blocked
    <3>2. handle_to_node[g] \in Node
      BY <3>1, <1>1, Registered DEF Blocked
    <3> QED BY <3>1, <3>2, <1>1 DEF Blocked
  <2>2. AwaitLinked(g) /\ c \in Node
    BY <2>1 DEF BlockedOK, AwaitsOK, AwaitLinked, Blocked
  <2>3. node'[c].h # 0 => /\ node'[c].h = node[c].h /\ node[c].h \in Handle \ {h}
                          /\ node'[c].parent = node[c].parent
    BY <2>2, <1>1, <1>2
  <2> QED BY <2>1, <2>2, <2>3, <1>1 DEF AwaitLinked, Live
<1> QED BY <1>3, <1>4, <1>5, <1>6, <1>7

LEMMA ReturnKeepsWaits ==
  ASSUME WaitInv, IInv', NEW m \in Node, NEW p \in Node \cup {NULL}, Returned(m, p)
  PROVE  WaitInv' /\ OldWaiters
<1> USE DEF WaitInv
<1>1. /\ cur \in Handle /\ handle_to_node[cur] = m /\ node[m].h = cur
      /\ frame[cur].at = "user" /\ frame' = frame
      /\ node[m].parent = p /\ tasks[cur].state = "RUNNING"
      /\ \A k \in Node \ {m} : node'[k].h = node[k].h
      /\ \A k \in Node :
           /\ node'[k].parent = node[k].parent
           /\ node'[k].in_queue = IF k = m THEN FALSE ELSE node[k].in_queue \/ k = p
  BY DEF Returned
<1>2. \A g \in Handle \ {cur} :
       /\ tasks'[g].data = tasks[g].data
       /\ \/ tasks'[g].state = tasks[g].state
          \/ tasks[g].state = "INIT" /\ tasks'[g].state = "RUNNING"
       /\ handle_to_node'[g] = handle_to_node[g]
  BY DEF Returned
<1>3. /\ tasks'[cur].state \in {"FREE", "READY"}
      /\ tasks'[cur].state = "READY" => tasks'[cur].data = m
      /\ node'[m].h \in {0, cur}
  BY DEF Returned
<1>4. \A k \in Node \ {m} : node[k].h # 0 => node[k].h \in Handle \ {cur}
  BY <1>1, Registered
<1>5. FramesOK'
  BY <1>1, <1>2 DEF FramesOK
<1>6. InitQueued'
  <2> SUFFICES ASSUME NEW g \in Handle, tasks'[g].state = "INIT"
               PROVE  node'[handle_to_node'[g]].in_queue
    BY DEF InitQueued
  <2>1. g # cur
    BY <1>3
  <2>2. tasks[g].state = "INIT" /\ handle_to_node[g] \in Node /\ handle_to_node[g] # m
    BY <2>1, <1>1, <1>2, Registered
  <2> QED BY <2>1, <2>2, <1>1, <1>2 DEF InitQueued
<1>7. ResultsStored'
  BY <1>1, <1>2, <1>3, <1>4 DEF ResultsStored, IsReady
<1>8. AwaitsOK'
  BY <1>1, <1>2, <1>3 DEF AwaitsOK
<1>9. \A g \in Handle \ {cur} : Live(g) => Live(g)'
  BY <1>2 DEF Live
<1>10. BlockedOK' /\ OldWaiters
  <2> SUFFICES ASSUME NEW g \in Handle, Blocked(g)'
               PROVE  AwaitLinked(g)' /\ Blocked(g)
    BY <1>1 DEF BlockedOK, OldWaiters
  <2> DEFINE c == frame[g].ids[1]
  <2>1. g # cur
    BY <1>3 DEF Blocked
  <2>2. /\ handle_to_node'[g] = handle_to_node[g] /\ handle_to_node[g] \in Node
        /\ handle_to_node[g] # m /\ handle_to_node[g] # p
    <3>1. handle_to_node'[g] = handle_to_node[g] /\ handle_to_node[g] # NULL
      BY <2>1, <1>2 DEF Blocked
    <3>2. handle_to_node[g] \in Node /\ handle_to_node[g] # m
      BY <2>1, <3>1, <1>1, Registered
    <3>3. ~ node'[handle_to_node[g]].in_queue
      BY <3>1 DEF Blocked
    <3> QED BY <3>1, <3>2, <3>3, <1>1
  <2>3. Blocked(g)
    BY <2>1, <2>2, <1>1, <1>2 DEF Blocked, InitQueued
  <2>4. AwaitLinked(g) /\ c \in Node
    BY <2>3 DEF BlockedOK, AwaitsOK, AwaitLinked, Blocked
  (* Had g waited for the coroutine that returned, it would have been woken. *)
  <2>5. c # m
    <3>1. m # NULL /\ cur # 0
      BY <1>1, Registered, PoolAssumption DEF Handle
    <3> QED BY <2>2, <2>4, <3>1, <1>1 DEF AwaitLinked
  <2>6. node'[c].h = node[c].h /\ node'[c].parent = node[c].parent
    BY <2>4, <2>5, <1>1
  <2>7. node[c].h # 0 => tasks'[node[c].h].state \in {"INIT", "RUNNING"}
    BY <2>4, <2>5, <1>4, <1>9 DEF AwaitLinked, Live
  <2> QED BY <2>2, <2>3, <2>4, <2>6, <2>7, <1>1 DEF AwaitLinked, Live
<1> QED BY <1>5, <1>6, <1>7, <1>8, <1>10

LEMMA NextWaitInv == WaitInv /\ [Next]_vars => WaitInv'
<1> SUFFICES ASSUME WaitInv, [Next]_vars PROVE WaitInv'
  OBVIOUS
<1>1. IInv'
  BY NextIInv DEF WaitInv
<1> QED BY <1>1, NextEffects, MovesKeepWaits, CalledKeepsWaits, AwaitKeepsWaits,
           FreeKeepsWaits, ReturnKeepsWaits DEF WaitInv

LEMMA InitWaitInv == Init => WaitInv
<1> SUFFICES ASSUME Init PROVE WaitInv
  OBVIOUS
<1>1. IInv
  BY InitIInv
<1>2. /\ frame = [h \in Handle |-> UserFrame]
      /\ \A h \in Handle : tasks[h].state = IF h = Main THEN "RUNNING" ELSE "FREE"
  BY PoolAssumption DEF Init, Unused
<1>3. UserFrame.at = "user" /\ Shaped(UserFrame)
  BY FrameShapes DEF UserFrame
<1>4. \A h \in Handle : frame[h].at = "user" /\ Shaped(frame[h])
  BY <1>2, <1>3
<1>5. FramesOK /\ InitQueued /\ AwaitsOK
  BY <1>2, <1>4 DEF FramesOK, InitQueued, AwaitsOK
<1>6. ResultsStored
  BY <1>1, <1>2, Registered DEF ResultsStored, IsReady
<1>7. BlockedOK
  <2>1. handle_to_node[Main] # NULL => node[handle_to_node[Main]].in_queue
    <3>1. Running /\ cur = Main
      BY DEF Init, Running
    <3> QED BY <3>1, <1>1, CurrentNode
  <2> QED BY <2>1, <1>2 DEF BlockedOK, Blocked
<1> QED BY <1>1, <1>5, <1>6, <1>7 DEF WaitInv

LEMMA WaitsConsistent == Spec => []WaitInv
<1> QED BY InitWaitInv, NextWaitInv, PTL DEF Spec

(* Nobody waits in vain: a coroutine that is in no queue is inside await, and
   the coroutine it waits for will wake it, unless it was freed under it. *)
THEOREM NobodyForgotten == Spec => []WaitersLinked
<1>1. ASSUME WaitInv PROVE WaitersLinked
  <2> SUFFICES ASSUME NEW h \in Issued, Blocked(h)
               PROVE  /\ frame[h].at = "await"
                      /\ LET child == frame[h].ids[1]
                         IN node[child].h # 0 => /\ node[child].h = frame[h].on[1]
                                                 /\ node[child].parent = handle_to_node[h]
                                                 /\ Live(node[child].h)
    BY DEF WaitersLinked
  <2>1. h \in Handle
    BY <1>1, PoolBounds DEF Issued, WaitInv, IInv, TypeOK, PoolTypeOK
  <2>2. AwaitLinked(h) /\ handle_to_node[h] # NULL
    BY <1>1, <2>1 DEF WaitInv, BlockedOK, Blocked
  <2> QED BY <1>1, <2>1, <2>2 DEF WaitInv, AwaitsOK, AwaitLinked
<1> QED BY <1>1, WaitsConsistent, PTL

(* What await hands back is the result of the coroutine that was awaited, though
   its slot may have been freed, and taken by another, meanwhile. *)
THEOREM AwaitReturnsResult == Spec => AwaitYieldsResult
<1>1. ASSUME WaitInv, [Next]_vars, frame[cur].at = "await", frame'[cur].at = "user"
      PROVE  tasks[frame[cur].on[1]].data = frame[cur].ids[1]
  <2>1. AwaitReturns
    BY <1>1 DEF Next, AsyncCall, AsyncSkip, AsyncReturn, AsyncReturnAborts, MainReturns,
         AwaitReturnAborts, PollAgain, FallsOff, Ended, Await, AwaitAborts, AsyncFree,
         AsyncFreeAborts, AsyncOrphan, AwaitAny, AwaitAll, InUser, Fails, vars
  <2> DEFINE child == frame[cur].ids[1]
  <2>2. node[child].h # 0 /\ IsReady(node[child].h) /\ Running
    BY <2>1 DEF AwaitReturns, IsReady
  <2>3. cur \in Handle /\ handle_to_node[cur] # NULL
    BY <1>1, <2>2, CurrentNode, Registered DEF WaitInv
  <2>4. child \in Node /\ node[child].h = frame[cur].on[1]
    BY <1>1, <2>2, <2>3 DEF WaitInv, AwaitsOK
  <2> QED BY <1>1, <2>2, <2>4 DEF WaitInv, ResultsStored
<1>2. WaitInv /\ [Next]_vars =>
        [frame[cur].at = "await" /\ frame'[cur].at = "user"
           => tasks[frame[cur].on[1]].data = frame[cur].ids[1]]_vars
  BY <1>1
<1> QED BY <1>2, WaitsConsistent, PTL DEF Spec, AwaitYieldsResult

------------------------------------------------------------------------------
(* With the rule freeDone, a coroutine that somebody awaits, and one that awaits,
   is not freed; so the chains of waits end at a coroutine in the queue. *)
AwaitedKept == \A h \in Handle : Blocked(h) => node[frame[h].ids[1]].h # 0

ParentsKept == \A n \in Node : Awaited(n) => node[node[n].parent].h # 0

NoCycle ==
  \A T \in SUBSET Handle :
    T # {} /\ (\A h \in T : Blocked(h)) => \E h \in T : frame[h].on[1] \notin T

ChainInv ==
  /\ WaitInv
  /\ tasks[Main].state = "RUNNING"
  /\ AwaitedKept
  /\ ParentsKept
  /\ NoCycle

LEMMA OldWaitersAcyclic ==
  ASSUME NoCycle, OldWaiters
  PROVE  NoCycle'
BY DEF NoCycle, OldWaiters

LEMMA MovesKeepChains ==
  ASSUME ChainInv, IInv', Moves
  PROVE  ChainInv'
<1>1. WaitInv' /\ OldWaiters /\ NoCycle'
  BY MovesKeepWaits, OldWaitersAcyclic DEF ChainInv
<1>2. Main \in Handle
  BY PoolAssumption DEF Main, Handle
<1>3. /\ \A h \in Handle : \/ tasks'[h].state = tasks[h].state
                           \/ tasks[h].state = "INIT" /\ tasks'[h].state = "RUNNING"
      /\ node' = node
  BY DEF Moves
<1>4. AwaitedKept' /\ tasks'[Main].state = "RUNNING"
  BY <1>1, <1>2, <1>3 DEF ChainInv, AwaitedKept, OldWaiters
<1>5. ParentsKept'
  BY <1>3, Registered DEF ChainInv, WaitInv, ParentsKept, Awaited, Live
<1> QED BY <1>1, <1>4, <1>5 DEF ChainInv

LEMMA CalledKeepsChains ==
  ASSUME ChainInv, IInv', NEW g \in Handle, NEW n \in Node, Called(g, n)
  PROVE  ChainInv'
<1>1. WaitInv' /\ OldWaiters /\ NoCycle'
  BY CalledKeepsWaits, OldWaitersAcyclic DEF ChainInv
<1>2. Main \in Handle
  BY PoolAssumption DEF Main, Handle
<1>3. /\ tasks[g].state = "FREE"
      /\ \A m \in Node : node[m].h # 0 =>
           m # n /\ node[m].parent # n /\ node[m].h \in Handle \ {g}
      /\ \A h \in Handle \ {g} : tasks'[h] = tasks[h]
      /\ \A m \in Node \ {n} : node'[m] = node[m]
      /\ node'[n].parent = NULL
  BY DEF Called
<1>4. tasks'[Main].state = "RUNNING"
  BY <1>2, <1>3 DEF ChainInv
<1>5. AwaitedKept'
  <2> SUFFICES ASSUME NEW h \in Handle, Blocked(h)'
               PROVE  node'[frame'[h].ids[1]].h # 0
    BY DEF AwaitedKept
  <2>1. Blocked(h) /\ frame'[h] = frame[h] /\ node[frame[h].ids[1]].h # 0
    BY <1>1 DEF OldWaiters, ChainInv, AwaitedKept
  <2>2. frame[h].ids[1] \in Node
    BY <2>1 DEF ChainInv, WaitInv, BlockedOK, AwaitLinked, AwaitsOK, Blocked
  <2> QED BY <2>1, <2>2, <1>3
<1>6. ParentsKept'
  <2> SUFFICES ASSUME NEW k \in Node, Awaited(k)'
               PROVE  node'[node'[k].parent].h # 0
    BY DEF ParentsKept
  <2>1. k # n /\ node'[k] = node[k]
    BY <1>3 DEF Awaited
  <2>2. Awaited(k) /\ node[node[k].parent].h # 0
    BY <2>1, <1>3 DEF Awaited, Live, ChainInv, ParentsKept
  <2>3. node[k].parent \in Node \ {n}
    BY <2>2, <1>3 DEF Awaited, ChainInv, WaitInv, IInv, TypeOK, NodeRecord
  <2> QED BY <2>1, <2>2, <2>3, <1>3
<1> QED BY <1>1, <1>4, <1>5, <1>6 DEF ChainInv

LEMMA AwaitKeepsChains ==
  ASSUME ChainInv, IInv', NEW h \in Handle, NEW n \in Node, NEW m \in Node, Awaits(h, n, m)
  PROVE  ChainInv'
<1>1. /\ WaitInv'
      /\ \A g \in Handle : Blocked(g)' => g = cur \/ (Blocked(g) /\ frame'[g] = frame[g])
  BY AwaitKeepsWaits DEF ChainInv
<1>2. Main \in Handle
  BY PoolAssumption DEF Main, Handle
<1>3. /\ cur \in Handle /\ handle_to_node[cur] = m /\ node[m].h = cur
      /\ handle_to_node[h] = n /\ node[n].h = h /\ n # m /\ h # cur
      /\ handle_to_node' = handle_to_node
  BY DEF Awaits
<1>4. \A g \in Handle : \/ tasks'[g].state = tasks[g].state
                        \/ tasks[g].state = "INIT" /\ tasks'[g].state = "RUNNING"
  BY DEF Awaits
<1>5. \A k \in Node : /\ node'[k].h = node[k].h
                      /\ node'[k].parent = IF k = n THEN m ELSE node[k].parent
  BY DEF Awaits
<1>6. node'[n].in_queue
  BY DEF Awaits
<1>7. frame'[cur].on[1] = h /\ frame'[cur].ids[1] = n
  <2>1. frame'[cur] = [at |-> "await", on |-> <<h>>, ids |-> <<n>>]
    BY <1>3 DEF Awaits
  <2> QED BY <2>1
<1>8. tasks'[Main].state = "RUNNING"
  BY <1>2, <1>4 DEF ChainInv
<1>9. h # 0 /\ cur # 0
  BY <1>3, PoolAssumption DEF Handle
<1>10. AwaitedKept'
  <2> SUFFICES ASSUME NEW g \in Handle, Blocked(g)'
               PROVE  node'[frame'[g].ids[1]].h # 0
    BY DEF AwaitedKept
  <2>1. CASE g = cur
    BY <2>1, <1>3, <1>5, <1>7, <1>9
  <2>2. CASE g # cur
    <3>1. Blocked(g) /\ frame'[g] = frame[g] /\ node[frame[g].ids[1]].h # 0
      BY <2>2, <1>1 DEF ChainInv, AwaitedKept
    <3>2. frame[g].ids[1] \in Node
      BY <3>1 DEF ChainInv, WaitInv, BlockedOK, AwaitLinked, AwaitsOK, Blocked
    <3> QED BY <3>1, <3>2, <1>5
  <2> QED BY <2>1, <2>2
<1>11. ParentsKept'
  <2> SUFFICES ASSUME NEW k \in Node, Awaited(k)'
               PROVE  node'[node'[k].parent].h # 0
    BY DEF ParentsKept
  <2>1. CASE k = n
    BY <2>1, <1>3, <1>5, <1>9
  <2>2. CASE k # n
    <3>1. node'[k].h = node[k].h /\ node'[k].parent = node[k].parent
      BY <2>2, <1>5
    <3>2. node[k].h \in Handle
      BY <3>1, Registered DEF Awaited, ChainInv, WaitInv
    <3>3. Awaited(k) /\ node[node[k].parent].h # 0
      BY <3>1, <3>2, <1>4 DEF Awaited, Live, ChainInv, ParentsKept
    <3>4. node[k].parent \in Node
      BY <3>3 DEF Awaited, ChainInv, WaitInv, IInv, TypeOK, NodeRecord
    <3> QED BY <3>1, <3>3, <3>4, <1>5
  <2> QED BY <2>1, <2>2
(* The caller is a new last link: the coroutine it awaits is in the queue. *)
<1>12. NoCycle'
  <2> SUFFICES ASSUME NEW T \in SUBSET Handle, T # {}, \A g \in T : Blocked(g)'
               PROVE  \E g \in T : frame'[g].on[1] \notin T
    BY DEF NoCycle
  <2>1. CASE cur \in T
    <3>1. ~ Blocked(h)'
      BY <1>3, <1>6 DEF Blocked
    <3> QED BY <2>1, <3>1, <1>7
  <2>2. CASE cur \notin T
    BY <2>2, <1>1 DEF ChainInv, NoCycle
  <2> QED BY <2>1, <2>2
<1> QED BY <1>1, <1>8, <1>10, <1>11, <1>12 DEF ChainInv

LEMMA FreeKeepsChains ==
  ASSUME "freeDone" \in Contract,
         ChainInv, IInv', NEW h \in Handle, NEW n \in Node, Frees(h, n)
  PROVE  ChainInv'
<1>1. WaitInv' /\ OldWaiters /\ NoCycle'
  BY FreeKeepsWaits, OldWaitersAcyclic DEF ChainInv
<1>2. Main \in Handle
  BY PoolAssumption DEF Main, Handle
<1>3. /\ handle_to_node[h] = n /\ node[n].h = h /\ tasks[h].state = "READY"
      /\ \A g \in Handle \ {h} : tasks'[g] = tasks[g]
      /\ node'[n].h = 0
      /\ \A k \in Node \ {n} : node'[k].h = node[k].h
      /\ \A k \in Node : node'[k].parent = node[k].parent
  BY DEF Frees, MayFree, Follows
<1>4. tasks'[Main].state = "RUNNING"
  BY <1>2, <1>3 DEF ChainInv
<1>5. AwaitedKept'
  <2> SUFFICES ASSUME NEW g \in Handle, Blocked(g)'
               PROVE  node'[frame'[g].ids[1]].h # 0
    BY DEF AwaitedKept
  <2> DEFINE c == frame[g].ids[1]
  <2>1. Blocked(g) /\ frame'[g] = frame[g] /\ node[c].h # 0
    BY <1>1 DEF OldWaiters, ChainInv, AwaitedKept
  <2>2. c \in Node /\ Live(node[c].h)
    BY <2>1 DEF ChainInv, WaitInv, BlockedOK, AwaitLinked, AwaitsOK, Blocked
  <2>3. c # n
    BY <2>2, <1>3 DEF Live
  <2> QED BY <2>1, <2>2, <2>3, <1>3
<1>6. ParentsKept'
  <2> SUFFICES ASSUME NEW k \in Node, Awaited(k)'
               PROVE  node'[node'[k].parent].h # 0
    BY DEF ParentsKept
  <2>1. k # n /\ node'[k].h = node[k].h
    BY <1>3 DEF Awaited
  <2>2. node[k].h \in Handle \ {h}
    BY <2>1, <1>3, Registered DEF Awaited, ChainInv, WaitInv
  <2>3. Awaited(k) /\ node[node[k].parent].h # 0
    BY <2>1, <2>2, <1>3 DEF Awaited, Live, ChainInv, ParentsKept
  <2>4. IInv
    BY DEF ChainInv, WaitInv
  <2>5. node[k].parent \in Node /\ node[k].parent # n
    BY <2>3, <2>4, <1>3, ParentAwaits
  <2>6. /\ node'[k].parent = node[k].parent
        /\ node'[node[k].parent].h = node[node[k].parent].h
    BY <2>5, <1>3
  <2> QED BY <2>3, <2>6
<1> QED BY <1>1, <1>4, <1>5, <1>6 DEF ChainInv

LEMMA ReturnKeepsChains ==
  ASSUME ChainInv, IInv', NEW m \in Node, NEW p \in Node \cup {NULL}, Returned(m, p)
  PROVE  ChainInv'
<1>1. WaitInv' /\ OldWaiters /\ NoCycle'
  BY ReturnKeepsWaits, OldWaitersAcyclic DEF ChainInv
<1>2. Main \in Handle
  BY PoolAssumption DEF Main, Handle
<1>3. /\ cur \in Handle /\ cur # Main /\ handle_to_node[cur] = m /\ node[m].h = cur
      /\ frame[cur].at = "user" /\ node[m].parent = p
      /\ \A k \in Node \ {m} : node'[k].h = node[k].h
      /\ \A k \in Node :
           /\ node'[k].parent = node[k].parent
           /\ node'[k].in_queue = IF k = m THEN FALSE ELSE node[k].in_queue \/ k = p
  BY DEF Returned
<1>4. \A g \in Handle \ {cur} :
       /\ \/ tasks'[g].state = tasks[g].state
          \/ tasks[g].state = "INIT" /\ tasks'[g].state = "RUNNING"
       /\ handle_to_node'[g] = handle_to_node[g]
  BY DEF Returned
<1>5. tasks'[cur].state \in {"FREE", "READY"} /\ node'[m].h \in {0, cur}
  BY DEF Returned
<1>6. tasks'[Main].state = "RUNNING"
  BY <1>2, <1>3, <1>4 DEF ChainInv
<1>7. AwaitedKept'
  <2> SUFFICES ASSUME NEW g \in Handle, Blocked(g)'
               PROVE  node'[frame'[g].ids[1]].h # 0
    BY DEF AwaitedKept
  <2> DEFINE c == frame[g].ids[1]
  <2>1. Blocked(g) /\ frame'[g] = frame[g] /\ node[c].h # 0
    BY <1>1 DEF OldWaiters, ChainInv, AwaitedKept
  <2>2. c \in Node /\ node[c].parent = handle_to_node[g]
    BY <2>1 DEF ChainInv, WaitInv, BlockedOK, AwaitLinked, AwaitsOK, Blocked
  <2>3. g # cur
    BY <1>5 DEF Blocked
  <2>4. handle_to_node[g] \in Node /\ handle_to_node[g] # m
    BY <2>1, <2>3, <1>3, Registered DEF Blocked, ChainInv, WaitInv
  <2>5. handle_to_node[g] # p
    <3>1. ~ node'[handle_to_node'[g]].in_queue /\ handle_to_node'[g] = handle_to_node[g]
      BY <2>3, <1>4 DEF Blocked
    <3> QED BY <3>1, <2>4, <1>3
  <2>6. c # m
    BY <2>2, <2>5, <1>3
  <2> QED BY <2>1, <2>2, <2>6, <1>3
<1>8. ParentsKept'
  <2> SUFFICES ASSUME NEW k \in Node, Awaited(k)'
               PROVE  node'[node'[k].parent].h # 0
    BY DEF ParentsKept
  <2>1. k # m
    BY <1>5 DEF Awaited, Live
  <2>2. node'[k].h = node[k].h /\ node[k].h \in Handle \ {cur}
    BY <2>1, <1>3, Registered DEF Awaited, ChainInv, WaitInv
  <2>3. Awaited(k) /\ node[node[k].parent].h # 0
    <3>1. node'[k].h # 0 /\ Live(node[k].h)' /\ node'[k].parent # NULL
      BY DEF Awaited, Live
    <3>2. tasks'[node[k].h].state \in {"INIT", "RUNNING"}
      BY <2>2, <3>1 DEF Live
    <3>3. Live(node[k].h)
      BY <2>2, <3>2, <1>4 DEF Live
    <3>4. Awaited(k)
      BY <2>2, <3>1, <3>3, <1>3 DEF Awaited
    <3> QED BY <3>4 DEF ChainInv, ParentsKept
  <2>4. IInv
    BY DEF ChainInv, WaitInv
  <2>5. node[k].parent \in Node /\ node[k].parent # m
    BY <2>3, <2>4, <1>3, ParentAwaits
  <2>6. /\ node'[k].parent = node[k].parent
        /\ node'[node[k].parent].h = node[node[k].parent].h
    BY <2>5, <1>3
  <2> QED BY <2>3, <2>6
<1> QED BY <1>1, <1>6, <1>7, <1>8 DEF ChainInv

LEMMA NextChainInv ==
  ASSUME "freeDone" \in Contract, ChainInv, [Next]_vars
  PROVE  ChainInv'
<1>1. WaitInv /\ IInv
  BY DEF ChainInv, WaitInv
<1>2. IInv'
  BY <1>1, NextIInv
<1> QED BY <1>1, <1>2, NextEffects, MovesKeepChains, CalledKeepsChains, AwaitKeepsChains,
           FreeKeepsChains, ReturnKeepsChains

LEMMA NobodyWaitsAtFirst == Init => \A h \in Handle : ~ Blocked(h)
<1> SUFFICES ASSUME Init PROVE \A h \in Handle : ~ Blocked(h)
  OBVIOUS
<1>1. \A h \in Handle : h # Main => tasks[h].state = "FREE"
  BY DEF Init, Unused
<1>2. handle_to_node[Main] # NULL => node[handle_to_node[Main]].in_queue
  <2>1. Running /\ cur = Main
    BY DEF Init, Running
  <2> QED BY <2>1, InitIInv, CurrentNode
<1> QED BY <1>1, <1>2 DEF Blocked

LEMMA InitChainInv == Init => ChainInv
<1> SUFFICES ASSUME Init PROVE ChainInv
  OBVIOUS
<1>1. WaitInv
  BY InitWaitInv
<1>2. \A h \in Handle : ~ Blocked(h)
  BY NobodyWaitsAtFirst
<1>3. tasks[Main].state = "RUNNING"
  BY PoolAssumption DEF Init, Main, Handle
<1>4. ParentsKept
  BY DEF Init, ParentsKept, Awaited
<1> QED BY <1>1, <1>2, <1>3, <1>4 DEF ChainInv, AwaitedKept, NoCycle

LEMMA Chains ==
  ASSUME "freeDone" \in Contract
  PROVE  Spec => []ChainInv
<1>1. ChainInv /\ [Next]_vars => ChainInv'
  BY NextChainInv
<1> QED BY <1>1, InitChainInv, PTL DEF Spec

(* When a coroutine returns, graph_finish_task finds another one to run, provided
   only finished coroutines are freed: main waits for somebody, who waits for
   somebody, and the last one is the coroutine that returns. *)
THEOREM SomebodyRuns ==
  ASSUME "freeDone" \in Contract
  PROVE  Spec => []SuccessorExists
<1>1. ASSUME ChainInv, InUser, cur # Main, AfterFinish = <<>> PROVE FALSE
  <2>0. IInv /\ WaitInv /\ Running
    BY <1>1 DEF ChainInv, WaitInv, InUser
  <2>1. /\ queue \in Seq(Node) /\ queue # <<>> /\ IsInjective(queue)
        /\ Me \in Node /\ node[Me].h = cur
    BY <2>0, CurrentNode
  <2>2. Tail(queue) = <<>> /\ ~ Wakes
    <3>1. Tail(queue) \in Seq(Node)
      BY <2>1, TailDistinct
    <3>2. Wakes => Parent \in Node
      BY <2>0, <2>1 DEF Wakes, Parent, IInv, TypeOK, NodeRecord
    <3>3. Wakes => <<Parent>> \o Tail(queue) # <<>>
      BY <3>1, <3>2
    <3> QED BY <3>3, <1>1 DEF AfterFinish
  <2>3. Range(queue) \subseteq {Me}
    <3>1. Range(Tail(queue)) = Range(queue) \ {Head(queue)}
      BY <2>1, TailDistinct
    <3>2. Range(<<>>) = {}
      BY DEF Range
    <3> QED BY <3>1, <3>2, <2>2 DEF Me
  <2>4. \A n \in Node : node[n].in_queue => n = Me
    BY <2>0, <2>3 DEF IInv, QueueOK
  (* Everybody else who has not returned waits. *)
  <2>5. ASSUME NEW h \in Handle, Live(h), h # cur PROVE Blocked(h)
    <3>1. handle_to_node[h] \in Node /\ node[handle_to_node[h]].h = h /\ handle_to_node[h] # NULL
      BY <2>5, <2>0, Registered DEF Live
    <3>2. ~ node[handle_to_node[h]].in_queue
      BY <3>1, <2>1, <2>4, <2>5
    <3> QED BY <3>1, <3>2, <2>0, <2>5 DEF Blocked, Live, WaitInv, InitQueued
  <2> DEFINE T == {h \in Handle : Blocked(h)}
  <2>6. T # {}
    <3>1. Main \in Handle /\ Live(Main)
      BY <1>1, PoolAssumption DEF ChainInv, Live, Main, Handle
    <3> QED BY <3>1, <2>5, <1>1
  <2>7. PICK h \in T : frame[h].on[1] \notin T
    BY <2>6, <1>1 DEF ChainInv, NoCycle
  <2> DEFINE c == frame[h].ids[1]
  <2>8. /\ c \in Node /\ node[c].h = frame[h].on[1] /\ node[c].h # 0
        /\ node[c].parent = handle_to_node[h] /\ Live(node[c].h)
    BY <2>0, <2>7, <1>1 DEF ChainInv, AwaitedKept, WaitInv, BlockedOK, AwaitLinked, AwaitsOK, Blocked
  <2>9. node[c].h \in Handle /\ handle_to_node[node[c].h] = c
    BY <2>0, <2>8, Registered
  <2>10. node[c].h = cur
    BY <2>5, <2>7, <2>8, <2>9
  <2>11. c = Me
    BY <2>0, <2>1, <2>9, <2>10, CurrentNode
  <2>12. Parent # NULL /\ ~ node[Parent].in_queue
    BY <2>7, <2>8, <2>11 DEF Parent, Blocked
  <2> QED BY <2>2, <2>12 DEF Wakes
<1>2. ChainInv => SuccessorExists
  BY <1>1 DEF SuccessorExists
<1> QED BY <1>2, Chains, PTL

------------------------------------------------------------------------------
(* With inherited, freeDone and orphanLive, the handles somebody waits for name
   the coroutines they named when the wait began. *)
ResultRules == {"inherited", "freeDone", "orphanLive"}

Kept(f) ==
  \A i \in DOMAIN f.on :
    /\ f.ids[i] # NULL /\ handle_to_node[f.on[i]] = f.ids[i]
    /\ ~ tasks[f.on[i]].orphaned

ResultInv ==
  /\ WaitInv
  /\ \A w \in Handle : tasks[w].state = "RUNNING" => Kept(frame[w])

LEMMA FrameHandles ==
  ASSUME IInv, NEW w \in Handle
  PROVE  \A i \in DOMAIN frame[w].on : frame[w].on[i] \in Handle
<1>1. frame[w] \in Frame
  BY DEF IInv, TypeOK
<1>2. PICK n \in 0 .. MaxPoll : frame[w].on \in [1 .. n -> Handle]
  BY <1>1 DEF Frame
<1> QED BY <1>2

(* A coroutine that starts is in no call, and the others are issued handles. *)
LEMMA Waiter ==
  ASSUME WaitInv, NEW w \in Handle
  PROVE  /\ tasks[w].state = "INIT" => frame[w] = UserFrame
         /\ tasks[w].state # "FREE" => w \in Issued
         /\ Kept(UserFrame)
         /\ Running => tasks[cur].state = "RUNNING"
<1>1. tasks[w].state = "INIT" => frame[w] = UserFrame
  BY DEF WaitInv, FramesOK, Shaped
<1>2. tasks[w].state # "FREE" => w \in Issued
  BY PoolBounds DEF Issued, WaitInv, IInv, TypeOK, PoolTypeOK, Unused
<1>3. Kept(UserFrame)
  BY DEF Kept, UserFrame
<1> QED BY <1>1, <1>2, <1>3, CurrentNode DEF WaitInv

LEMMA MovesKeepResults ==
  ASSUME ResultRules \subseteq Contract, ResultInv, WaitInv', Moves
  PROVE  ResultInv'
<1>1. IInv /\ WaitInv
  BY DEF ResultInv, WaitInv
<1> SUFFICES ASSUME NEW w \in Handle, tasks'[w].state = "RUNNING"
             PROVE  Kept(frame[w])'
  BY DEF ResultInv
<1>2. node' = node /\ handle_to_node' = handle_to_node
  BY DEF Moves
<1>3. CASE frame'[w] = frame[w]
  <2>1. Kept(frame[w])
    BY <1>1, Waiter DEF ResultInv, Moves
  <2> SUFFICES ASSUME NEW i \in DOMAIN frame[w].on
               PROVE  ~ tasks'[frame[w].on[i]].orphaned
    BY <2>1, <1>2, <1>3 DEF Kept
  <2> DEFINE h == frame[w].on[i]
  <2>2. h \in Handle /\ ~ tasks[h].orphaned
    BY <1>1, <2>1, FrameHandles DEF Kept
  <2>3. ASSUME MayOrphan(h) PROVE FALSE
    <3>1. ~ Polled(h)
      BY <2>3 DEF MayOrphan, Follows, ResultRules
    <3>2. tasks[w].state # "RUNNING"
      BY <3>1, <1>1, Waiter DEF Polled
    <3>3. frame[w] = UserFrame
      BY <3>2, <1>1, Waiter DEF Moves
    <3> QED BY <3>3 DEF UserFrame
  <2> QED BY <2>2, <2>3 DEF Moves
<1>4. CASE frame'[w] # frame[w]
  <2>1. Wanted(frame'[w])
    BY <1>4 DEF Moves
  <2>2. CASE frame'[w] = UserFrame
    BY <2>2 DEF Kept, UserFrame
  <2>3. CASE \E at \in {"any", "all"}, hs \in HandleLists :
               MayPoll(hs) /\ frame'[w] = PollFrame(at, hs)
    <3>1. PICK at \in {"any", "all"}, hs \in HandleLists :
                 MayPoll(hs) /\ frame'[w] = PollFrame(at, hs)
      BY <2>3
    <3>2. /\ frame'[w].on = hs /\ DOMAIN frame'[w].on = DOMAIN hs
          /\ \A i \in DOMAIN hs : frame'[w].ids[i] = handle_to_node[hs[i]]
      BY <3>1 DEF PollFrame
    <3>3. \A i \in DOMAIN hs : hs[i] \in Handle
      BY DEF HandleLists
    <3>4. \A i \in DOMAIN hs : tasks[hs[i]].state # "FREE" /\ ~ tasks[hs[i]].orphaned
      BY <3>1 DEF MayPoll, MayWait, Follows, ResultRules
    <3>5. \A i \in DOMAIN hs : handle_to_node[hs[i]] # NULL /\ ~ tasks'[hs[i]].orphaned
      BY <1>1, <1>4, <3>3, <3>4, Registered DEF Moves
    <3> QED BY <3>2, <3>5, <1>2 DEF Kept
  <2> QED BY <2>1, <2>2, <2>3 DEF Wanted
<1> QED BY <1>3, <1>4

LEMMA CalledKeepsResults ==
  ASSUME ResultInv, WaitInv', NEW g \in Handle, NEW n \in Node, Called(g, n)
  PROVE  ResultInv'
<1>1. IInv /\ WaitInv
  BY DEF ResultInv, WaitInv
<1> SUFFICES ASSUME NEW w \in Handle, tasks'[w].state = "RUNNING"
             PROVE  Kept(frame[w])'
  BY DEF ResultInv
<1>2. /\ handle_to_node[g] = NULL /\ tasks'[g].state = "INIT"
      /\ \A h \in Handle \ {g} : tasks'[h] = tasks[h]
      /\ \A h \in Handle : handle_to_node'[h] = IF h = g THEN n ELSE handle_to_node[h]
      /\ \A h \in Handle : frame'[h] = IF h = g THEN UserFrame ELSE frame[h]
  BY DEF Called
<1>3. w # g /\ frame'[w] = frame[w] /\ Kept(frame[w])
  BY <1>2 DEF ResultInv
<1> SUFFICES ASSUME NEW i \in DOMAIN frame[w].on
             PROVE  LET h == frame[w].on[i]
                    IN /\ frame[w].ids[i] # NULL /\ handle_to_node'[h] = frame[w].ids[i]
                       /\ ~ tasks'[h].orphaned
  BY <1>3 DEF Kept
<1>4. frame[w].on[i] \in Handle \ {g}
  BY <1>1, <1>2, <1>3, FrameHandles DEF Kept
<1> QED BY <1>2, <1>3, <1>4 DEF Kept

LEMMA AwaitKeepsResults ==
  ASSUME ResultRules \subseteq Contract, ResultInv, WaitInv',
         NEW h \in Handle, NEW n \in Node, NEW m \in Node, Awaits(h, n, m)
  PROVE  ResultInv'
<1>1. IInv /\ WaitInv /\ n # NULL
  BY Registered DEF ResultInv, WaitInv
<1> SUFFICES ASSUME NEW w \in Handle, tasks'[w].state = "RUNNING"
             PROVE  Kept(frame[w])'
  BY DEF ResultInv
<1>2. /\ handle_to_node' = handle_to_node /\ handle_to_node[h] = n
      /\ \A g \in Handle : tasks'[g].orphaned = tasks[g].orphaned
  BY DEF Awaits
<1>3. CASE w = cur
  <2>1. frame'[w] = [at |-> "await", on |-> <<h>>, ids |-> <<n>>]
    BY <1>3 DEF Awaits
  <2>2. ~ tasks[h].orphaned
    BY DEF Awaits, MayAwait, MayWait, Follows, ResultRules
  <2> QED BY <2>1, <2>2, <1>1, <1>2 DEF Kept
<1>4. CASE w # cur
  <2>1. frame'[w] = frame[w]
    BY <1>4 DEF Awaits
  <2>2. Kept(frame[w])
    BY <1>1, Waiter DEF ResultInv, Awaits
  <2>3. \A i \in DOMAIN frame[w].on : frame[w].on[i] \in Handle
    BY <1>1, FrameHandles
  <2> QED BY <2>1, <2>2, <2>3, <1>2 DEF Kept
<1> QED BY <1>3, <1>4

LEMMA FreeKeepsResults ==
  ASSUME ResultRules \subseteq Contract, ResultInv, WaitInv',
         NEW h \in Handle, NEW n \in Node, Frees(h, n)
  PROVE  ResultInv'
<1>1. IInv /\ WaitInv
  BY DEF ResultInv, WaitInv
<1> SUFFICES ASSUME NEW w \in Handle, tasks'[w].state = "RUNNING"
             PROVE  Kept(frame[w])'
  BY DEF ResultInv
<1>2. /\ tasks'[h].state = "FREE" /\ frame' = frame
      /\ \A g \in Handle \ {h} : tasks'[g] = tasks[g]
      /\ \A g \in Handle : handle_to_node'[g] = IF g = h THEN NULL ELSE handle_to_node[g]
      /\ ~ Polled(h)
  BY DEF Frees, MayFree, Follows, ResultRules
<1>3. tasks[w].state = "RUNNING" /\ Kept(frame[w]) /\ w \in Issued
  BY <1>1, <1>2, Waiter DEF ResultInv
<1>4. \A i \in DOMAIN frame[w].on : frame[w].on[i] \in Handle \ {h}
  BY <1>1, <1>2, <1>3, FrameHandles DEF Polled
<1> QED BY <1>2, <1>3, <1>4 DEF Kept

LEMMA ReturnKeepsResults ==
  ASSUME ResultInv, WaitInv', NEW m \in Node, NEW p \in Node \cup {NULL}, Returned(m, p)
  PROVE  ResultInv'
<1>1. IInv /\ WaitInv
  BY DEF ResultInv, WaitInv
<1> SUFFICES ASSUME NEW w \in Handle, tasks'[w].state = "RUNNING"
             PROVE  Kept(frame[w])'
  BY DEF ResultInv
<1>2. /\ frame' = frame /\ handle_to_node[cur] = m
      /\ \A g \in Handle \ {cur} : /\ tasks'[g].orphaned = tasks[g].orphaned
                                   /\ handle_to_node'[g] = handle_to_node[g]
      /\ tasks'[cur].state \in {"FREE", "READY"}
      /\ ~ tasks[cur].orphaned => handle_to_node'[cur] = m /\ ~ tasks'[cur].orphaned
  BY DEF Returned
<1>3. Kept(frame[w])
  BY <1>1, <1>2, Waiter DEF ResultInv, Returned
<1>4. \A i \in DOMAIN frame[w].on : frame[w].on[i] \in Handle
  BY <1>1, FrameHandles
<1> QED BY <1>2, <1>3, <1>4 DEF Kept

LEMMA NextResultInv ==
  ASSUME ResultRules \subseteq Contract, ResultInv, [Next]_vars
  PROVE  ResultInv'
<1>1. WaitInv /\ IInv
  BY DEF ResultInv, WaitInv
<1>2. WaitInv'
  BY <1>1, NextWaitInv
<1> QED BY <1>1, <1>2, NextEffects, MovesKeepResults, CalledKeepsResults, AwaitKeepsResults,
           FreeKeepsResults, ReturnKeepsResults

LEMMA Results ==
  ASSUME ResultRules \subseteq Contract
  PROVE  Spec => []ResultInv
<1>1. ASSUME Init PROVE ResultInv
  <2>1. WaitInv
    BY <1>1, InitWaitInv
  <2>2. \A w \in Handle : frame[w] = UserFrame
    BY <1>1 DEF Init
  <2> QED BY <2>1, <2>2 DEF ResultInv, Kept, UserFrame
<1>2. ResultInv /\ [Next]_vars => ResultInv'
  BY NextResultInv
<1> QED BY <1>1, <1>2, PTL DEF Spec

(* A coroutine inside a call is the one that runs, or waits for its turn. *)
LEMMA EndedNoStep ==
  ASSUME [Next]_vars, ~ Running
  PROVE  UNCHANGED vars
BY DEF Next, AsyncCall, AsyncSkip, AsyncReturn, AsyncReturnAborts, MainReturns,
     AwaitReturns, AwaitReturnAborts, PollAgain, FallsOff, Ended, Await, AwaitAborts,
     AsyncFree, AsyncFreeAborts, AsyncOrphan, AwaitAny, AwaitAll, InUser

(* await_any and await_all read the results of the coroutines whose handles they
   were called with, though they skipped many times before. *)
THEOREM PollReturnsResults ==
  ASSUME ResultRules \subseteq Contract
  PROVE  Spec => PollYieldsResults
<1>1. ASSUME ResultInv, [Next]_vars, frame[cur].at \in {"any", "all"},
             frame'[cur].at = "user",
             NEW i \in DOMAIN frame[cur].on, IsReady(frame[cur].on[i])
      PROVE  tasks[frame[cur].on[i]].data = frame[cur].ids[i]
  <2>1. Running
    BY <1>1, EndedNoStep DEF vars
  <2>2. IInv /\ cur \in Handle /\ tasks[cur].state = "RUNNING"
    BY <1>1, <2>1, CurrentNode DEF ResultInv, WaitInv
  <2>3. Kept(frame[cur]) /\ frame[cur].on[i] \in Handle
    BY <1>1, <2>2, FrameHandles DEF ResultInv
  <2>4. /\ frame[cur].ids[i] \in Node
        /\ node[frame[cur].ids[i]].h = frame[cur].on[i] /\ frame[cur].on[i] # 0
    BY <2>2, <2>3, Registered, PoolAssumption DEF Kept, Handle
  <2> QED BY <1>1, <2>4 DEF ResultInv, WaitInv, ResultsStored
<1>2. ResultInv /\ [Next]_vars =>
        [frame[cur].at \in {"any", "all"} /\ frame'[cur].at = "user"
           => \A i \in DOMAIN frame[cur].on :
                IsReady(frame[cur].on[i]) =>
                  tasks[frame[cur].on[i]].data = frame[cur].ids[i]]_vars
  BY <1>1
<1> QED BY <1>2, Results, PTL DEF Spec, PollYieldsResults

------------------------------------------------------------------------------
(* With every rule but disowned and children, which the others make unnecessary,
   no assertion fails: an await that goes on finds its coroutine finished. *)
SafeRules == Clause \ {"disowned", "children"}

WokenReady ==
  \A w \in Handle :
    /\ tasks[w].state = "RUNNING" /\ frame[w].at = "await"
    /\ node[handle_to_node[w]].in_queue
    => IsReady(frame[w].on[1])

SafeInv ==
  /\ ChainInv
  /\ ResultInv
  /\ WokenReady
  /\ NoAbort

(* What a coroutine inside await waits for. *)
LEMMA AwaitedSlot ==
  ASSUME SafeInv, NEW w \in Handle, tasks[w].state = "RUNNING", frame[w].at = "await"
  PROVE  LET g == frame[w].on[1]
             c == frame[w].ids[1]
         IN /\ g \in Handle /\ c \in Node /\ handle_to_node[g] = c
            /\ node[c].h = g /\ g # 0 /\ ~ tasks[g].orphaned
            /\ w \in Issued /\ \E i \in DOMAIN frame[w].on : frame[w].on[i] = g
<1>1. IInv /\ WaitInv
  BY DEF SafeInv, ChainInv, WaitInv
<1>2. 1 \in DOMAIN frame[w].on
  BY <1>1 DEF WaitInv, FramesOK, Shaped
<1>3. frame[w].on[1] \in Handle
  BY <1>1, <1>2, FrameHandles
<1>4. /\ frame[w].ids[1] # NULL /\ handle_to_node[frame[w].on[1]] = frame[w].ids[1]
      /\ ~ tasks[frame[w].on[1]].orphaned
  BY <1>2 DEF SafeInv, ResultInv, Kept
<1>5. w \in Issued
  BY <1>1, Waiter
<1> QED BY <1>1, <1>2, <1>3, <1>4, <1>5, Registered, PoolAssumption DEF Handle

LEMMA MovesKeepWoken ==
  ASSUME SafeInv, Moves
  PROVE  WokenReady'
<1>1. WaitInv
  BY DEF SafeInv, ChainInv
<1> SUFFICES ASSUME NEW w \in Handle, tasks'[w].state = "RUNNING", frame'[w].at = "await",
                    node'[handle_to_node'[w]].in_queue
             PROVE  tasks'[frame'[w].on[1]].state = "READY"
  BY DEF WokenReady, IsReady
<1>2. frame'[w] = frame[w]
  BY WantedShape DEF Moves
<1>3. tasks[w].state = "RUNNING"
  BY <1>1, <1>2, Waiter DEF Moves, UserFrame
<1>4. frame[w].on[1] \in Handle
  BY <1>2, <1>3, AwaitedSlot
<1>5. tasks[frame[w].on[1]].state = "READY"
  BY <1>2, <1>3 DEF SafeInv, WokenReady, IsReady, Moves
<1> QED BY <1>2, <1>4, <1>5 DEF Moves

LEMMA CalledKeepsWoken ==
  ASSUME SafeInv, NEW g \in Handle, NEW n \in Node, Called(g, n)
  PROVE  WokenReady'
<1>1. WaitInv /\ IInv
  BY DEF SafeInv, ChainInv, WaitInv
<1> SUFFICES ASSUME NEW w \in Handle, tasks'[w].state = "RUNNING", frame'[w].at = "await",
                    node'[handle_to_node'[w]].in_queue
             PROVE  tasks'[frame'[w].on[1]].state = "READY"
  BY DEF WokenReady, IsReady
<1>2. /\ w # g /\ tasks[w].state = "RUNNING" /\ frame'[w] = frame[w]
      /\ handle_to_node'[w] = handle_to_node[w]
  BY DEF Called
<1>3. frame[w].on[1] \in Handle \ {g}
  BY <1>2, AwaitedSlot, Registered DEF Called
<1>4. node[handle_to_node[w]].in_queue
  <2>1. handle_to_node[w] \in Node \ {n}
    BY <1>1, <1>2, Registered DEF Called
  <2> QED BY <2>1, <1>2 DEF Called
<1>5. tasks[frame[w].on[1]].state = "READY"
  BY <1>2, <1>4 DEF SafeInv, WokenReady, IsReady
<1> QED BY <1>2, <1>3, <1>5 DEF Called

LEMMA AwaitKeepsWoken ==
  ASSUME SafeRules \subseteq Contract, SafeInv,
         NEW h \in Handle, NEW n \in Node, NEW m \in Node, Awaits(h, n, m)
  PROVE  WokenReady'
<1>1. WaitInv /\ IInv
  BY DEF SafeInv, ChainInv, WaitInv
<1> SUFFICES ASSUME NEW w \in Handle, tasks'[w].state = "RUNNING", frame'[w].at = "await",
                    node'[handle_to_node'[w]].in_queue
             PROVE  tasks'[frame'[w].on[1]].state = "READY"
  BY DEF WokenReady, IsReady
<1>2. /\ handle_to_node' = handle_to_node /\ handle_to_node[cur] = m /\ node[m].h = cur
      /\ handle_to_node[h] = n /\ node[n].h = h /\ n # m
  BY DEF Awaits
<1>3. \A k \in Node : node'[k].in_queue = IF k = n THEN TRUE
                                          ELSE IF k = m THEN FALSE ELSE node[k].in_queue
  BY DEF Awaits
<1>4. \A g \in Handle : \/ tasks'[g].state = tasks[g].state
                        \/ tasks[g].state = "INIT" /\ tasks'[g].state = "RUNNING"
  BY DEF Awaits
<1>5. w # cur
  BY <1>2, <1>3
<1>6. frame'[w] = frame[w]
  BY <1>5 DEF Awaits
<1>7. tasks[w].state = "RUNNING"
  BY <1>1, <1>4, <1>6, Waiter DEF UserFrame
(* Nobody awaits a coroutine that is inside await itself. *)
<1>8. w # h
  BY <1>6 DEF Awaits, MayAwait, Follows, SafeRules, Clause
<1>9. node[handle_to_node[w]].in_queue
  <2>1. handle_to_node[w] \in Node /\ node[handle_to_node[w]].h = w
    BY <1>1, <1>7, Registered
  <2>2. handle_to_node[w] # n /\ handle_to_node[w] # m
    BY <2>1, <1>2, <1>5, <1>8
  <2> QED BY <2>1, <2>2, <1>2, <1>3
<1>10. tasks[frame[w].on[1]].state = "READY" /\ frame[w].on[1] \in Handle
  BY <1>6, <1>7, <1>9, AwaitedSlot DEF SafeInv, WokenReady, IsReady
<1> QED BY <1>4, <1>6, <1>10

LEMMA FreeKeepsWoken ==
  ASSUME SafeRules \subseteq Contract, SafeInv, NEW h \in Handle, NEW n \in Node, Frees(h, n)
  PROVE  WokenReady'
<1>1. WaitInv /\ IInv
  BY DEF SafeInv, ChainInv, WaitInv
<1> SUFFICES ASSUME NEW w \in Handle, tasks'[w].state = "RUNNING", frame'[w].at = "await",
                    node'[handle_to_node'[w]].in_queue
             PROVE  tasks'[frame'[w].on[1]].state = "READY"
  BY DEF WokenReady, IsReady
<1>2. /\ w # h /\ tasks[w].state = "RUNNING" /\ frame'[w] = frame[w]
      /\ handle_to_node'[w] = handle_to_node[w]
  BY DEF Frees
<1>3. ~ Polled(h)
  BY DEF Frees, MayFree, Follows, SafeRules, Clause
<1>4. frame[w].on[1] \in Handle \ {h}
  BY <1>2, <1>3, AwaitedSlot DEF Polled
<1>5. node[handle_to_node[w]].in_queue
  <2>1. handle_to_node[w] \in Node
    BY <1>1, <1>2, Registered
  <2> QED BY <2>1, <1>2 DEF Frees
<1>6. tasks[frame[w].on[1]].state = "READY"
  BY <1>2, <1>5 DEF SafeInv, WokenReady, IsReady
<1> QED BY <1>2, <1>4, <1>6 DEF Frees

LEMMA ReturnKeepsWoken ==
  ASSUME SafeInv, NEW m \in Node, NEW p \in Node \cup {NULL}, Returned(m, p)
  PROVE  WokenReady'
<1>1. WaitInv /\ IInv
  BY DEF SafeInv, ChainInv, WaitInv
<1> SUFFICES ASSUME NEW w \in Handle, tasks'[w].state = "RUNNING", frame'[w].at = "await",
                    node'[handle_to_node'[w]].in_queue
             PROVE  tasks'[frame'[w].on[1]].state = "READY"
  BY DEF WokenReady, IsReady
<1>2. /\ frame' = frame /\ handle_to_node[cur] = m /\ node[m].h = cur /\ cur \in Handle
      /\ tasks[cur].state = "RUNNING" /\ node[m].parent = p
      /\ tasks'[cur].state = IF tasks[cur].orphaned THEN "FREE" ELSE "READY"
  BY DEF Returned
<1>3. \A g \in Handle \ {cur} :
       /\ \/ tasks'[g].state = tasks[g].state
          \/ tasks[g].state = "INIT" /\ tasks'[g].state = "RUNNING"
       /\ handle_to_node'[g] = handle_to_node[g]
  BY DEF Returned
<1>4. w # cur /\ handle_to_node'[w] = handle_to_node[w]
  BY <1>2, <1>3
<1>5. tasks[w].state = "RUNNING" /\ frame[w].at = "await"
  BY <1>1, <1>2, <1>3, <1>4, Waiter DEF UserFrame
<1> DEFINE g == frame[w].on[1]
<1>6. /\ g \in Handle /\ ~ tasks[g].orphaned /\ handle_to_node[g] = frame[w].ids[1]
      /\ node[frame[w].ids[1]].h = g
  BY <1>5, AwaitedSlot
<1>7. handle_to_node[w] \in Node /\ handle_to_node[w] # m /\ node[handle_to_node[w]].h = w
  BY <1>1, <1>2, <1>4, <1>5, Registered
<1>8. CASE node[handle_to_node[w]].in_queue
  <2>1. tasks[g].state = "READY"
    BY <1>5, <1>8 DEF SafeInv, WokenReady, IsReady
  <2>2. g # cur
    BY <2>1, <1>2
  <2> QED BY <2>1, <2>2, <1>2, <1>3, <1>6
<1>9. CASE ~ node[handle_to_node[w]].in_queue
  <2>1. handle_to_node[w] = p
    <3>1. node'[handle_to_node[w]].in_queue = (node[handle_to_node[w]].in_queue \/ handle_to_node[w] = p)
      BY <1>7 DEF Returned
    <3> QED BY <3>1, <1>4, <1>9
  <2>2. Awaited(m) /\ node[p].h = w /\ w # 0
    BY <2>1, <1>1, <1>2, <1>7, Registered, PoolAssumption DEF Awaited, Live, Handle
  <2>3. frame[w].ids[1] = m
    BY <2>2, <1>1, <1>2 DEF IInv, ParentsWait
  <2>4. g = cur
    BY <2>3, <1>2, <1>6
  <2> QED BY <2>4, <1>2, <1>6
<1> QED BY <1>8, <1>9

(* No assertion of the library fails. *)
LEMMA NextNoAbort ==
  ASSUME SafeRules \subseteq Contract, SafeInv, [Next]_vars
  PROVE  NoAbort'
<1>1. WaitInv /\ IInv /\ NoAbort
  BY DEF SafeInv, ChainInv, WaitInv
<1>2. Issued \subseteq Handle
  BY <1>1, PoolBounds DEF Issued, IInv, TypeOK, PoolTypeOK
<1>3. ASSUME AsyncReturnAborts PROVE FALSE
  <2>1. InUser /\ Running /\ AfterFinish # <<>> /\ node[Head(AfterFinish)].h = 0
    BY <1>3 DEF AsyncReturnAborts, InUser, Front
  <2> DEFINE q == AfterFinish
  <2>2. /\ q \in Seq(Node)
        /\ Range(q) = (Range(queue) \ {Me}) \cup (IF Wakes THEN {Parent} ELSE {})
    BY <1>1, <2>1, AfterFinishFacts
  <2>3. q # <<>>
    BY <2>1
  <2> HIDE DEF q
  <2>4. Head(q) \in Range(q)
    BY <2>2, <2>3, NonEmpty
  <2>5. CASE Head(q) \in Range(queue)
    BY <2>1, <2>5, <1>1 DEF IInv, QueueOK, q
  <2>6. CASE Wakes /\ Head(q) = Parent
    <3>1. Me \in Node /\ node[Me].h = cur /\ tasks[cur].state = "RUNNING" /\ cur # 0
      BY <1>1, <2>1, CurrentNode, PoolAssumption DEF Handle
    <3>2. Awaited(Me) /\ node[Me].parent = Parent
      BY <2>6, <3>1 DEF Awaited, Wakes, Parent, Live
    <3> QED BY <2>1, <2>6, <3>1, <3>2 DEF SafeInv, ChainInv, ParentsKept, q
  <2> QED BY <2>2, <2>4, <2>5, <2>6
<1>4. ASSUME NEW h \in Issued, AwaitAborts(h) PROVE FALSE
  <2>1. MayAwait(h) /\ h \in Handle
    BY <1>2, <1>4 DEF AwaitAborts
  <2>2. /\ Live(h) /\ h # cur
        /\ handle_to_node[h] # NULL => node[handle_to_node[h]].parent = NULL
    BY <2>1 DEF MayAwait, Follows, SafeRules, Clause
  <2>3. handle_to_node[h] # NULL
    BY <1>1, <2>1, <2>2, Registered DEF Live
  <2> QED BY <1>4, <2>2, <2>3 DEF AwaitAborts, Live
<1>5. ASSUME AwaitReturnAborts PROVE FALSE
  <2>1. Running /\ frame[cur].at = "await"
    BY <1>5 DEF AwaitReturnAborts
  <2>2. /\ cur \in Handle /\ tasks[cur].state = "RUNNING"
        /\ node[handle_to_node[cur]].in_queue
    BY <1>1, <2>1, CurrentNode
  <2>3. tasks[frame[cur].on[1]].state = "READY"
    BY <2>1, <2>2 DEF SafeInv, WokenReady, IsReady
  <2>4. node[frame[cur].ids[1]].h = frame[cur].on[1] /\ frame[cur].on[1] # 0
    BY <2>1, <2>2, AwaitedSlot
  <2> QED BY <1>5, <2>3, <2>4 DEF AwaitReturnAborts
<1>6. ASSUME NEW h \in Issued, AsyncFreeAborts(h) PROVE FALSE
  <2>1. tasks[h].state = "READY" /\ h \in Handle
    BY <1>2, <1>6 DEF AsyncFreeAborts, MayFree, Follows, SafeRules, Clause
  <2>2. handle_to_node[h] \in Node /\ node[handle_to_node[h]].h = h /\ handle_to_node[h] # NULL
    BY <1>1, <2>1, Registered
  <2>3. ~ node[handle_to_node[h]].in_queue
    BY <1>1, <2>1, <2>2 DEF IInv, QueueOK, Live
  <2> QED BY <1>6, <2>2, <2>3 DEF AsyncFreeAborts
<1>7. ~ FallsOff
  BY DEF FallsOff, SafeRules, Clause
<1>8. CASE MainReturns
  BY <1>8 DEF MainReturns, NoAbort, Abort
<1>9. ASSUME process' = process PROVE NoAbort'
  BY <1>9, <1>1 DEF NoAbort
<1>10. CASE \/ AsyncCall \/ AsyncSkip \/ AsyncReturn \/ AwaitReturns \/ PollAgain
            \/ Ended \/ UNCHANGED vars
  BY <1>9, <1>10 DEF AsyncCall, AsyncSkip, AsyncReturn, AwaitReturns, PollAgain, PollOnce,
       Skip, Ended, vars
<1>11. ASSUME NEW h \in Issued, Await(h) \/ AsyncFree(h) \/ AsyncOrphan(h) PROVE NoAbort'
  BY <1>9, <1>11 DEF Await, AsyncFree, AsyncOrphan
<1>12. ASSUME NEW hs \in HandleLists, AwaitAny(hs) \/ AwaitAll(hs) PROVE NoAbort'
  BY <1>9, <1>12 DEF AwaitAny, AwaitAll, PollOnce, Skip
<1> QED BY <1>3, <1>4, <1>5, <1>6, <1>7, <1>8, <1>10, <1>11, <1>12 DEF Next

LEMMA NextSafeInv ==
  ASSUME SafeRules \subseteq Contract, SafeInv, [Next]_vars
  PROVE  SafeInv'
<1>1. "freeDone" \in Contract /\ ResultRules \subseteq Contract
  BY DEF SafeRules, Clause, ResultRules
<1>2. ChainInv' /\ ResultInv' /\ NoAbort'
  BY <1>1, NextChainInv, NextResultInv, NextNoAbort DEF SafeInv
<1>3. IInv
  BY DEF SafeInv, ChainInv, WaitInv
<1>4. WokenReady'
  BY <1>3, NextEffects, MovesKeepWoken, CalledKeepsWoken, AwaitKeepsWoken,
     FreeKeepsWoken, ReturnKeepsWoken
<1> QED BY <1>2, <1>4 DEF SafeInv

(* A program that follows the rules never trips an assertion of async.c, switch.c
   or graph_scheduler.c, and reaches no trap. *)
THEOREM NeverAborts ==
  ASSUME SafeRules \subseteq Contract
  PROVE  Spec => []NoAbort
<1>1. ASSUME Init PROVE SafeInv
  <2>1. ChainInv /\ NoAbort
    BY <1>1, InitChainInv DEF Init, NoAbort, Abort
  <2>2. \A w \in Handle : frame[w] = UserFrame
    BY <1>1 DEF Init
  <2>3. ResultInv /\ WokenReady
    BY <2>1, <2>2 DEF ResultInv, Kept, WokenReady, UserFrame, ChainInv
  <2> QED BY <2>1, <2>3 DEF SafeInv
<1>2. SafeInv /\ [Next]_vars => SafeInv'
  BY NextSafeInv
<1>3. SafeInv => NoAbort
  BY DEF SafeInv
<1> QED BY <1>1, <1>2, <1>3, PTL DEF Spec

------------------------------------------------------------------------------
(* The refinement: a coroutine is its node. *)
LiveNodes == {n \in Node : Occupied(n) /\ Live(node[n].h)}
DoneNodes == {n \in Node : Occupied(n) /\ IsReady(node[n].h)}
Waits == [n \in Node |->
            IF Occupied(n) THEN [for |-> Range(frame[node[n].h].ids),
                                 all |-> frame[node[n].h].at = "all"]
            ELSE [for |-> {}, all |-> FALSE]]

APIStep == API!Next \/ UNCHANGED <<LiveNodes, DoneNodes, Waits>>

WaitOf(f) == [for |-> Range(f.ids), all |-> f.at = "all"]

LEMMA UserWait == WaitOf(UserFrame) = API!NoWait
<1>1. Range(<<>>) = {}
  BY DEF Range
<1>2. UserFrame.ids = <<>> /\ UserFrame.at = "user"
  BY DEF UserFrame
<1> QED BY <1>1, <1>2 DEF WaitOf, API!NoWait

(* One coroutine, before and after a step. *)
LEMMA OfNode ==
  ASSUME NEW n \in Node
  PROVE  /\ n \in LiveNodes <=> node[n].h # 0 /\ tasks[node[n].h].state \in {"INIT", "RUNNING"}
         /\ n \in DoneNodes <=> node[n].h # 0 /\ tasks[node[n].h].state = "READY"
         /\ Waits[n] = IF node[n].h # 0 THEN WaitOf(frame[node[n].h]) ELSE API!NoWait
         /\ n \in LiveNodes' <=> node'[n].h # 0 /\ tasks'[node'[n].h].state \in {"INIT", "RUNNING"}
         /\ n \in DoneNodes' <=> node'[n].h # 0 /\ tasks'[node'[n].h].state = "READY"
         /\ Waits'[n] = IF node'[n].h # 0 THEN WaitOf(frame'[node'[n].h]) ELSE API!NoWait
<1>1. /\ n \in LiveNodes <=> node[n].h # 0 /\ tasks[node[n].h].state \in {"INIT", "RUNNING"}
      /\ n \in LiveNodes' <=> node'[n].h # 0 /\ tasks'[node'[n].h].state \in {"INIT", "RUNNING"}
  BY DEF LiveNodes, Live, Occupied
<1>2. /\ n \in DoneNodes <=> node[n].h # 0 /\ tasks[node[n].h].state = "READY"
      /\ n \in DoneNodes' <=> node'[n].h # 0 /\ tasks'[node'[n].h].state = "READY"
  BY DEF DoneNodes, IsReady, Occupied
<1>3. Waits[n] = IF node[n].h # 0 THEN WaitOf(frame[node[n].h]) ELSE API!NoWait
  BY DEF Waits, WaitOf, Occupied, API!NoWait
<1>4. Waits'[n] = IF node'[n].h # 0 THEN WaitOf(frame'[node'[n].h]) ELSE API!NoWait
  BY DEF Waits, WaitOf, Occupied, API!NoWait
<1> QED BY <1>1, <1>2, <1>3, <1>4

(* A step changes at most the coroutine n. *)
LEMMA OneNode ==
  ASSUME NEW n \in Node,
         \A m \in Node \ {n} :
           /\ node'[m].h = node[m].h
           /\ node[m].h # 0 =>
                /\ frame'[node[m].h] = frame[node[m].h]
                /\ tasks'[node[m].h].state = "READY" <=> tasks[node[m].h].state = "READY"
                /\ tasks'[node[m].h].state \in {"INIT", "RUNNING"}
                     <=> tasks[node[m].h].state \in {"INIT", "RUNNING"}
  PROVE  /\ n \notin LiveNodes' => LiveNodes' = LiveNodes \ {n}
         /\ n \in LiveNodes' => LiveNodes' = LiveNodes \cup {n}
         /\ n \notin DoneNodes' => DoneNodes' = DoneNodes \ {n}
         /\ n \in DoneNodes' => DoneNodes' = DoneNodes \cup {n}
         /\ (n \in LiveNodes' <=> n \in LiveNodes) => LiveNodes' = LiveNodes
         /\ (n \in DoneNodes' <=> n \in DoneNodes) => DoneNodes' = DoneNodes
         /\ Waits' = [Waits EXCEPT ![n] = Waits'[n]]
<1>1. ASSUME NEW m \in Node \ {n}
      PROVE  /\ m \in LiveNodes' <=> m \in LiveNodes
             /\ m \in DoneNodes' <=> m \in DoneNodes
             /\ Waits'[m] = Waits[m]
  BY OfNode
<1>2. /\ LiveNodes \subseteq Node /\ LiveNodes' \subseteq Node
      /\ DoneNodes \subseteq Node /\ DoneNodes' \subseteq Node
  BY DEF LiveNodes, DoneNodes
<1>3. Waits' = [m \in Node |-> Waits'[m]] /\ Waits = [m \in Node |-> Waits[m]]
  BY DEF Waits
<1>4. /\ n \notin LiveNodes' => LiveNodes' = LiveNodes \ {n}
      /\ n \in LiveNodes' => LiveNodes' = LiveNodes \cup {n}
  BY <1>1, <1>2
<1>5. /\ n \notin DoneNodes' => DoneNodes' = DoneNodes \ {n}
      /\ n \in DoneNodes' => DoneNodes' = DoneNodes \cup {n}
  BY <1>1, <1>2
<1>6. (n \in LiveNodes' <=> n \in LiveNodes) => LiveNodes' = LiveNodes
  <2>1. (n \in LiveNodes' <=> n \in LiveNodes) => \A m \in Node : m \in LiveNodes' <=> m \in LiveNodes
    BY <1>1
  <2> QED BY <2>1, <1>2
<1>7. (n \in DoneNodes' <=> n \in DoneNodes) => DoneNodes' = DoneNodes
  <2>1. (n \in DoneNodes' <=> n \in DoneNodes) => \A m \in Node : m \in DoneNodes' <=> m \in DoneNodes
    BY <1>1
  <2> QED BY <2>1, <1>2
<1>8. Waits' = [Waits EXCEPT ![n] = Waits'[n]]
  BY <1>1, <1>3
<1> QED BY <1>4, <1>5, <1>6, <1>7, <1>8

LEMMA NoNode ==
  ASSUME \A m \in Node :
           /\ node'[m].h = node[m].h
           /\ node[m].h # 0 =>
                /\ frame'[node[m].h] = frame[node[m].h]
                /\ tasks'[node[m].h].state = "READY" <=> tasks[node[m].h].state = "READY"
                /\ tasks'[node[m].h].state \in {"INIT", "RUNNING"}
                     <=> tasks[node[m].h].state \in {"INIT", "RUNNING"}
  PROVE  UNCHANGED <<LiveNodes, DoneNodes, Waits>>
<1>1. ASSUME NEW m \in Node
      PROVE  /\ m \in LiveNodes' <=> m \in LiveNodes
             /\ m \in DoneNodes' <=> m \in DoneNodes
             /\ Waits'[m] = Waits[m]
  BY OfNode
<1>2. /\ LiveNodes \subseteq Node /\ LiveNodes' \subseteq Node
      /\ DoneNodes \subseteq Node /\ DoneNodes' \subseteq Node
  BY DEF LiveNodes, DoneNodes
<1>3. Waits' = [m \in Node |-> Waits'[m]] /\ Waits = [m \in Node |-> Waits[m]]
  BY DEF Waits
<1> QED BY <1>1, <1>2, <1>3

(* Whoever an unfinished coroutine waits for, is polled. *)
LEMMA NotPolled ==
  ASSUME ResultInv, NEW h \in Handle, NEW n \in Node, handle_to_node[h] = n, ~ Polled(h),
         NEW d \in LiveNodes
  PROVE  n \notin Waits[d].for
<1>0. IInv /\ WaitInv
  BY DEF ResultInv, WaitInv
<1>1. PICK w : w = node[d].h
  OBVIOUS
<1>2. /\ d \in Node /\ w # 0 /\ w \in Handle /\ tasks[w].state \in {"INIT", "RUNNING"}
      /\ Waits[d] = WaitOf(frame[w])
  <2>1. d \in Node
    BY DEF LiveNodes
  <2> QED BY <2>1, <1>0, <1>1, OfNode, Registered
<1> SUFFICES ASSUME n \in Range(frame[w].ids) PROVE FALSE
  BY <1>2 DEF WaitOf
<1>3. PICK i \in DOMAIN frame[w].ids : frame[w].ids[i] = n
  BY DEF Range
<1>4. CASE tasks[w].state = "INIT"
  BY <1>0, <1>2, <1>3, <1>4, Waiter DEF UserFrame
<1>5. CASE tasks[w].state = "RUNNING"
  <2>1. frame[w].at = "user" => frame[w] = UserFrame
    BY <1>0, <1>2 DEF WaitInv, FramesOK, Shaped
  <2>2. frame[w].at # "user"
    BY <2>1, <1>3 DEF UserFrame
  <2>3. i \in DOMAIN frame[w].on
    BY <1>0, <1>2, <1>3, <2>2 DEF WaitInv, FramesOK, Shaped
  <2>4. frame[w].on[i] \in Handle /\ handle_to_node[frame[w].on[i]] = n
    BY <1>0, <1>2, <1>3, <1>5, <2>3, FrameHandles DEF ResultInv, Kept
  <2>5. frame[w].on[i] = h
    <3>1. n # NULL
      BY <1>0, Registered
    <3> QED BY <3>1, <2>4, <1>0, Registered
  <2> QED BY <2>3, <2>5, <1>0, <1>2, <1>5, Waiter DEF Polled
<1> QED BY <1>2, <1>4, <1>5

LEMMA CallRefines ==
  ASSUME NEW g \in Handle, NEW n \in Node, Called(g, n)
  PROVE  APIStep
<1>1. g # 0
  BY PoolAssumption DEF Handle
<1>2. /\ node[n].h = 0 /\ node'[n].h = g /\ tasks'[g].state = "INIT"
      /\ frame'[g] = UserFrame
  BY DEF Called
<1>3. \A m \in Node \ {n} :
        /\ node'[m].h = node[m].h
        /\ node[m].h # 0 => /\ frame'[node[m].h] = frame[node[m].h]
                            /\ tasks'[node[m].h] = tasks[node[m].h]
  BY DEF Called
<1>4. /\ n \notin LiveNodes /\ n \notin DoneNodes /\ Waits[n] = API!NoWait
      /\ n \in LiveNodes' /\ n \notin DoneNodes' /\ Waits'[n] = API!NoWait
  BY <1>1, <1>2, OfNode, UserWait
<1>5. /\ LiveNodes' = LiveNodes \cup {n} /\ DoneNodes' = DoneNodes
      /\ Waits' = [Waits EXCEPT ![n] = Waits[n]]
  BY <1>3, <1>4, OneNode
<1>6. Waits' = Waits
  <2>1. Waits = [m \in Node |-> Waits[m]]
    BY DEF Waits
  <2> QED BY <2>1, <1>5
<1>7. API!Call(n)
  BY <1>4, <1>5, <1>6 DEF API!Call, LiveNodes, DoneNodes, Waits
<1> QED BY <1>7 DEF APIStep, API!Next, Node

LEMMA FreeRefines ==
  ASSUME "freeDone" \in Contract, ResultInv, NEW h \in Handle, NEW n \in Node, Frees(h, n)
  PROVE  APIStep
<1>0. IInv /\ WaitInv
  BY DEF ResultInv, WaitInv
<1>1. /\ node[n].h = h /\ node'[n].h = 0 /\ handle_to_node[h] = n /\ h # 0
      /\ tasks[h].state = "READY" /\ ~ Polled(h)
  BY PoolAssumption DEF Frees, MayFree, Follows, Handle
<1>2. frame[h] = UserFrame
  BY <1>0, <1>1 DEF WaitInv, FramesOK, Shaped
<1>3. \A m \in Node \ {n} :
        /\ node'[m].h = node[m].h
        /\ node[m].h # 0 => /\ frame'[node[m].h] = frame[node[m].h]
                            /\ tasks'[node[m].h] = tasks[node[m].h]
  <2>1. \A m \in Node \ {n} : node[m].h # 0 => node[m].h \in Handle \ {h}
    BY <1>0, <1>1, Registered
  <2> QED BY <2>1 DEF Frees
<1>4. /\ n \notin LiveNodes /\ n \in DoneNodes /\ Waits[n] = API!NoWait
      /\ n \notin LiveNodes' /\ n \notin DoneNodes' /\ Waits'[n] = API!NoWait
  BY <1>1, <1>2, OfNode, UserWait
<1>5. /\ LiveNodes' = LiveNodes /\ DoneNodes' = DoneNodes \ {n}
      /\ Waits' = [Waits EXCEPT ![n] = Waits[n]]
  <2>1. /\ LiveNodes' = LiveNodes \ {n} /\ DoneNodes' = DoneNodes \ {n}
        /\ Waits' = [Waits EXCEPT ![n] = Waits'[n]]
    BY <1>3, <1>4, OneNode
  <2> QED BY <2>1, <1>4
<1>6. Waits' = Waits
  <2>1. Waits = [m \in Node |-> Waits[m]]
    BY DEF Waits
  <2> QED BY <2>1, <1>5
<1>7. \A d \in LiveNodes : n \notin Waits[d].for
  BY <1>1, NotPolled
<1>8. API!Free(n)
  BY <1>4, <1>5, <1>6, <1>7 DEF API!Free, API!Unneeded, LiveNodes, DoneNodes, Waits
<1> QED BY <1>8 DEF APIStep, API!Next, Node

(* The running coroutine's own code is in no call. *)
LEMMA CallerIdle ==
  ASSUME ResultInv, Running, frame[cur].at = "user"
  PROVE  /\ Me \in Node /\ node[Me].h = cur /\ cur # 0 /\ cur \in Handle
         /\ frame[cur] = UserFrame
         /\ Me \in LiveNodes /\ Me \notin DoneNodes
         /\ Waits[Me] = API!NoWait /\ ~ API!Waiting(Me)
<1>1. /\ Me \in Node /\ node[Me].h = cur /\ cur \in Handle
      /\ tasks[cur].state = "RUNNING"
  BY CurrentNode DEF ResultInv, WaitInv
<1>2. cur # 0
  BY <1>1, PoolAssumption DEF Handle
<1>3. frame[cur] = UserFrame
  BY <1>1 DEF ResultInv, WaitInv, FramesOK, Shaped
<1>4. PICK n \in Node : n = Me
  BY <1>1
<1>5. n \in LiveNodes /\ n \notin DoneNodes /\ Waits[n] = API!NoWait
  BY <1>1, <1>2, <1>3, <1>4, OfNode, UserWait
<1>6. ~ API!Waiting(n)
  BY <1>5 DEF API!Waiting, API!NoWait, Waits
<1> QED BY <1>1, <1>2, <1>3, <1>4, <1>5, <1>6

LEMMA ReturnRefines ==
  ASSUME ResultInv, NEW m \in Node, NEW p \in Node \cup {NULL}, Returned(m, p)
  PROVE  APIStep
<1>0. IInv /\ WaitInv
  BY DEF ResultInv, WaitInv
<1>1. m = Me /\ Running /\ frame[cur].at = "user" /\ handle_to_node[cur] = m
  BY DEF Returned
<1>2. /\ node[m].h = cur /\ cur # 0 /\ cur \in Handle /\ frame[cur] = UserFrame
      /\ m \in LiveNodes /\ m \notin DoneNodes
      /\ Waits[m] = API!NoWait /\ ~ API!Waiting(m)
  BY <1>1, CallerIdle
<1>3. \A k \in Node \ {m} :
        /\ node'[k].h = node[k].h
        /\ node[k].h # 0 =>
             /\ frame'[node[k].h] = frame[node[k].h]
             /\ tasks'[node[k].h].state = "READY" <=> tasks[node[k].h].state = "READY"
             /\ tasks'[node[k].h].state \in {"INIT", "RUNNING"}
                  <=> tasks[node[k].h].state \in {"INIT", "RUNNING"}
  <2>1. \A k \in Node \ {m} : node[k].h # 0 => node[k].h \in Handle \ {cur}
    BY <1>0, <1>1, Registered
  <2> QED BY <2>1 DEF Returned
<1>4. /\ m \notin LiveNodes' /\ Waits'[m] = API!NoWait
      /\ m \in DoneNodes' <=> ~ tasks[cur].orphaned
  BY <1>2, OfNode, UserWait DEF Returned
<1>5. /\ LiveNodes' = LiveNodes \ {m}
      /\ DoneNodes' = IF tasks[cur].orphaned THEN DoneNodes ELSE DoneNodes \cup {m}
      /\ Waits' = [Waits EXCEPT ![m] = Waits[m]]
  BY <1>2, <1>3, <1>4, OneNode
<1>6. Waits' = Waits
  <2>1. Waits = [k \in Node |-> Waits[k]]
    BY DEF Waits
  <2> QED BY <2>1, <1>5
<1>7. tasks[cur].orphaned => \A d \in LiveNodes : m \notin Waits[d].for
  <2> SUFFICES ASSUME tasks[cur].orphaned PROVE ~ Polled(cur)
    BY <1>1, <1>2, NotPolled
  <2> SUFFICES ASSUME NEW w \in Issued, tasks[w].state = "RUNNING",
                      NEW i \in DOMAIN frame[w].on, frame[w].on[i] = cur
               PROVE  FALSE
    BY DEF Polled
  <2>1. w \in Handle
    BY <1>0, PoolBounds DEF Issued, IInv, TypeOK, PoolTypeOK
  <2> QED BY <2>1 DEF ResultInv, Kept
<1>8. API!Return(m)
  BY <1>2, <1>5, <1>6, <1>7 DEF API!Return, API!Unneeded, LiveNodes, DoneNodes, Waits
<1> QED BY <1>8 DEF APIStep, API!Next, Node

(* A step that moves the frame of the caller at most, from one wait to another. *)
LEMMA MovesFrame ==
  ASSUME ResultInv, Moves, Running,
         \A w \in Handle \ {cur} : frame'[w] = frame[w]
  PROVE  /\ LiveNodes' = LiveNodes /\ DoneNodes' = DoneNodes
         /\ Waits' = [Waits EXCEPT ![Me] = WaitOf(frame'[cur])]
<1>0. IInv
  BY DEF ResultInv, WaitInv
<1>1. PICK n \in Node : n = Me /\ node[n].h = cur /\ cur \in Handle /\ handle_to_node[cur] = n
  BY <1>0, CurrentNode
<1>2. cur # 0 /\ node' = node
  BY <1>1, PoolAssumption DEF Moves, Handle
<1>3. \A w \in Handle :
        /\ tasks'[w].state = "READY" <=> tasks[w].state = "READY"
        /\ tasks'[w].state \in {"INIT", "RUNNING"} <=> tasks[w].state \in {"INIT", "RUNNING"}
  BY DEF Moves
<1>4. \A k \in Node \ {n} :
        /\ node'[k].h = node[k].h
        /\ node[k].h # 0 =>
             /\ frame'[node[k].h] = frame[node[k].h]
             /\ tasks'[node[k].h].state = "READY" <=> tasks[node[k].h].state = "READY"
             /\ tasks'[node[k].h].state \in {"INIT", "RUNNING"}
                  <=> tasks[node[k].h].state \in {"INIT", "RUNNING"}
  <2>1. \A k \in Node \ {n} : node[k].h # 0 => node[k].h \in Handle \ {cur}
    BY <1>0, <1>1, Registered
  <2> QED BY <2>1, <1>2, <1>3
<1>5. /\ n \in LiveNodes' <=> n \in LiveNodes
      /\ n \in DoneNodes' <=> n \in DoneNodes
      /\ Waits'[n] = WaitOf(frame'[cur])
  BY <1>1, <1>2, <1>3, OfNode
<1>6. LiveNodes' = LiveNodes
  BY <1>4, <1>5, OneNode
<1>7. DoneNodes' = DoneNodes
  BY <1>4, <1>5, OneNode
<1>8. Waits' = [Waits EXCEPT ![n] = Waits'[n]]
  BY <1>4, OneNode
<1> QED BY <1>1, <1>5, <1>6, <1>7, <1>8

LEMMA MovesStutter ==
  ASSUME ResultInv, Moves, frame' = frame
  PROVE  APIStep
<1>1. \A m \in Node :
        /\ node'[m].h = node[m].h
        /\ node[m].h # 0 =>
             /\ frame'[node[m].h] = frame[node[m].h]
             /\ tasks'[node[m].h].state = "READY" <=> tasks[node[m].h].state = "READY"
             /\ tasks'[node[m].h].state \in {"INIT", "RUNNING"}
                  <=> tasks[node[m].h].state \in {"INIT", "RUNNING"}
  <2>1. \A m \in Node : node[m].h # 0 => node[m].h \in Handle
    BY Registered DEF ResultInv, WaitInv
  <2> QED BY <2>1 DEF Moves
<1> QED BY <1>1, NoNode DEF APIStep

LEMMA StartRefines ==
  ASSUME ResultInv, Running, frame[cur].at = "user", NEW n \in Node, n = Me,
         NEW f, Range(f.ids) \subseteq Node, Range(f.ids) # {},
         LiveNodes' = LiveNodes, DoneNodes' = DoneNodes,
         Waits' = [Waits EXCEPT ![n] = WaitOf(f)]
  PROVE  APIStep
<1>1. n \in LiveNodes /\ ~ API!Waiting(n)
  BY CallerIdle
<1>2. WaitOf(f) \in API!Wait
  BY DEF WaitOf, API!Wait, Node
<1>3. PICK w \in API!Wait : w = WaitOf(f)
  BY <1>2
<1>4. API!StartWait(n, w)
  BY <1>1, <1>3 DEF API!StartWait, LiveNodes, DoneNodes, Waits
<1> QED BY <1>4 DEF APIStep, API!Next, Node

LEMMA AwaitRefines ==
  ASSUME ResultInv, NEW h \in Handle, NEW n \in Node, NEW m \in Node, Awaits(h, n, m)
  PROVE  APIStep
<1> DEFINE f == [at |-> "await", on |-> <<h>>, ids |-> <<n>>]
<1>0. IInv
  BY DEF ResultInv, WaitInv
<1>1. /\ m = Me /\ Running /\ frame[cur].at = "user" /\ handle_to_node[cur] = m
      /\ node[m].h = cur /\ cur \in Handle /\ cur # 0
  BY PoolAssumption DEF Awaits, Handle
<1>2. \A k \in Node \ {m} :
        /\ node'[k].h = node[k].h
        /\ node[k].h # 0 =>
             /\ frame'[node[k].h] = frame[node[k].h]
             /\ tasks'[node[k].h].state = "READY" <=> tasks[node[k].h].state = "READY"
             /\ tasks'[node[k].h].state \in {"INIT", "RUNNING"}
                  <=> tasks[node[k].h].state \in {"INIT", "RUNNING"}
  <2>1. \A k \in Node \ {m} : node[k].h # 0 => node[k].h \in Handle \ {cur}
    BY <1>0, <1>1, Registered
  <2> QED BY <2>1 DEF Awaits
<1>3. /\ node'[m].h = cur /\ frame'[cur] = f
      /\ tasks'[cur].state = "RUNNING" /\ tasks[cur].state = "RUNNING"
  BY <1>1 DEF Awaits
<1>4. /\ m \in LiveNodes /\ m \in LiveNodes' /\ m \notin DoneNodes /\ m \notin DoneNodes'
      /\ Waits'[m] = WaitOf(f)
  BY <1>1, <1>3, OfNode
<1>5. LiveNodes' = LiveNodes
  BY <1>2, <1>4, OneNode
<1>6. DoneNodes' = DoneNodes
  BY <1>2, <1>4, OneNode
<1>7. Waits' = [Waits EXCEPT ![m] = WaitOf(f)]
  <2>1. Waits' = [Waits EXCEPT ![m] = Waits'[m]]
    BY <1>2, OneNode
  <2> QED BY <2>1, <1>4
<1>8. Range(f.ids) = {n}
  BY DEF Range
<1> HIDE DEF f
<1> QED BY <1>1, <1>5, <1>6, <1>7, <1>8, StartRefines

(* What the caller waits for, as the API names it. *)
LEMMA EndRefines ==
  ASSUME ResultInv, Running, frame[cur].at # "user", Satisfied(frame[cur]),
         NEW n \in Node, n = Me, LiveNodes' = LiveNodes, DoneNodes' = DoneNodes,
         Waits' = [Waits EXCEPT ![n] = API!NoWait]
  PROVE  APIStep
<1>0. IInv /\ WaitInv
  BY DEF ResultInv, WaitInv
<1>1. /\ cur \in Handle /\ cur # 0 /\ node[n].h = cur /\ tasks[cur].state = "RUNNING"
  BY <1>0, CurrentNode, PoolAssumption DEF Handle
<1>2. PICK f \in Frame : f = frame[cur]
  BY <1>0, <1>1 DEF IInv, TypeOK
<1>3. Shaped(f) /\ Kept(f) /\ f.at # "user" /\ Satisfied(f) /\ Waits[n] = WaitOf(f)
  BY <1>0, <1>1, <1>2, OfNode DEF ResultInv, WaitInv, FramesOK
<1>4. PICK k \in 1 .. MaxPoll : f.on \in [1 .. k -> Handle]
  BY <1>3 DEF Shaped, HandleLists
<1>5. 1 \in DOMAIN f.on /\ DOMAIN f.ids = DOMAIN f.on
  BY <1>3, <1>4, GraphAssumption DEF Shaped
<1>6. ASSUME NEW i \in DOMAIN f.on
      PROVE  /\ f.ids[i] \in Range(f.ids)
             /\ IsReady(f.on[i]) <=> f.ids[i] \in DoneNodes
  <2>1. f.on[i] \in Handle /\ f.on[i] # 0
    BY <1>4, PoolAssumption DEF Handle
  <2>2. PICK c \in Node : c = f.ids[i] /\ node[c].h = f.on[i]
    BY <2>1, <1>0, <1>3, Registered DEF Kept
  <2>3. c \in DoneNodes <=> IsReady(f.on[i])
    BY <2>1, <2>2, OfNode DEF IsReady
  <2> QED BY <2>2, <2>3, <1>5 DEF Range
<1>7. IF f.at = "all" THEN Range(f.ids) \subseteq DoneNodes
                      ELSE Range(f.ids) \cap DoneNodes # {}
  <2>1. CASE f.at = "any"
    <3>1. PICK i \in DOMAIN f.on : IsReady(f.on[i])
      BY <1>3, <2>1 DEF Satisfied
    <3> QED BY <2>1, <3>1, <1>6
  <2>2. CASE f.at \in {"all", "await"}
    <3>1. \A i \in DOMAIN f.on : IsReady(f.on[i])
      BY <1>3, <2>2 DEF Satisfied
    <3>2. Range(f.ids) \subseteq DoneNodes
      BY <3>1, <1>5, <1>6 DEF Range
    <3> QED BY <3>2, <1>5, <1>6
  <2> QED BY <2>1, <2>2, <1>3 DEF Frame
<1>8. API!Waiting(n)
  <2>1. Waits[n].for # {}
    BY <1>3, <1>5, <1>6 DEF WaitOf
  <2> QED BY <2>1 DEF API!Waiting, Waits
<1>9. API!Satisfied(Waits[n])
  <2>1. API!Satisfied(WaitOf(f))
    BY <1>7 DEF API!Satisfied, WaitOf, DoneNodes
  <2>2. PICK w : w = WaitOf(f)
    OBVIOUS
  <2> QED BY <2>1, <2>2, <1>3
<1>10. API!EndWait(n)
  BY <1>8, <1>9 DEF API!EndWait, LiveNodes, DoneNodes, Waits
<1> QED BY <1>10 DEF APIStep, API!Next, Node

(* async_skip, the polling loops and the rest of await. *)
LEMMA PollRefines ==
  ASSUME ResultInv, ResultInv', Running, NEW f \in Frame, PollOnce(f), Kept(f), f.at # "user",
         \/ f = frame[cur]
         \/ frame[cur].at = "user" /\ \E at \in {"any", "all"}, hs \in HandleLists :
                                         MayPoll(hs) /\ f = PollFrame(at, hs)
  PROVE  APIStep
<1>0. IInv /\ Moves
  BY PollOnceMoves DEF ResultInv, WaitInv, Wanted
<1>1. PICK n \in Node : n = Me
  BY <1>0, CurrentNode
<1>2. frame \in [Handle -> Frame] /\ cur \in Handle
  BY <1>0, CurrentNode DEF IInv, TypeOK
<1>3. CASE Satisfied(f) /\ frame' = [frame EXCEPT ![cur] = UserFrame]
  <2>1. /\ frame'[cur] = UserFrame
        /\ \A w \in Handle \ {cur} : frame'[w] = frame[w]
    BY <1>2, <1>3
  <2>2. CASE f = frame[cur]
    <3>1. /\ LiveNodes' = LiveNodes /\ DoneNodes' = DoneNodes
          /\ Waits' = [Waits EXCEPT ![n] = API!NoWait]
      BY <1>0, <1>1, <2>1, MovesFrame, UserWait
    <3> QED BY <1>1, <1>3, <2>2, <3>1, EndRefines
  (* It is satisfied at once: the caller never waits. *)
  <2>3. CASE frame[cur].at = "user"
    <3>1. frame' = frame
      BY <1>2, <1>3, <2>3, CallerIdle
    <3> QED BY <1>0, <3>1, MovesStutter
  <2> QED BY <2>2, <2>3
<1>4. CASE Skip(f)
  <2>1. frame' = [frame EXCEPT ![cur] = f]
    BY <1>4 DEF Skip
  <2>2. frame'[cur] = f /\ \A w \in Handle \ {cur} : frame'[w] = frame[w]
    BY <1>2, <2>1
  <2>3. CASE f = frame[cur]
    <3>1. frame' = frame
      BY <1>2, <2>1, <2>3
    <3> QED BY <1>0, <3>1, MovesStutter
  <2>4. CASE frame[cur].at = "user" /\ \E at \in {"any", "all"}, hs \in HandleLists :
                                         MayPoll(hs) /\ f = PollFrame(at, hs)
    <3>1. /\ LiveNodes' = LiveNodes /\ DoneNodes' = DoneNodes
          /\ Waits' = [Waits EXCEPT ![n] = WaitOf(f)]
      BY <1>0, <1>1, <2>2, MovesFrame
    <3>2. DOMAIN f.ids = DOMAIN f.on /\ f.on \in HandleLists
      BY <2>4 DEF PollFrame
    <3>3. 1 \in DOMAIN f.ids
      BY <3>2, GraphAssumption DEF HandleLists
    <3>4. \A i \in DOMAIN f.on : f.on[i] \in Handle
      BY <3>2 DEF HandleLists
    <3>5. \A i \in DOMAIN f.ids : f.ids[i] \in Node
      BY <3>2, <3>4, <1>0, Registered DEF Kept
    <3>6. Range(f.ids) \subseteq Node /\ Range(f.ids) # {}
      BY <3>3, <3>5 DEF Range
    <3> QED BY <1>1, <2>4, <3>1, <3>6, StartRefines
  <2> QED BY <2>3, <2>4
<1> QED BY <1>3, <1>4 DEF PollOnce

LEMMA NextRefines ==
  ASSUME ResultRules \subseteq Contract, ResultInv, [Next]_vars
  PROVE  APIStep
<1>0. /\ "freeDone" \in Contract /\ "inherited" \in Contract
      /\ ResultInv' /\ IInv /\ WaitInv
  BY NextResultInv DEF ResultRules, ResultInv, WaitInv
<1>1. Issued \subseteq Handle
  BY <1>0, PoolBounds DEF Issued, IInv, TypeOK, PoolTypeOK
<1>2. ASSUME Moves, frame' = frame PROVE APIStep
  BY <1>2, MovesStutter
<1>3. ASSUME UNCHANGED <<poolVars, schedVars, frame>> PROVE APIStep
  BY <1>2, <1>3, QuietMoves
<1>4. CASE AsyncCall
  BY <1>0, <1>4, AsyncCallKeeps, CallRefines
<1>5. CASE AsyncSkip
  <2>1. Running /\ Skip(UserFrame) /\ frame[cur] = UserFrame
    BY <1>5, CallerIdle DEF AsyncSkip, InUser
  <2>2. Moves
    BY <1>0, <2>1, SkipMoves
  <2>3. frame' = frame
    <3>1. frame' = [frame EXCEPT ![cur] = UserFrame] /\ frame \in [Handle -> Frame]
      BY <2>1, <1>0 DEF Skip, IInv, TypeOK
    <3> QED BY <2>1, <3>1
  <2> QED BY <1>2, <2>2, <2>3
<1>6. CASE AsyncReturn
  BY <1>0, <1>6, AsyncReturnKeeps, ReturnRefines
<1>7. CASE AsyncReturnAborts \/ MainReturns \/ AwaitReturnAborts \/ FallsOff \/ Ended
           \/ UNCHANGED vars
  BY <1>3, <1>7 DEF AsyncReturnAborts, MainReturns, AwaitReturnAborts, FallsOff, Ended, Fails, vars
<1>8. CASE AwaitReturns
  <2>1. /\ Running /\ frame[cur].at = "await" /\ frame' = [frame EXCEPT ![cur] = UserFrame]
        /\ UNCHANGED <<poolVars, schedVars, history, process>>
        /\ node[frame[cur].ids[1]].h # 0
        /\ tasks[node[frame[cur].ids[1]].h].state = "READY"
    BY <1>8 DEF AwaitReturns
  <2>2. Moves
    BY <1>0, <2>1, ReturnToCallerMoves
  <2>3. cur \in Handle /\ tasks[cur].state = "RUNNING" /\ frame \in [Handle -> Frame]
    BY <1>0, <2>1, CurrentNode DEF IInv, TypeOK
  <2>4. PICK n \in Node : n = Me
    BY <1>0, <2>1, CurrentNode
  <2>5. frame'[cur] = UserFrame /\ \A w \in Handle \ {cur} : frame'[w] = frame[w]
    BY <2>1, <2>3
  <2>6. /\ LiveNodes' = LiveNodes /\ DoneNodes' = DoneNodes
        /\ Waits' = [Waits EXCEPT ![n] = API!NoWait]
    BY <2>1, <2>2, <2>4, <2>5, MovesFrame, UserWait
  <2>7. DOMAIN frame[cur].on = {1} /\ Kept(frame[cur])
    BY <1>0, <2>1, <2>3 DEF WaitInv, FramesOK, Shaped, ResultInv
  <2>8. IsReady(frame[cur].on[1])
    <3>1. frame[cur].on[1] \in Handle
      BY <1>0, <2>3, <2>7, FrameHandles
    <3>2. node[frame[cur].ids[1]].h = frame[cur].on[1]
      BY <1>0, <2>7, <3>1, Registered DEF Kept
    <3> QED BY <2>1, <3>2 DEF IsReady
  <2>9. Satisfied(frame[cur])
    BY <2>1, <2>7, <2>8 DEF Satisfied
  <2> QED BY <2>1, <2>4, <2>6, <2>9, EndRefines
<1>9. CASE PollAgain
  <2>1. Running /\ frame[cur].at # "user" /\ PollOnce(frame[cur])
    BY <1>9 DEF PollAgain
  <2>2. cur \in Handle /\ tasks[cur].state = "RUNNING" /\ frame[cur] \in Frame
    BY <1>0, <2>1, CurrentNode DEF IInv, TypeOK
  <2> QED BY <1>0, <2>1, <2>2, PollRefines DEF ResultInv
<1>10. ASSUME NEW h \in Issued, Await(h) PROVE APIStep
  BY <1>0, <1>1, <1>10, AwaitKeeps, AwaitRefines
<1>11. ASSUME NEW h \in Issued, AwaitAborts(h) \/ AsyncFreeAborts(h) PROVE APIStep
  BY <1>3, <1>11 DEF AwaitAborts, AsyncFreeAborts, Fails
<1>12. ASSUME NEW h \in Issued, AsyncFree(h) PROVE APIStep
  BY <1>0, <1>1, <1>12, AsyncFreeKeeps, FreeRefines
<1>13. ASSUME NEW h \in Issued, AsyncOrphan(h) PROVE APIStep
  BY <1>0, <1>2, <1>13, OrphanMoves DEF AsyncOrphan
<1>14. ASSUME NEW hs \in HandleLists, AwaitAny(hs) \/ AwaitAll(hs) PROVE APIStep
  <2>1. PICK at \in {"any", "all"} : InUser /\ MayPoll(hs) /\ PollOnce(PollFrame(at, hs))
    BY <1>14 DEF AwaitAny, AwaitAll
  <2>2. PICK f \in Frame : f = PollFrame(at, hs) /\ f.at = at
    BY <1>0, PollFrames DEF IInv
  <2>3. Kept(f)
    <3>1. \A i \in DOMAIN hs : hs[i] \in Handle
      BY DEF HandleLists
    <3>2. \A i \in DOMAIN hs : tasks[hs[i]].state # "FREE" /\ ~ tasks[hs[i]].orphaned
      BY <2>1, <1>0 DEF MayPoll, MayWait, Follows
    <3>3. \A i \in DOMAIN hs : handle_to_node[hs[i]] # NULL
      BY <1>0, <3>1, <3>2, Registered
    <3>4. f.on = hs /\ \A i \in DOMAIN hs : f.ids[i] = handle_to_node[hs[i]]
      BY <2>2 DEF PollFrame
    <3> QED BY <3>2, <3>3, <3>4 DEF Kept
  <2> QED BY <1>0, <2>1, <2>2, <2>3, PollRefines DEF InUser
<1> QED BY <1>4, <1>5, <1>6, <1>7, <1>8, <1>9, <1>10, <1>11, <1>12, <1>13, <1>14 DEF Next

LEMMA InitRefines == Init => API!Init
<1> SUFFICES ASSUME Init PROVE API!Init
  OBVIOUS
<1>1. PICK n \in Node :
        node = [m \in Node |-> [parent |-> NULL, h |-> IF m = n THEN Main ELSE 0,
                                in_queue |-> m = n]]
  BY DEF Init
<1>2. /\ Main \in Handle /\ Main # 0 /\ tasks[Main].state = "RUNNING"
      /\ frame[Main] = UserFrame
  BY PoolAssumption DEF Init, Main, Handle, Unused
<1>3. \A m \in Node : node[m].h = IF m = n THEN Main ELSE 0
  BY <1>1
<1>4. \A m \in Node : /\ m \in LiveNodes <=> m = n
                      /\ m \notin DoneNodes
                      /\ Waits[m] = API!NoWait
  BY <1>2, <1>3, OfNode, UserWait
<1>5. LiveNodes = {n} /\ DoneNodes = {}
  BY <1>4 DEF LiveNodes, DoneNodes
<1>6. Waits = [m \in Node |-> API!NoWait]
  BY <1>4 DEF Waits
<1> QED BY <1>5, <1>6 DEF API!Init, LiveNodes, DoneNodes, Waits, Node

(* The graph scheduler gives a program that follows the three rules the API of
   AsyncSpec: a coroutine is called, runs and returns once, a wait returns only
   when what it names has returned, and nothing that is waited for is reclaimed. *)
THEOREM GraphImplementsAsync ==
  ASSUME ResultRules \subseteq Contract
  PROVE  Spec => ImplementsAsync
<1>1. Init => API!Init
  BY InitRefines
<1>2. ResultInv /\ [Next]_vars => [API!Next]_<<LiveNodes, DoneNodes, Waits>>
  BY NextRefines DEF APIStep
<1> QED BY <1>1, <1>2, Results, PTL
        DEF Spec, ImplementsAsync, API!Spec, LiveNodes, DoneNodes, Waits
==============================================================================
