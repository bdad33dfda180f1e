------------------------- MODULE QueueRuntimeProofs --------------------------
(***************************************************************************)
(* The queue scheduler, for every number of slots and every set of         *)
(* coroutines.  Three layers, each with the rules of Contract it needs:    *)
(*   PoolInv    whatever the coroutines call: the types, and the front of  *)
(*              the queue is the caller;                                   *)
(*   CarefulInv with the rule freeDone: the queue holds exactly the        *)
(*              unfinished coroutines, each once, and the free list the    *)
(*              free slots;                                                *)
(*   ResultInv  with kept, freeDone and orphanLive: whoever waits, waits   *)
(*              for the coroutine it named, and reads that one's result.   *)
(***************************************************************************)
EXTENDS QueueRuntime, TaskPoolProofs

(* The links of the free list, sound or not, stay within the pool. *)
LinksInside == \A h \in Handle : tasks[h].handle \in 0 .. len

PoolInv ==
  /\ TypeOK
  /\ LinksInside
  /\ Range(queue) \subseteq Issued
  /\ QueueOK

(* Nobody has freed the caller and taken its slot. *)
CallerRuns == Running => tasks[cur].state = "RUNNING"

CarefulInv ==
  /\ PoolInv
  /\ \A h \in Handle : h \in Range(queue) <=> Live(h)
  /\ IsInjective(queue)
  /\ CallerRuns
  /\ FreeChain
  /\ NoAbort

(* Each slot in use has a coroutine of its own. *)
OccupantsOK ==
  /\ \A h \in Handle : occupant[h] = NULL <=> tasks[h].state = "FREE"
  /\ \A g, h \in Handle : occupant[g] = occupant[h] /\ occupant[g] # NULL => g = h

(* Only an unfinished coroutine is in a polling loop; the coroutines it waits for
   are still in the slots it named, and will not be reclaimed when they return. *)
WaitKept(f) ==
  /\ f.at = "user" => f = UserFrame
  /\ f.at # "user" => 1 \in DOMAIN f.on
  /\ DOMAIN f.on = DOMAIN f.ids
  /\ \A i \in DOMAIN f.on :
       LET h == f.on[i]
       IN tasks[h].state # "FREE" /\ ~ tasks[h].orphaned /\ occupant[h] = f.ids[i]

WaitsKept ==
  \A w \in Handle : WaitKept(frame[w]) /\ (frame[w].at # "user" => Live(w))

ResultsStored == \A h \in Handle : IsReady(h) => tasks[h].data = occupant[h]

ResultInv == CarefulInv /\ OccupantsOK /\ WaitsKept /\ ResultsStored

------------------------------------------------------------------------------
LEMMA Typed ==
  ASSUME PoolInv
  PROVE  /\ tasks \in [Handle -> Task] /\ frame \in [Handle -> Frame]
         /\ occupant \in [Handle -> Coroutine \cup {NULL}]
         /\ owner \in [Handle -> 0 .. MaxTasks]
         /\ process \in {"running", "exited", "trap"} \cup Abort
         /\ queue \in Seq(Handle) /\ Main \in Range(queue) /\ queue # <<>>
         /\ len \in Handle /\ Issued \subseteq Handle /\ Range(queue) \subseteq Issued
         /\ Range(queue) \subseteq Handle
         /\ free_task \in 0 .. len /\ free_task \in 0 .. MaxTasks
         /\ cur \in Handle /\ cur \in Issued
         /\ 0 \in 0 .. len /\ 0 \in 0 .. MaxTasks
         /\ \A h \in Issued : h \in 0 .. len
<1>1. /\ len \in Handle /\ 1 .. len \subseteq Handle
      /\ MaxTasks \in Nat /\ len \in Nat /\ len <= MaxTasks
  BY PoolBounds DEF PoolInv, TypeOK, PoolTypeOK
<1>2. Main \in Range(queue)
  BY DEF PoolInv, QueueOK
<1>3. queue # <<>>
  BY <1>2, EmptySeq DEF Range
<1> QED BY <1>1, <1>2, <1>3 DEF PoolInv, TypeOK, PoolTypeOK, Issued

LEMMA Frames ==
  /\ UserFrame \in Frame
  /\ \A at \in {"any", "all"}, hs \in HandleLists :
       PoolInv /\ Range(hs) \subseteq Issued =>
         [at |-> at, on |-> hs, ids |-> [i \in DOMAIN hs |-> occupant[hs[i]]]] \in Frame
<1>1. 0 \in 0 .. MaxPoll
  BY QueueAssumption
<1>2. <<>> \in [1 .. 0 -> Handle] /\ <<>> \in [1 .. 0 -> Coroutine \cup {NULL}]
  OBVIOUS
<1>3. UserFrame \in Frame
  BY <1>1, <1>2 DEF UserFrame, Frame
<1>4. ASSUME NEW at \in {"any", "all"}, NEW hs \in HandleLists, PoolInv
      PROVE  [at |-> at, on |-> hs, ids |-> [i \in DOMAIN hs |-> occupant[hs[i]]]] \in Frame
  <2>1. PICK n \in 1 .. MaxPoll : hs \in [1 .. n -> Handle]
    BY DEF HandleLists
  <2>2. n \in 0 .. MaxPoll
    BY QueueAssumption
  <2>3. [i \in DOMAIN hs |-> occupant[hs[i]]] \in [1 .. n -> Coroutine \cup {NULL}]
    BY <1>4, <2>1, Typed
  <2> QED BY <2>1, <2>2, <2>3 DEF Frame
<1> QED BY <1>3, <1>4

(* The steps that end the program, and those that do nothing. *)
LEMMA PoolInvKept ==
  ASSUME PoolInv, UNCHANGED <<poolVars, queue, frame, occupant, owner>>,
         process' \in {"running", "exited", "trap"} \cup Abort, Running' => Running
  PROVE  PoolInv'
<1> USE DEF poolVars
<1>1. TypeOK' /\ LinksInside' /\ QueueOK'
  BY DEF PoolInv, TypeOK, PoolTypeOK, LinksInside, QueueOK
<1> QED BY <1>1 DEF PoolInv, Issued

LEMMA RefusedKeepsPool ==
  ASSUME PoolInv, Running, NEW ts, NEW h, Refused(ts, h)
  PROVE  PoolInv'
<1>1. process' \in {"switch_to_FREE", "switch_to_READY"}
      /\ UNCHANGED <<poolVars, queue, frame, occupant, owner>>
  BY DEF Refused, Ends
<1> QED BY <1>1, PoolInvKept DEF Running, Abort

------------------------------------------------------------------------------
(* async_skip, when it does not abort: the queue is rotated, and its front may
   change from INIT to RUNNING. *)
LEMMA SkipEffect ==
  ASSUME PoolInv, Running, NEW f, Skip(f), Running'
  PROVE  /\ queue' = Rotated /\ queue' \in Seq(Handle) /\ queue' # <<>>
         /\ Range(queue') = Range(queue) /\ Head(queue') = cur'
         /\ cur' \in Range(queue)
         /\ frame' = [frame EXCEPT ![cur] = IF cur' = cur THEN f ELSE Suspended(f)]
         /\ UNCHANGED <<len, free_task, occupant, owner, process>>
         /\ tasks' \in [Handle -> Task]
         /\ cur' = cur \/ tasks'[cur'].state = "RUNNING"
         /\ \A h \in Handle :
              /\ h \notin Range(queue) => tasks'[h] = tasks[h]
              /\ tasks[h].state = "RUNNING" => tasks'[h].state = "RUNNING"
              /\ tasks'[h].handle = tasks[h].handle
              /\ tasks'[h].orphaned = tasks[h].orphaned
              /\ tasks'[h].data = tasks[h].data
              /\ tasks'[h].state = "FREE" <=> tasks[h].state = "FREE"
              /\ tasks'[h].state = "READY" <=> tasks[h].state = "READY"
              /\ Live(h)' <=> Live(h)
<1> DEFINE to == Head(Rotated)
<1>1. /\ to = cur \/ CanRun(tasks, to)
      /\ queue' = Rotated /\ cur' = to
      /\ tasks' = IF to = cur THEN tasks ELSE Switched(tasks, to)
      /\ frame' = [frame EXCEPT ![cur] = IF to = cur THEN f ELSE Suspended(f)]
      /\ UNCHANGED <<len, free_task, occupant, owner, process>>
  BY DEF Skip, Refused, Ends, Running
<1>2. Rotated \in Seq(Handle) /\ Rotated # <<>> /\ Range(Rotated) = Range(queue)
  BY Typed, RotateRange DEF Rotated
<1>3. to \in Range(queue) /\ to \in Handle
  BY <1>2, NonEmpty
<1> HIDE DEF to
<1>4. /\ tasks' \in [Handle -> Task]
      /\ to # cur => tasks'[to].state = IF tasks[to].state = "INIT" THEN "RUNNING"
                                        ELSE tasks[to].state
      /\ \A h \in Handle :
           /\ h # to => tasks'[h] = tasks[h]
           /\ tasks'[h].handle = tasks[h].handle
           /\ tasks'[h].orphaned = tasks[h].orphaned
           /\ tasks'[h].data = tasks[h].data
           /\ tasks'[h].state = tasks[h].state
                \/ (tasks[h].state = "INIT" /\ tasks'[h].state = "RUNNING")
  BY <1>1, <1>3, Typed, SwitchedFacts, SMTT(30)
<1>5. to = cur \/ tasks'[to].state = "RUNNING"
  <2>1. tasks[to] \in Task
    BY <1>3, Typed
  <2> QED BY <2>1, <1>1, <1>4 DEF CanRun, Task, State
<1> QED BY <1>1, <1>2, <1>3, <1>4, <1>5 DEF to, Live

LEMMA SkipKeepsPool ==
  ASSUME PoolInv, Running, NEW f \in Frame, Skip(f)
  PROVE  PoolInv'
<1>1. CASE Running'
  <2>1. PoolTypeOK'
    <3>1. \A h \in Handle : h > len => h \notin Range(queue)
      BY Typed, PoolBounds DEF Issued
    <3> QED BY <1>1, <3>1, SkipEffect, Typed DEF PoolTypeOK, PoolInv, TypeOK, Issued
  <2>2. TypeOK'
    <3>1. frame' \in [Handle -> Frame]
      <4>1. frame' = [frame EXCEPT ![cur] = IF cur' = cur THEN f ELSE Suspended(f)]
        BY <1>1, SkipEffect
      <4>2. Suspended(f) \in Frame
        BY Frames DEF Suspended
      <4> QED BY <4>1, <4>2, Typed
    <3>2. queue' \in Seq(Handle) /\ UNCHANGED <<occupant, owner, process>>
      BY <1>1, SkipEffect
    <3> QED BY <2>1, <3>1, <3>2 DEF PoolInv, TypeOK
  <2>3. LinksInside'
    BY <1>1, SkipEffect DEF PoolInv, LinksInside
  <2>4. QueueOK' /\ Range(queue') \subseteq Issued'
    BY <1>1, SkipEffect, Typed DEF QueueOK, Issued
  <2> QED BY <2>2, <2>3, <2>4 DEF PoolInv
<1>2. CASE ~ Running'
  <2>1. Refused(tasks, Head(Rotated))
    BY <1>2 DEF Skip, Running
  <2> QED BY <2>1, RefusedKeepsPool
<1> QED BY <1>1, <1>2

LEMMA PollOnceKeepsPool ==
  ASSUME PoolInv, Running, NEW f \in Frame, PollOnce(f)
  PROVE  PoolInv'
<1>1. CASE Skip(f)
  BY <1>1, SkipKeepsPool
<1>2. CASE /\ frame' = [frame EXCEPT ![cur] = UserFrame]
           /\ UNCHANGED <<poolVars, queue, occupant, owner, process>>
  BY <1>2, Frames DEF PoolInv, TypeOK, PoolTypeOK, LinksInside, QueueOK, Issued, Running,
                      poolVars
<1> QED BY <1>1, <1>2 DEF PollOnce

------------------------------------------------------------------------------
(* async_call, when it does not abort: a free slot is taken and queued. *)
LEMMA CallEffect ==
  ASSUME PoolInv, AsyncCall, Running'
  PROVE  /\ InUser /\ StartNewTask
         /\ free_task # 0 => tasks[free_task].state = "FREE"
         /\ NewHandle \in Handle /\ NewHandle \in 1 .. NewLen
         /\ tasks[NewHandle].state = "FREE"
         /\ NewLen \in Handle /\ len <= NewLen /\ len' = NewLen
         /\ \A h \in Handle : h > NewLen => h > len /\ h # NewHandle
         /\ tasks' \in [Handle -> Task] /\ cur' = cur
         /\ tasks'[NewHandle].state = "INIT" /\ tasks'[NewHandle].handle = NewHandle
         /\ \A h \in Handle : h # NewHandle => tasks'[h] = tasks[h]
         /\ free_task' = IF free_task = 0 THEN 0 ELSE tasks[free_task].handle
         /\ queue' = Registered(NewHandle) /\ queue' \in Seq(Handle)
         /\ Range(queue') = Range(queue) \cup {NewHandle}
         /\ Head(queue') = Head(queue)
         /\ \E c \in Coroutine \ Remembered : occupant' = [occupant EXCEPT ![NewHandle] = c]
         /\ frame' = [frame EXCEPT ![NewHandle] = UserFrame]
         /\ owner' = [owner EXCEPT ![NewHandle] = cur]
         /\ process' = process
<1>1. /\ InUser /\ StartNewTask /\ CanStart
      /\ free_task # 0 => tasks[free_task].state = "FREE"
      /\ queue' = Append(queue, NewHandle) /\ queue' = Registered(NewHandle)
      /\ \E c \in Coroutine \ Remembered : occupant' = [occupant EXCEPT ![NewHandle] = c]
      /\ frame' = [frame EXCEPT ![NewHandle] = UserFrame]
      /\ owner' = [owner EXCEPT ![NewHandle] = cur]
      /\ process' = process
  BY DEF AsyncCall, Ends, Running, Registered, StartNewTask
<1>2. PoolTypeOK
  BY DEF PoolInv, TypeOK
<1>3. /\ NewHandle \in Handle /\ NewHandle \in 1 .. NewLen
      /\ tasks[NewHandle].state = "FREE"
      /\ NewLen \in Handle /\ len <= NewLen
      /\ \A h \in Handle : h > NewLen => h > len /\ h # NewHandle
  BY <1>1, <1>2, NewSlot
<1>4. /\ tasks' \in [Handle -> Task] /\ cur' = cur /\ len' = NewLen
      /\ tasks'[NewHandle].state = "INIT" /\ tasks'[NewHandle].handle = NewHandle
      /\ \A h \in Handle : h # NewHandle => tasks'[h] = tasks[h]
  BY <1>1, <1>2, StartedFacts
<1>5. /\ queue' \in Seq(Handle)
      /\ Range(queue') = Range(queue) \cup {NewHandle}
      /\ Head(queue') = Head(queue)
  <2>1. /\ queue \in Seq(Handle) /\ queue # <<>> /\ NewHandle \in Handle
        /\ queue' = Append(queue, NewHandle)
    BY <1>1, <1>3, Typed
  <2> QED BY <2>1, AppendRange
<1> QED BY <1>1, <1>3, <1>4, <1>5 DEF StartNewTask

LEMMA CallKeepsPool ==
  ASSUME PoolInv, AsyncCall
  PROVE  PoolInv'
<1>1. CASE Running'
  <2>1. /\ len \in Nat /\ len' \in Nat /\ len <= len' /\ len' \in Handle
        /\ 0 \in 0 .. len' /\ 0 .. len \subseteq 0 .. len' /\ 1 .. len \subseteq 1 .. len'
        /\ NewHandle \in 0 .. len'
    <3>1. len' \in Handle /\ len <= len' /\ NewHandle \in 1 .. len'
      BY <1>1, CallEffect
    <3>2. len \in Nat /\ len' \in Nat
      BY <3>1, Typed, PoolBounds DEF Handle
    <3> QED BY <3>1, <3>2
  <2>2. LinksInside'
    BY <1>1, <2>1, CallEffect DEF PoolInv, LinksInside
  <2>3. free_task' \in 0 .. len'
    <3>1. free_task # 0 => free_task \in Handle
      BY <1>1, CallEffect DEF NewHandle
    <3> QED BY <1>1, <2>1, <3>1, CallEffect DEF PoolInv, LinksInside
  <2>4. PoolTypeOK'
    <3>1. cur' \in 1 .. len'
      BY <1>1, <2>1, CallEffect, Typed DEF Issued
    <3>2. \A h \in Handle : h > len' => tasks'[h] = Unused
      BY <1>1, CallEffect DEF PoolInv, TypeOK, PoolTypeOK
    <3> QED BY <1>1, <2>1, <2>3, <3>1, <3>2, CallEffect DEF PoolTypeOK
  <2>5. TypeOK'
    <3>1. /\ frame' \in [Handle -> Frame] /\ occupant' \in [Handle -> Coroutine \cup {NULL}]
      <4>1. frame' = [frame EXCEPT ![NewHandle] = UserFrame]
            /\ \E c \in Coroutine \ Remembered : occupant' = [occupant EXCEPT ![NewHandle] = c]
        BY <1>1, CallEffect
      <4> QED BY <4>1, Typed, Frames
    <3>2. cur \in 0 .. MaxTasks
      BY Typed, PoolAssumption DEF Handle
    <3>3. owner' \in [Handle -> 0 .. MaxTasks]
      BY <1>1, <3>2, CallEffect, Typed, ZenonT(30)
    <3> QED BY <1>1, <2>4, <3>1, <3>3, CallEffect, Typed DEF TypeOK
  <2>6. QueueOK' /\ Range(queue') \subseteq Issued'
    <3>1. Main \in Range(queue') /\ (Running => Head(queue') = cur')
      BY <1>1, CallEffect, Typed DEF PoolInv, QueueOK
    <3>2. Range(queue') \subseteq 1 .. len'
      BY <1>1, <2>1, CallEffect, Typed DEF Issued
    <3> QED BY <1>1, <3>1, <3>2, CallEffect DEF QueueOK, InUser, Issued
  <2> QED BY <2>2, <2>5, <2>6 DEF PoolInv
<1>2. CASE ~ Running'
  <2>1. Ends("slot_not_FREE")
    BY <1>2 DEF AsyncCall, Running, InUser
  <2> QED BY <2>1, PoolInvKept DEF Ends, Running, Abort, AsyncCall, InUser
<1> QED BY <1>1, <1>2

(* async_free, async_orphan *)
LEMMA FreeEffect ==
  ASSUME PoolInv, NEW h \in Issued, AsyncFree(h)
  PROVE  /\ h \in Handle /\ InUser /\ MayFree(h)
         /\ tasks' \in [Handle -> Task]
         /\ tasks'[h].state = "FREE" /\ tasks'[h].handle = free_task
         /\ \A g \in Handle \ {h} : tasks'[g] = tasks[g]
         /\ free_task' = h
         /\ occupant' = [occupant EXCEPT ![h] = NULL]
         /\ UNCHANGED <<len, cur, queue, frame, owner, process>>
<1>1. h \in Handle
  BY Typed
<1> QED BY <1>1, Typed, FreedFacts DEF AsyncFree

LEMMA FreeKeepsPool ==
  ASSUME PoolInv, NEW h \in Issued, AsyncFree(h)
  PROVE  PoolInv'
<1>1. LinksInside'
  BY FreeEffect, Typed DEF PoolInv, LinksInside
<1>2. PoolTypeOK'
  <2>1. \A g \in Handle : g > len => g # h
    BY Typed, PoolBounds DEF Issued
  <2> QED BY <2>1, FreeEffect, Typed DEF PoolInv, TypeOK, PoolTypeOK, Issued
<1>3. TypeOK' /\ QueueOK' /\ Range(queue') \subseteq Issued'
  BY <1>2, FreeEffect, Typed DEF PoolInv, TypeOK, QueueOK, Issued, Running
<1> QED BY <1>1, <1>3 DEF PoolInv

LEMMA OrphanEffect ==
  ASSUME PoolInv, NEW h \in Issued, AsyncOrphan(h)
  PROVE  /\ h \in Handle /\ InUser /\ MayOrphan(h)
         /\ tasks' \in [Handle -> Task]
         /\ \A g \in Handle : /\ tasks'[g].state = tasks[g].state
                              /\ tasks'[g].handle = tasks[g].handle
                              /\ tasks'[g].data = tasks[g].data
                              /\ g # h => tasks'[g] = tasks[g]
         /\ UNCHANGED <<len, free_task, cur, queue, frame, occupant, owner, process>>
<1>1. h \in Handle
  BY Typed
<1> QED BY <1>1, Typed DEF AsyncOrphan, Task

LEMMA OrphanKeepsPool ==
  ASSUME PoolInv, NEW h \in Issued, AsyncOrphan(h)
  PROVE  PoolInv'
<1>1. LinksInside'
  BY OrphanEffect DEF PoolInv, LinksInside
<1>2. PoolTypeOK'
  <2>1. \A g \in Handle : g > len => g # h
    BY Typed, PoolBounds DEF Issued
  <2> QED BY <2>1, OrphanEffect, Typed DEF PoolInv, TypeOK, PoolTypeOK, Issued
<1>3. TypeOK' /\ QueueOK' /\ Range(queue') \subseteq Issued'
  BY <1>2, OrphanEffect, Typed DEF PoolInv, TypeOK, QueueOK, Issued, Running
<1> QED BY <1>1, <1>3 DEF PoolInv

------------------------------------------------------------------------------
(* async_return, when it does not abort: the caller leaves the queue. *)
LEMMA ReturnEffect ==
  ASSUME PoolInv, AsyncReturn, Running'
  PROVE  /\ InUser /\ cur # Main
         /\ queue' = Tail(queue) /\ queue' \in Seq(Handle) /\ queue' # <<>>
         /\ Range(queue') \subseteq Range(queue)
         /\ Range(queue) \ {cur} \subseteq Range(queue')
         /\ Head(queue') = cur' /\ cur' \in Range(queue') /\ cur' # cur
         /\ tasks'[cur'].state = "RUNNING"
         /\ free_task' = IF tasks[cur].orphaned THEN cur ELSE free_task
         /\ occupant' = IF tasks[cur].orphaned THEN [occupant EXCEPT ![cur] = NULL]
                        ELSE occupant
         /\ owner' = [h \in Handle |-> IF owner[h] = cur THEN 0 ELSE owner[h]]
         /\ UNCHANGED <<len, frame, process>>
         /\ tasks' \in [Handle -> Task]
         /\ tasks'[cur].state = IF tasks[cur].orphaned THEN "FREE" ELSE "READY"
         /\ tasks'[cur].handle = IF tasks[cur].orphaned THEN free_task ELSE tasks[cur].handle
         /\ tasks'[cur].orphaned = tasks[cur].orphaned
         /\ tasks'[cur].data = occupant[cur]
         /\ \A h \in Handle \ {cur} :
              /\ h \notin Range(queue) => tasks'[h] = tasks[h]
              /\ tasks'[h].handle = tasks[h].handle
              /\ tasks'[h].orphaned = tasks[h].orphaned
              /\ tasks'[h].data = tasks[h].data
              /\ tasks'[h].state = "FREE" <=> tasks[h].state = "FREE"
              /\ tasks'[h].state = "READY" <=> tasks[h].state = "READY"
              /\ Live(h)' <=> Live(h)
<1> DEFINE orphan == tasks[cur].orphaned
           fs == Finished(tasks)
           ended == IF orphan THEN Freed(fs, cur) ELSE fs
           to == Head(Tail(queue))
<1>1. /\ InUser /\ cur # Main /\ Running /\ CanRun(ended, to)
      /\ queue' = Tail(queue) /\ cur' = to /\ tasks' = Switched(ended, to)
      /\ free_task' = IF orphan THEN cur ELSE free_task
      /\ occupant' = IF orphan THEN [occupant EXCEPT ![cur] = NULL] ELSE occupant
      /\ owner' = [h \in Handle |-> IF owner[h] = cur THEN 0 ELSE owner[h]]
      /\ UNCHANGED <<len, frame, process>>
  BY DEF AsyncReturn, Refused, Ends, Running, Popped, InUser
<1>2. cur = Head(queue)
  BY <1>1 DEF PoolInv, QueueOK
<1>3. /\ Tail(queue) \in Seq(Handle) /\ Range(Tail(queue)) \subseteq Range(queue)
      /\ Range(queue) \ {cur} \subseteq Range(Tail(queue))
  BY <1>2, Typed, TailRange
<1>4. Tail(queue) # <<>>
  <2>1. Main \in Range(Tail(queue))
    BY <1>1, <1>3, Typed
  <2> QED BY <2>1, EmptySeq DEF Range
<1>5. to \in Range(Tail(queue)) /\ to \in Handle
  BY <1>3, <1>4, NonEmpty
<1> HIDE DEF to
<1>6. /\ fs \in [Handle -> Task]
      /\ \A h \in Handle \ {cur} : fs[h] = tasks[h]
      /\ fs[cur].state = "READY" /\ fs[cur].data = occupant[cur]
      /\ fs[cur].handle = tasks[cur].handle /\ fs[cur].orphaned = orphan
  BY Typed, ZenonT(30) DEF Finished, Task, State
<1> HIDE DEF fs
<1>7. /\ Freed(fs, cur) \in [Handle -> Task]
      /\ \A h \in Handle \ {cur} : Freed(fs, cur)[h] = fs[h]
      /\ Freed(fs, cur)[cur].state = "FREE"
      /\ Freed(fs, cur)[cur].handle = free_task
  BY <1>6, Typed, FreedFacts
<1>8. Freed(fs, cur)[cur].data = fs[cur].data /\ Freed(fs, cur)[cur].orphaned = fs[cur].orphaned
  BY <1>6, Typed DEF Freed, Task
<1>9. /\ ended \in [Handle -> Task]
      /\ \A h \in Handle \ {cur} : ended[h] = tasks[h]
      /\ ended[cur].state = IF orphan THEN "FREE" ELSE "READY"
      /\ ended[cur].handle = IF orphan THEN free_task ELSE tasks[cur].handle
      /\ ended[cur].data = occupant[cur] /\ ended[cur].orphaned = orphan
  BY <1>6, <1>7, <1>8
<1> HIDE DEF ended
<1>13. to # cur
  <2>1. ended[to].state \notin {"FREE", "READY"}
    BY <1>1 DEF CanRun
  <2> QED BY <2>1, <1>9
<1>10. /\ tasks' \in [Handle -> Task]
       /\ tasks'[to].state = IF ended[to].state = "INIT" THEN "RUNNING" ELSE ended[to].state
       /\ \A h \in Handle :
            /\ h # to => tasks'[h] = ended[h]
            /\ tasks'[h].handle = ended[h].handle
            /\ tasks'[h].orphaned = ended[h].orphaned
            /\ tasks'[h].data = ended[h].data
            /\ tasks'[h].state = ended[h].state
                 \/ (ended[h].state = "INIT" /\ tasks'[h].state = "RUNNING")
  BY <1>1, <1>5, <1>9, SwitchedFacts
<1>11. \A h \in Handle \ {cur} :
         /\ h \notin Range(queue) => tasks'[h] = tasks[h]
         /\ tasks'[h].handle = tasks[h].handle
         /\ tasks'[h].orphaned = tasks[h].orphaned
         /\ tasks'[h].data = tasks[h].data
         /\ tasks'[h].state = "FREE" <=> tasks[h].state = "FREE"
         /\ tasks'[h].state = "READY" <=> tasks[h].state = "READY"
         /\ Live(h)' <=> Live(h)
  BY <1>3, <1>5, <1>9, <1>10 DEF Live
<1>12. tasks'[cur] = ended[cur]
  BY <1>10, <1>13, Typed
<1>14. tasks'[to].state = "RUNNING"
  <2>1. ended[to] \in Task
    BY <1>5, <1>9
  <2> QED BY <2>1, <1>1, <1>10 DEF CanRun, Task, State
<1> QED BY <1>1, <1>3, <1>4, <1>5, <1>9, <1>10, <1>11, <1>12, <1>13, <1>14 DEF to

LEMMA ReturnKeepsPool ==
  ASSUME PoolInv, AsyncReturn
  PROVE  PoolInv'
<1>1. CASE Running'
  <2>1. LinksInside'
    <3>1. /\ len' = len /\ cur \in Handle
          /\ tasks'[cur].handle = IF tasks[cur].orphaned THEN free_task ELSE tasks[cur].handle
          /\ \A h \in Handle \ {cur} : tasks'[h].handle = tasks[h].handle
      BY <1>1, ReturnEffect, Typed
    <3>2. free_task \in 0 .. len /\ \A h \in Handle : tasks[h].handle \in 0 .. len
      BY Typed DEF PoolInv, LinksInside
    <3>3. ASSUME NEW h \in Handle PROVE tasks'[h].handle \in 0 .. len'
      BY <3>1, <3>2
    <3> QED BY <3>3 DEF LinksInside
  <2>2. PoolTypeOK'
    <3>1. \A h \in Handle : h > len => h \notin Range(queue) /\ h # cur
      BY Typed, PoolBounds DEF Issued
    <3>2. /\ len' = len /\ cur' \in 1 .. len /\ tasks' \in [Handle -> Task]
          /\ free_task' \in 0 .. len
      BY <1>1, ReturnEffect, Typed DEF Issued
    <3>3. \A h \in Handle : h > len => tasks'[h] = Unused
      BY <1>1, <3>1, ReturnEffect DEF PoolInv, TypeOK, PoolTypeOK
    <3> QED BY <3>2, <3>3, Typed DEF PoolTypeOK
  <2>3. TypeOK'
    <3>1. owner' \in [Handle -> 0 .. MaxTasks]
      <4>1. owner' = [h \in Handle |-> IF owner[h] = cur THEN 0 ELSE owner[h]]
        BY <1>1, ReturnEffect
      <4> QED BY <4>1, Typed
    <3>2. occupant' \in [Handle -> Coroutine \cup {NULL}]
      <4>1. occupant' = IF tasks[cur].orphaned THEN [occupant EXCEPT ![cur] = NULL]
                        ELSE occupant
        BY <1>1, ReturnEffect
      <4> QED BY <4>1, Typed
    <3> QED BY <1>1, <2>2, <3>1, <3>2, ReturnEffect, Typed DEF TypeOK
  <2>4. QueueOK' /\ Range(queue') \subseteq Issued'
    BY <1>1, ReturnEffect, Typed DEF QueueOK, Issued
  <2> QED BY <2>1, <2>3, <2>4 DEF PoolInv
<1>2. CASE ~ Running'
  <2>1. Running /\ \E ts, h : Refused(ts, h)
    BY <1>2 DEF AsyncReturn, Running, InUser
  <2> QED BY <2>1, RefusedKeepsPool
<1> QED BY <1>1, <1>2

LEMMA EndsKeepsPool ==
  ASSUME PoolInv, Running, NEW how \in {"exited", "trap"}, Ends(how)
  PROVE  PoolInv'
BY PoolInvKept DEF Ends, Running

LEMMA InitPool == Init => PoolInv
<1> SUFFICES ASSUME Init PROVE PoolInv
  OBVIOUS
<1>0. /\ MaxTasks \in Nat /\ Main \in Handle /\ Main = 1 /\ Main # 0 /\ Main \in 0 .. MaxTasks
      /\ 0 \in 0 .. MaxTasks
  BY PoolAssumption DEF Handle, Main
<1> DEFINE started == [Unused EXCEPT !.state = "RUNNING", !.handle = Main]
<1>1. /\ tasks = [h \in Handle |-> IF h = Main THEN started ELSE Unused]
      /\ len = 1 /\ free_task = 0 /\ cur = Main /\ queue = <<Main>>
      /\ frame = [h \in Handle |-> UserFrame]
      /\ owner = [h \in Handle |-> 0]
      /\ process = "running"
  BY DEF Init
<1>2. occupant \in [Handle -> Coroutine \cup {NULL}]
  BY <1>0 DEF Init
<1>3. /\ Unused \in Task /\ Unused.handle = 0
      /\ started \in Task /\ started.handle = Main
  BY <1>0 DEF Unused, Task, State
<1> HIDE DEF started
<1>4. tasks \in [Handle -> Task]
  BY <1>1, <1>3
<1>5. /\ queue \in Seq(Handle) /\ Head(queue) = Main
      /\ DOMAIN queue = {1} /\ queue[1] = Main /\ Range(queue) = {Main}
  BY <1>0, <1>1 DEF Range
<1>6. PoolTypeOK
  <2>1. \A h \in Handle : h > len => h # Main
    BY <1>0, <1>1
  <2> QED BY <2>1, <1>0, <1>1, <1>4 DEF PoolTypeOK
<1>7. TypeOK
  BY <1>0, <1>1, <1>2, <1>5, <1>6, Frames DEF TypeOK
<1>8. LinksInside
  <2>1. 0 \in 0 .. len /\ Main \in 0 .. len
    BY <1>0, <1>1
  <2> QED BY <2>1, <1>1, <1>3 DEF LinksInside
<1>9. Range(queue) \subseteq Issued
  BY <1>0, <1>1, <1>5 DEF Issued
<1>10. QueueOK
  BY <1>1, <1>5 DEF QueueOK
<1> QED BY <1>7, <1>8, <1>9, <1>10 DEF PoolInv

LEMMA NextPool == PoolInv /\ [Next]_vars => PoolInv'
<1> SUFFICES ASSUME PoolInv, [Next]_vars PROVE PoolInv'
  OBVIOUS
<1>1. CASE AsyncCall
  BY <1>1, CallKeepsPool
<1>2. CASE AsyncSkip
  BY <1>2, Frames, SkipKeepsPool DEF AsyncSkip, InUser
<1>3. CASE AsyncReturn
  BY <1>3, ReturnKeepsPool
<1>4. CASE MainReturns
  BY <1>4, EndsKeepsPool DEF MainReturns, InUser
<1>5. CASE PollAgain
  <2>1. frame[cur] \in Frame
    BY Typed
  <2> QED BY <2>1, <1>5, PollOnceKeepsPool DEF PollAgain
<1>6. CASE FallsOff
  BY <1>6, EndsKeepsPool DEF FallsOff, InUser
<1>7. CASE Ended \/ UNCHANGED vars
  BY <1>7, PoolInvKept, Typed DEF Ended, vars, Running
<1>8. ASSUME NEW h \in Issued, AsyncFree(h) PROVE PoolInv'
  BY <1>8, FreeKeepsPool
<1>9. ASSUME NEW h \in Issued, AsyncOrphan(h) PROVE PoolInv'
  BY <1>9, OrphanKeepsPool
<1>10. ASSUME NEW at \in {"any", "all"}, NEW hs \in HandleLists, Range(hs) \subseteq Issued,
              Await(at, hs)
       PROVE  PoolInv'
  BY <1>10, Frames, PollOnceKeepsPool DEF Await, InUser
<1> QED BY <1>1, <1>2, <1>3, <1>4, <1>5, <1>6, <1>7, <1>8, <1>9, <1>10 DEF Next

(* Every variable keeps its type, and whatever calls the coroutines make, though a
   coroutine may be freed while it is in the queue of queue_scheduler.c and its
   handle queued again, main never leaves the queue, and its front, which every
   function of the API takes for the caller, is the coroutine whose stack is in
   use. *)
THEOREM QueueConsistent == Spec => [](TypeOK /\ QueueOK)
<1>1. Init => PoolInv
  BY InitPool
<1>2. PoolInv /\ [Next]_vars => PoolInv'
  BY NextPool
<1>3. PoolInv => TypeOK /\ QueueOK
  BY DEF PoolInv
<1> QED BY <1>1, <1>2, <1>3, PTL DEF Spec

------------------------------------------------------------------------------
(* With the rule freeDone no coroutine is freed while it is in the queue. *)
LEMMA CarefulFacts ==
  ASSUME CarefulInv
  PROVE  /\ PoolInv /\ FreeChain
         /\ \A h \in Handle : h \in Range(queue) <=> Live(h)
         /\ IsInjective(queue)
         /\ Running => tasks[cur].state = "RUNNING"
         /\ free_task # 0 => tasks[free_task].state = "FREE" /\ free_task \in Handle
                             /\ free_task \notin Range(queue)
<1>1. free_task # 0 => tasks[free_task].state = "FREE"
  BY HeadIsFree DEF CarefulInv
<1>2. free_task # 0 => free_task \in Handle
  <2>1. len \in Nat /\ MaxTasks \in Nat /\ len <= MaxTasks
    BY Typed, PoolBounds DEF CarefulInv
  <2> QED BY <2>1, Typed DEF CarefulInv, Handle
<1> QED BY <1>1, <1>2 DEF CarefulInv, CallerRuns, Live

(* A step that changes neither who is in the queue nor who is free. *)
LEMMA CarefulStable ==
  ASSUME CarefulInv, PoolInv', Range(queue') = Range(queue), IsInjective(queue'),
         CallerRuns',
         process' \notin Abort, UNCHANGED <<len, free_task>>,
         \A h \in Handle : /\ Live(h)' <=> Live(h)
                           /\ tasks'[h].state = "FREE" <=> tasks[h].state = "FREE"
                           /\ tasks'[h].handle = tasks[h].handle
  PROVE  CarefulInv'
<1>1. FreeChain'
  BY FreeChainStable, Typed DEF CarefulInv
<1> QED BY <1>1 DEF CarefulInv, NoAbort

LEMMA SkipStays ==
  ASSUME CarefulInv, Running, NEW f, Skip(f)
  PROVE  Running' /\ process' = process
<1>1. Head(Rotated) \in Range(queue)
  <2>1. Rotated \in Seq(Handle) /\ Rotated # <<>> /\ Range(Rotated) = Range(queue)
    BY CarefulFacts, Typed, RotateRange DEF Rotated
  <2> QED BY <2>1, NonEmpty
<1>2. CanRun(tasks, Head(Rotated))
  BY <1>1, CarefulFacts, Typed DEF CanRun, Live
<1> QED BY <1>2 DEF Skip, Running

(* The caller continues where it stopped. *)
LEMMA SkipFrame ==
  ASSUME CarefulInv, Running, NEW f, Skip(f), Running'
  PROVE  frame' = [frame EXCEPT ![cur] = f]
<1>1. frame' = [frame EXCEPT ![cur] = IF cur' = cur THEN f ELSE Suspended(f)]
  BY SkipEffect, CarefulFacts
<1>2. Suspended(f) = f
  BY CarefulFacts DEF Suspended
<1> QED BY <1>1, <1>2

LEMMA SkipKeepsCareful ==
  ASSUME CarefulInv, Running, NEW f \in Frame, Skip(f)
  PROVE  CarefulInv'
<1>1. PoolInv /\ Running' /\ process' \notin Abort
  BY SkipStays DEF CarefulInv, NoAbort
<1>2. PoolInv'
  BY <1>1, SkipKeepsPool
<1>3. /\ Range(queue') = Range(queue) /\ UNCHANGED <<len, free_task>>
      /\ \A h \in Handle : /\ Live(h)' <=> Live(h)
                           /\ tasks'[h].state = "FREE" <=> tasks[h].state = "FREE"
                           /\ tasks'[h].handle = tasks[h].handle
  BY <1>1, SkipEffect
<1>4. IsInjective(queue')
  <2>1. queue' = Rotated /\ queue \in Seq(Handle) /\ queue # <<>> /\ IsInjective(queue)
    BY <1>1, SkipEffect, Typed, CarefulFacts
  <2> QED BY <2>1, RotateDistinct DEF Rotated
<1>5. CallerRuns'
  BY <1>1, SkipEffect, CarefulFacts, Typed DEF CallerRuns
<1> QED BY <1>1, <1>2, <1>3, <1>4, <1>5, CarefulStable

LEMMA PollOnceKeepsCareful ==
  ASSUME CarefulInv, Running, NEW f \in Frame, PollOnce(f)
  PROVE  CarefulInv'
<1>1. CASE Skip(f)
  BY <1>1, SkipKeepsCareful
<1>2. CASE UNCHANGED <<poolVars, queue, occupant, owner, process>>
  <2>1. PoolInv'
    BY PollOnceKeepsPool DEF CarefulInv
  <2> QED BY <1>2, <2>1, CarefulStable DEF poolVars, CarefulInv, CallerRuns, Running, NoAbort,
                                           Live
<1> QED BY <1>1, <1>2 DEF PollOnce

LEMMA CallKeepsCareful ==
  ASSUME CarefulInv, AsyncCall
  PROVE  CarefulInv' /\ Running'
<1>1. PoolInv /\ PoolInv'
  BY CallKeepsPool DEF CarefulInv
<1>2. Running'
  <2>1. ~ (free_task # 0 /\ tasks[free_task].state # "FREE")
    BY CarefulFacts
  <2> QED BY <2>1 DEF AsyncCall, InUser, Running
<1>3. FreeChain'
  <2>1. PoolTypeOK /\ FreeChain /\ StartNewTask
    BY <1>1, <1>2, CallEffect DEF CarefulInv, PoolInv, TypeOK
  <2> QED BY <2>1, FreeChainPopped
<1>4. ASSUME NEW h \in Handle PROVE (h \in Range(queue) <=> Live(h))'
  <2>1. /\ Range(queue') = Range(queue) \cup {NewHandle}
        /\ tasks'[NewHandle].state = "INIT"
        /\ h # NewHandle => tasks'[h] = tasks[h]
    BY <1>1, <1>2, CallEffect
  <2> QED BY <2>1, CarefulFacts DEF Live
<1>5. NoAbort'
  BY <1>1, <1>2, CallEffect DEF CarefulInv, NoAbort
<1>6. /\ NewHandle \in Handle /\ tasks[NewHandle].state = "FREE" /\ cur' = cur
      /\ queue' = Append(queue, NewHandle)
      /\ \A h \in Handle : h # NewHandle => tasks'[h] = tasks[h]
  BY <1>1, <1>2, CallEffect DEF Registered
<1>7. IsInjective(queue')
  <2>1. NewHandle \notin Range(queue)
    BY <1>6, CarefulFacts DEF Live
  <2> QED BY <2>1, <1>1, <1>6, Typed, CarefulFacts, AppendDistinct
<1>8. CallerRuns'
  <2>1. Running /\ tasks[cur].state = "RUNNING" /\ cur \in Handle
    BY <1>1, CarefulFacts, Typed DEF AsyncCall, InUser
  <2> QED BY <2>1, <1>6 DEF CallerRuns
<1> QED BY <1>1, <1>2, <1>3, <1>4, <1>5, <1>7, <1>8 DEF CarefulInv

LEMMA FreeKeepsCareful ==
  ASSUME "freeDone" \in Contract, CarefulInv, NEW h \in Issued, AsyncFree(h)
  PROVE  CarefulInv' /\ IsReady(h) /\ ~ Polled(h)
<1>1. PoolInv /\ PoolInv'
  BY FreeKeepsPool DEF CarefulInv
<1>2. IsReady(h) /\ ~ Polled(h)
  BY DEF AsyncFree, MayFree, Follows, IsReady
<1>3. /\ h \in Handle /\ UNCHANGED <<len, queue, process>>
      /\ tasks'[h].state = "FREE" /\ tasks'[h].handle = free_task /\ free_task' = h
      /\ \A g \in Handle \ {h} : tasks'[g] = tasks[g]
  BY <1>1, FreeEffect
<1>4. \A g \in Handle : (g \in Range(queue) <=> Live(g))'
  BY <1>2, <1>3, CarefulFacts DEF Live, IsReady
<1>5. FreeChain'
  <2>1. h \in 1 .. len /\ len \in Handle /\ FreeChain
    BY <1>1, CarefulFacts, Typed DEF Issued
  <2> QED BY <2>1, <1>2, <1>3, FreeChainPushed DEF IsReady
<1>6. CallerRuns'
  <2>1. Running /\ tasks[cur].state = "RUNNING" /\ cur \in Handle /\ cur' = cur
    BY <1>1, CarefulFacts, Typed, FreeEffect DEF InUser
  <2> QED BY <2>1, <1>2, <1>3 DEF CallerRuns, IsReady
<1>7. IsInjective(queue')
  BY <1>3, CarefulFacts
<1> QED BY <1>1, <1>2, <1>3, <1>4, <1>5, <1>6, <1>7 DEF CarefulInv, NoAbort

LEMMA OrphanKeepsCareful ==
  ASSUME CarefulInv, NEW h \in Issued, AsyncOrphan(h)
  PROVE  CarefulInv'
<1>1. PoolInv /\ PoolInv'
  BY OrphanKeepsPool DEF CarefulInv
<1>2. CallerRuns'
  BY <1>1, OrphanEffect, CarefulFacts, Typed DEF CallerRuns, Running
<1> QED BY <1>1, <1>2, OrphanEffect, CarefulStable DEF CarefulInv, NoAbort, Live

LEMMA ReturnKeepsCareful ==
  ASSUME CarefulInv, AsyncReturn
  PROVE  CarefulInv' /\ Running'
<1>1. PoolInv /\ PoolInv' /\ Running
  BY ReturnKeepsPool DEF CarefulInv, AsyncReturn, InUser
<1>2. Running'
  <2>1. cur = Head(queue) /\ cur # Main
    BY <1>1 DEF PoolInv, QueueOK, AsyncReturn
  <2>2. /\ Tail(queue) \in Seq(Handle) /\ Range(Tail(queue)) = Range(queue) \ {cur}
    BY <1>1, <2>1, Typed, CarefulFacts, TailDistinct
  <2>3. Tail(queue) # <<>>
    <3>1. Main \in Range(Tail(queue))
      BY <1>1, <2>1, <2>2, Typed
    <3> QED BY <3>1, EmptySeq DEF Range
  <2> DEFINE to == Head(Popped(queue))
             ended == IF tasks[cur].orphaned THEN Freed(Finished(tasks), cur) ELSE Finished(tasks)
  <2>4. to \in Range(queue) \ {cur}
    BY <2>2, <2>3, NonEmpty DEF Popped
  <2>5. to \in Handle /\ Live(to) /\ ended[to] = tasks[to]
    BY <1>1, <2>4, CarefulFacts, Typed DEF Finished, Freed
  <2>6. CanRun(ended, to)
    BY <2>5 DEF CanRun, Live
  <2> QED BY <1>1, <2>6 DEF AsyncReturn, Running
<1>3. /\ Range(queue') = Range(queue) \ {cur} /\ IsInjective(queue')
      /\ UNCHANGED <<len, process>>
      /\ tasks'[cur].state = IF tasks[cur].orphaned THEN "FREE" ELSE "READY"
      /\ \A h \in Handle \ {cur} : /\ Live(h)' <=> Live(h)
                                   /\ tasks'[h].state = "FREE" <=> tasks[h].state = "FREE"
                                   /\ tasks'[h].handle = tasks[h].handle
  <2>1. queue' = Tail(queue) /\ cur = Head(queue)
    BY <1>1, <1>2, ReturnEffect DEF PoolInv, QueueOK
  <2>2. Range(queue') = Range(queue) \ {cur} /\ IsInjective(queue')
    BY <1>1, <2>1, Typed, CarefulFacts, TailDistinct
  <2> QED BY <1>1, <1>2, <2>2, ReturnEffect
<1>4. \A h \in Handle : (h \in Range(queue) <=> Live(h))'
  BY <1>3, CarefulFacts DEF Live
<1>5. FreeChain'
  <2>1. FreeChain /\ len \in Handle /\ cur \in 1 .. len /\ cur \in Handle
    BY <1>1, CarefulFacts, Typed DEF Issued
  <2>2. tasks[cur].state # "FREE"
    <3>1. cur \in Range(queue)
      BY <1>1, Typed, NonEmpty DEF PoolInv, QueueOK
    <3> QED BY <2>1, <3>1, CarefulFacts DEF Live
  <2>3. CASE tasks[cur].orphaned
    <3>1. tasks'[cur].state = "FREE" /\ tasks'[cur].handle = free_task /\ free_task' = cur
      BY <1>1, <1>2, <2>3, ReturnEffect
    <3> QED BY <1>3, <2>1, <2>2, <3>1, FreeChainPushed
  <2>4. CASE ~ tasks[cur].orphaned
    <3>1. /\ tasks'[cur].state = "READY" /\ tasks'[cur].handle = tasks[cur].handle
          /\ free_task' = free_task
      BY <1>1, <1>2, <2>4, ReturnEffect
    <3> QED BY <1>3, <2>1, <2>2, <3>1, FreeChainStable
  <2> QED BY <2>3, <2>4
<1>6. CallerRuns'
  BY <1>1, <1>2, ReturnEffect DEF CallerRuns
<1> QED BY <1>1, <1>2, <1>3, <1>4, <1>5, <1>6 DEF CarefulInv, NoAbort

LEMMA EndsKeepsCareful ==
  ASSUME CarefulInv, Running, NEW how \in {"exited", "trap"}, Ends(how)
  PROVE  CarefulInv'
<1>1. PoolInv'
  BY EndsKeepsPool DEF CarefulInv
<1> QED BY <1>1, CarefulFacts, CarefulStable DEF Ends, poolVars, Abort, Live, CallerRuns, Running

LEMMA InitCareful == Init => CarefulInv
<1> SUFFICES ASSUME Init PROVE CarefulInv
  OBVIOUS
<1>1. PoolInv
  BY InitPool
<1>2. /\ \A h \in Handle : tasks[h].state = IF h = Main THEN "RUNNING" ELSE "FREE"
      /\ len = 1 /\ free_task = 0 /\ Main = 1 /\ process = "running"
      /\ queue = <<Main>> /\ Main \in Handle
  BY Typed, PoolAssumption DEF Init, Unused, Main, Handle
<1>3. Range(queue) = {Main} /\ IsInjective(queue)
  BY <1>2 DEF Range, IsInjective
<1>5. CallerRuns
  BY <1>2 DEF CallerRuns, Init
<1>4. FreeChain
  <2>1. FreeSlots = {}
    BY <1>2 DEF FreeSlots
  <2> DEFINE f == [i \in 1 .. 0 |-> Main]
  <2>2. IsFreeList(f, 0)
    BY <2>1, <1>2 DEF IsFreeList
  <2>3. f \in [1 .. 0 -> Handle] /\ 0 \in Nat
    OBVIOUS
  <2> QED BY <2>2, <2>3 DEF FreeChain
<1> QED BY <1>1, <1>2, <1>3, <1>4, <1>5 DEF CarefulInv, NoAbort, Abort, Live

LEMMA NextCareful ==
  ASSUME "freeDone" \in Contract, CarefulInv, [Next]_vars
  PROVE  CarefulInv'
<1>1. CASE AsyncCall
  BY <1>1, CallKeepsCareful
<1>2. CASE AsyncSkip
  BY <1>2, Frames, SkipKeepsCareful DEF AsyncSkip, InUser
<1>3. CASE AsyncReturn
  BY <1>3, ReturnKeepsCareful
<1>4. CASE MainReturns
  BY <1>4, EndsKeepsCareful DEF MainReturns, InUser
<1>5. CASE PollAgain
  <2>1. frame[cur] \in Frame
    BY Typed DEF CarefulInv
  <2> QED BY <2>1, <1>5, PollOnceKeepsCareful DEF PollAgain
<1>6. CASE FallsOff
  BY <1>6, EndsKeepsCareful DEF FallsOff, InUser
<1>7. CASE Ended \/ UNCHANGED vars
  <2>1. UNCHANGED vars
    BY <1>7 DEF Ended
  <2>2. PoolInv'
    BY <2>1, PoolInvKept, Typed DEF vars, CarefulInv, Running
  <2> QED BY <2>1, <2>2, CarefulStable DEF vars, poolVars, CarefulInv, CallerRuns, Running, NoAbort,
                                           Live
<1>8. ASSUME NEW h \in Issued, AsyncFree(h) PROVE CarefulInv'
  BY <1>8, FreeKeepsCareful
<1>9. ASSUME NEW h \in Issued, AsyncOrphan(h) PROVE CarefulInv'
  BY <1>9, OrphanKeepsCareful
<1>10. ASSUME NEW at \in {"any", "all"}, NEW hs \in HandleLists, Range(hs) \subseteq Issued,
              Await(at, hs)
       PROVE  CarefulInv'
  BY <1>10, Frames, PollOnceKeepsCareful DEF Await, InUser, CarefulInv
<1> QED BY <1>1, <1>2, <1>3, <1>4, <1>5, <1>6, <1>7, <1>8, <1>9, <1>10 DEF Next

LEMMA Careful ==
  ASSUME "freeDone" \in Contract
  PROVE  Spec => []CarefulInv
<1>1. Init => CarefulInv
  BY InitCareful
<1>2. CarefulInv /\ [Next]_vars => CarefulInv'
  BY NextCareful
<1> QED BY <1>1, <1>2, PTL DEF Spec

(* Each of the two is a property that a run checks: the types, and, whatever calls
   the coroutines make, the front of the queue is the caller and main in it. *)
THEOREM TypeCorrect == Spec => []TypeOK
BY QueueConsistent, PTL

THEOREM QueueKept == Spec => []QueueOK
BY QueueConsistent, PTL

(* In a program that frees only what has returned and nobody polls, the queue of
   queue_scheduler.c holds exactly the unfinished coroutines and the free list of
   scheduler.c exactly the free slots, though async_free asks the scheduler
   nothing. *)
THEOREM HoldsLive ==
  ASSUME "freeDone" \in Contract
  PROVE  Spec => []QueueHoldsLive
<1>1. CarefulInv => QueueHoldsLive
  BY FreeChainBounded DEF CarefulInv, QueueHoldsLive
<1> QED BY <1>1, Careful, PTL

(* ... and no assertion of start_new_task or async_switch fails. *)
THEOREM NeverAborts ==
  ASSUME "freeDone" \in Contract
  PROVE  Spec => []NoAbort
<1>1. CarefulInv => NoAbort
  BY DEF CarefulInv
<1> QED BY <1>1, Careful, PTL

------------------------------------------------------------------------------
(* With kept, freeDone and orphanLive nobody takes away what another waits for. *)
ResultRules == {"kept", "freeDone", "orphanLive"}

LEMMA ResultFacts ==
  ASSUME ResultInv
  PROVE  CarefulInv /\ PoolInv /\ OccupantsOK /\ WaitsKept /\ ResultsStored
BY DEF ResultInv, CarefulInv

(* What is waited for is a slot of the pool. *)
LEMMA WaitedFor ==
  ASSUME ResultInv, NEW w \in Handle, NEW i \in DOMAIN frame[w].on
  PROVE  /\ frame[w].on[i] \in Handle
         /\ frame[w].at # "user" /\ Live(w) /\ w \in Issued
         /\ Polled(frame[w].on[i])
         /\ frame[w].on[i] \in Range(frame[w].on)
<1>1. frame[w] \in Frame
  BY ResultFacts, Typed
<1>2. PICK n \in 0 .. MaxPoll : frame[w].on \in [1 .. n -> Handle]
  BY <1>1 DEF Frame
<1>3. frame[w].on[i] \in Handle
  BY <1>2
<1>4. frame[w].at # "user"
  <2>1. UserFrame.on = <<>> /\ DOMAIN <<>> = {}
    BY DEF UserFrame
  <2> QED BY <2>1, ResultFacts DEF WaitsKept, WaitKept
<1>5. Live(w)
  BY <1>4, ResultFacts DEF WaitsKept
<1>6. w \in Issued
  BY <1>5, ResultFacts, CarefulFacts, Typed
<1>7. frame[w].on[i] \in Range(frame[w].on)
  BY DEF Range
<1> QED BY <1>3, <1>4, <1>5, <1>6, <1>7 DEF Polled

LEMMA PolledNotFree ==
  ASSUME ResultInv, NEW h \in Handle, Polled(h)
  PROVE  tasks[h].state # "FREE" /\ ~ tasks[h].orphaned
<1>1. PICK w \in Issued : h \in Range(frame[w].on)
  BY DEF Polled
<1>2. PICK i \in DOMAIN frame[w].on : frame[w].on[i] = h
  BY <1>1 DEF Range
<1>3. w \in Handle
  BY ResultFacts, Typed
<1> QED BY <1>2, <1>3, ResultFacts DEF WaitsKept, WaitKept

(* A step that leaves what is waited for in place, and at most one wait ends. *)
LEMMA WaitsStable ==
  ASSUME ResultInv, NEW h \in Handle,
         frame'[h] = UserFrame \/ (Live(h)' /\ frame'[h] = frame[h]),
         \A g \in Handle \ {h} : frame'[g] = frame[g] /\ (Live(g) => Live(g)'),
         \A g \in Handle : Polled(g) =>
           /\ occupant'[g] = occupant[g]
           /\ tasks'[g].state # "FREE"
           /\ tasks'[g].orphaned = tasks[g].orphaned
  PROVE  WaitsKept'
<1> SUFFICES ASSUME NEW w \in Handle
             PROVE  WaitKept(frame[w])' /\ (frame'[w].at # "user" => Live(w)')
  BY DEF WaitsKept
<1>1. CASE frame'[w] = frame[w] /\ (Live(w) => Live(w)')
  <2>1. ASSUME NEW i \in DOMAIN frame[w].on
        PROVE  LET g == frame[w].on[i]
               IN /\ tasks'[g].state # "FREE" /\ ~ tasks'[g].orphaned
                  /\ occupant'[g] = frame[w].ids[i]
    BY <2>1, WaitedFor, ResultFacts DEF WaitsKept, WaitKept
  <2> QED BY <1>1, <2>1, ResultFacts DEF WaitsKept, WaitKept
<1>2. CASE frame'[w] = UserFrame
  BY <1>2 DEF UserFrame, WaitKept
<1> QED BY <1>1, <1>2

LEMMA CallKeepsResult ==
  ASSUME ResultInv, AsyncCall
  PROVE  ResultInv'
<1>1. CarefulInv' /\ Running' /\ PoolInv
  BY CallKeepsCareful, ResultFacts
<1>2. /\ NewHandle \in Handle /\ tasks[NewHandle].state = "FREE"
      /\ tasks'[NewHandle].state = "INIT"
      /\ \A h \in Handle \ {NewHandle} : tasks'[h] = tasks[h]
      /\ frame' = [frame EXCEPT ![NewHandle] = UserFrame]
      /\ \E c \in Coroutine \ Remembered : occupant' = [occupant EXCEPT ![NewHandle] = c]
  BY <1>1, CallEffect
<1>3. PICK c \in Coroutine \ Remembered : occupant' = [occupant EXCEPT ![NewHandle] = c]
  BY <1>2
<1>4. /\ occupant'[NewHandle] = c /\ c # NULL
      /\ \A h \in Handle \ {NewHandle} : occupant'[h] = occupant[h] /\ frame'[h] = frame[h]
      /\ frame'[NewHandle] = UserFrame
      /\ \A h \in Handle : occupant[h] # c
  <2>1. \A h \in Handle : occupant[h] # c
    BY <1>1, Typed DEF Remembered, Range
  <2> QED BY <2>1, <1>1, <1>2, <1>3, Typed, PoolAssumption
<1>5. OccupantsOK'
  BY <1>2, <1>4, ResultFacts DEF OccupantsOK
<1>6. ~ Polled(NewHandle)
  BY <1>2, PolledNotFree
<1>7. WaitsKept'
  <2>1. \A g \in Handle \ {NewHandle} : frame'[g] = frame[g] /\ (Live(g) => Live(g)')
    BY <1>2, <1>4 DEF Live
  <2>2. \A g \in Handle : Polled(g) => /\ occupant'[g] = occupant[g]
                                      /\ tasks'[g].state # "FREE"
                                      /\ tasks'[g].orphaned = tasks[g].orphaned
    BY <1>2, <1>4, <1>6, PolledNotFree
  <2>3. PICK h \in Handle : h = NewHandle
    BY <1>2
  <2>4. /\ frame'[h] = UserFrame
        /\ \A g \in Handle \ {h} : frame'[g] = frame[g] /\ (Live(g) => Live(g)')
    BY <1>4, <2>1, <2>3
  <2> QED BY <2>2, <2>4, WaitsStable
<1>8. ResultsStored'
  BY <1>2, <1>4, ResultFacts DEF ResultsStored, IsReady
<1> QED BY <1>1, <1>5, <1>7, <1>8 DEF ResultInv

LEMMA FreeKeepsResult ==
  ASSUME "freeDone" \in Contract, ResultInv, NEW h \in Issued, AsyncFree(h)
  PROVE  ResultInv'
<1>1. CarefulInv' /\ PoolInv /\ IsReady(h) /\ ~ Polled(h)
  BY FreeKeepsCareful, ResultFacts
<1>2. /\ h \in Handle /\ tasks'[h].state = "FREE" /\ frame' = frame
      /\ occupant' = [occupant EXCEPT ![h] = NULL]
      /\ \A g \in Handle \ {h} : tasks'[g] = tasks[g]
  BY <1>1, FreeEffect
<1>3. occupant'[h] = NULL /\ \A g \in Handle \ {h} : occupant'[g] = occupant[g]
  BY <1>1, <1>2, Typed
<1>4. OccupantsOK'
  BY <1>2, <1>3, ResultFacts DEF OccupantsOK
<1>5. frame[h] = UserFrame
  <2>1. ~ Live(h)
    BY <1>1 DEF Live, IsReady
  <2> QED BY <1>2, <2>1, ResultFacts DEF WaitsKept, WaitKept
<1>6. WaitsKept'
  <2>1. \A g \in Handle \ {h} : frame'[g] = frame[g] /\ (Live(g) => Live(g)')
    BY <1>2 DEF Live
  <2>2. \A g \in Handle : Polled(g) => /\ occupant'[g] = occupant[g]
                                      /\ tasks'[g].state # "FREE"
                                      /\ tasks'[g].orphaned = tasks[g].orphaned
    BY <1>1, <1>2, <1>3, PolledNotFree
  <2> QED BY <1>2, <1>5, <2>1, <2>2, WaitsStable
<1>7. ResultsStored'
  BY <1>2, <1>3, ResultFacts DEF ResultsStored, IsReady
<1> QED BY <1>1, <1>4, <1>6, <1>7 DEF ResultInv

LEMMA OrphanKeepsResult ==
  ASSUME "orphanLive" \in Contract, ResultInv, NEW h \in Issued, AsyncOrphan(h)
  PROVE  ResultInv'
<1>1. CarefulInv' /\ PoolInv
  BY OrphanKeepsCareful, ResultFacts
<1>2. /\ h \in Handle /\ MayOrphan(h) /\ UNCHANGED <<frame, occupant>>
      /\ \A g \in Handle : /\ tasks'[g].state = tasks[g].state
                           /\ tasks'[g].data = tasks[g].data
                           /\ g # h => tasks'[g] = tasks[g]
  BY <1>1, OrphanEffect
<1>3. Live(h) /\ ~ Polled(h)
  BY <1>2 DEF MayOrphan, Follows
<1>4. OccupantsOK' /\ ResultsStored'
  BY <1>2, ResultFacts DEF OccupantsOK, ResultsStored, IsReady
<1>5. WaitsKept'
  <2>1. \A g \in Handle : frame'[g] = frame[g] /\ (Live(g) <=> Live(g)')
    BY <1>2 DEF Live
  <2>2. \A g \in Handle : Polled(g) => /\ occupant'[g] = occupant[g]
                                      /\ tasks'[g].state # "FREE"
                                      /\ tasks'[g].orphaned = tasks[g].orphaned
    BY <1>2, <1>3, PolledNotFree
  <2> QED BY <1>2, <1>3, <2>1, <2>2, WaitsStable
<1> QED BY <1>1, <1>4, <1>5 DEF ResultInv

LEMMA ReturnKeepsResult ==
  ASSUME ResultInv, AsyncReturn
  PROVE  ResultInv'
<1>1. CarefulInv' /\ Running' /\ PoolInv
  BY ReturnKeepsCareful, ResultFacts
<1>2. /\ InUser /\ frame' = frame
      /\ occupant' = IF tasks[cur].orphaned THEN [occupant EXCEPT ![cur] = NULL]
                     ELSE occupant
      /\ tasks'[cur].state = IF tasks[cur].orphaned THEN "FREE" ELSE "READY"
      /\ tasks'[cur].orphaned = tasks[cur].orphaned
      /\ tasks'[cur].data = occupant[cur]
      /\ \A h \in Handle \ {cur} :
           /\ tasks'[h].orphaned = tasks[h].orphaned
           /\ tasks'[h].data = tasks[h].data
           /\ tasks'[h].state = "FREE" <=> tasks[h].state = "FREE"
           /\ tasks'[h].state = "READY" <=> tasks[h].state = "READY"
           /\ Live(h)' <=> Live(h)
  BY <1>1, ReturnEffect
<1>3. /\ cur \in Handle
      /\ occupant'[cur] = IF tasks[cur].orphaned THEN NULL ELSE occupant[cur]
      /\ \A h \in Handle \ {cur} : occupant'[h] = occupant[h]
  BY <1>1, <1>2, Typed
<1>4. Live(cur)
  <2>1. cur \in Range(queue)
    BY <1>1, <1>2, Typed, NonEmpty DEF PoolInv, QueueOK, InUser
  <2> QED BY <1>3, <2>1, ResultFacts, CarefulFacts
<1>5. OccupantsOK'
  BY <1>2, <1>3, <1>4, ResultFacts DEF OccupantsOK, Live
<1>6. WaitsKept'
  <2>1. frame'[cur] = UserFrame
    BY <1>2, <1>3, ResultFacts DEF InUser, WaitsKept, WaitKept
  <2>2. \A g \in Handle \ {cur} : frame'[g] = frame[g] /\ (Live(g) => Live(g)')
    BY <1>2
  <2>3. \A g \in Handle : Polled(g) => /\ occupant'[g] = occupant[g]
                                      /\ tasks'[g].state # "FREE"
                                      /\ tasks'[g].orphaned = tasks[g].orphaned
    BY <1>2, <1>3, PolledNotFree
  <2>4. PICK h \in Handle : h = cur
    BY <1>3
  <2>5. /\ frame'[h] = UserFrame
        /\ \A g \in Handle \ {h} : frame'[g] = frame[g] /\ (Live(g) => Live(g)')
    BY <2>1, <2>2, <2>4
  <2> QED BY <2>3, <2>5, WaitsStable
<1>7. ResultsStored'
  BY <1>2, <1>3, ResultFacts DEF ResultsStored, IsReady
<1> QED BY <1>1, <1>5, <1>6, <1>7 DEF ResultInv

LEMMA SkipKeepsResult ==
  ASSUME ResultInv, Running, NEW f \in Frame, WaitKept(f), Skip(f)
  PROVE  ResultInv'
<1>1. CarefulInv' /\ Running' /\ PoolInv
  BY SkipKeepsCareful, SkipStays, ResultFacts
<1>2. frame' = [frame EXCEPT ![cur] = f] /\ occupant' = occupant
  BY <1>1, SkipEffect, SkipFrame, ResultFacts
<1>3. \A h \in Handle :
        /\ tasks'[h].orphaned = tasks[h].orphaned
        /\ tasks'[h].data = tasks[h].data
        /\ tasks'[h].state = "FREE" <=> tasks[h].state = "FREE"
        /\ tasks'[h].state = "READY" <=> tasks[h].state = "READY"
        /\ Live(h)' <=> Live(h)
  BY <1>1, SkipEffect
<1>4. OccupantsOK' /\ ResultsStored'
  BY <1>2, <1>3, ResultFacts DEF OccupantsOK, ResultsStored, IsReady
<1>5. Live(cur) /\ cur \in Handle
  <2>1. cur \in Range(queue)
    BY <1>1, Typed, NonEmpty DEF PoolInv, QueueOK
  <2> QED BY <1>1, <2>1, Typed, ResultFacts, CarefulFacts
<1>6. ASSUME NEW g \in Frame, WaitKept(g)
      PROVE  WaitKept(g)'
  <2>1. PICK n \in 0 .. MaxPoll : g.on \in [1 .. n -> Handle]
    BY DEF Frame
  <2>2. \A i \in DOMAIN g.on : g.on[i] \in Handle
    BY <2>1
  <2> QED BY <2>2, <1>2, <1>3, <1>6 DEF WaitKept
<1>7. WaitsKept'
  <2> SUFFICES ASSUME NEW w \in Handle
               PROVE  WaitKept(frame[w])' /\ (frame'[w].at # "user" => Live(w)')
    BY DEF WaitsKept
  <2>1. frame \in [Handle -> Frame]
    BY <1>1, Typed
  <2>2. CASE w = cur
    <3>1. frame'[w] = f
      BY <1>2, <2>1, <2>2
    <3>2. WaitKept(f)'
      BY <1>6
    <3> QED BY <3>1, <3>2, <2>2, <1>3, <1>5 DEF WaitKept
  <2>3. CASE w # cur
    <3>1. frame'[w] = frame[w] /\ WaitKept(frame[w]) /\ frame[w] \in Frame
      BY <1>2, <2>1, <2>3, ResultFacts DEF WaitsKept
    <3>2. PICK g \in Frame : g = frame[w]
      BY <3>1
    <3>3. WaitKept(g)'
      BY <3>1, <3>2, <1>6
    <3>4. frame[w].at # "user" => Live(w)
      BY ResultFacts DEF WaitsKept
    <3> QED BY <3>1, <3>2, <3>3, <3>4, <1>3 DEF WaitKept
  <2> QED BY <2>2, <2>3
<1> QED BY <1>1, <1>4, <1>7 DEF ResultInv

(* await, await_any and await_all are called with handles that may be waited for. *)
LEMMA AwaitFrame ==
  ASSUME "kept" \in Contract, ResultInv, NEW at \in {"any", "all"},
         NEW hs \in HandleLists, Range(hs) \subseteq Issued, Await(at, hs)
  PROVE  LET f == [at |-> at, on |-> hs, ids |-> [i \in DOMAIN hs |-> occupant[hs[i]]]]
         IN f \in Frame /\ WaitKept(f) /\ f.at # "user" /\ PollOnce(f)
<1> DEFINE ids == [i \in DOMAIN hs |-> occupant[hs[i]]]
           f == [at |-> at, on |-> hs, ids |-> ids]
<1>1. f \in Frame
  BY Frames, ResultFacts
<1>2. 1 \in DOMAIN hs
  <2>1. PICK n \in 1 .. MaxPoll : hs \in [1 .. n -> Handle]
    BY DEF HandleLists
  <2>2. 1 \in 1 .. n
    BY QueueAssumption
  <2> QED BY <2>1, <2>2
<1>3. \A i \in DOMAIN hs : /\ tasks[hs[i]].state # "FREE" /\ ~ tasks[hs[i]].orphaned
                           /\ ids[i] = occupant[hs[i]]
  <2>1. \A h \in Range(hs) : MayWait(h)
    BY DEF Await
  <2> QED BY <2>1 DEF MayWait, Follows, Range
<1>4. /\ f.at = at /\ f.on = hs /\ f.ids = ids /\ DOMAIN ids = DOMAIN hs
      /\ at # "user"
  OBVIOUS
<1>5. PollOnce(f)
  BY DEF Await
<1> HIDE DEF f, ids
<1>6. WaitKept(f)
  BY <1>2, <1>3, <1>4 DEF WaitKept
<1> QED BY <1>1, <1>4, <1>5, <1>6 DEF f, ids

LEMMA PollOnceKeepsResult ==
  ASSUME ResultInv, Running, NEW f \in Frame, WaitKept(f), PollOnce(f)
  PROVE  ResultInv'
<1>1. CASE Skip(f)
  BY <1>1, SkipKeepsResult
<1>2. CASE /\ frame' = [frame EXCEPT ![cur] = UserFrame]
           /\ UNCHANGED <<poolVars, queue, occupant, owner, process>>
  <2>1. CarefulInv' /\ PoolInv
    BY PollOnceKeepsCareful, ResultFacts
  <2>2. OccupantsOK' /\ ResultsStored'
    BY <1>2, ResultFacts DEF OccupantsOK, ResultsStored, IsReady, poolVars
  <2>3. WaitsKept'
    <3>1. PICK h \in Handle : h = cur
      BY <2>1, Typed
    <3>2. frame'[h] = UserFrame /\ \A g \in Handle \ {h} : frame'[g] = frame[g]
      BY <1>2, <2>1, <3>1, Typed
    <3>3. UNCHANGED <<tasks, occupant>>
      BY <1>2 DEF poolVars
    <3>4. \A g \in Handle : Polled(g) => tasks[g].state # "FREE"
      BY PolledNotFree
    <3>5. \A g \in Handle : Live(g) => Live(g)'
      BY <3>3 DEF Live
    <3> QED BY <3>2, <3>3, <3>4, <3>5, WaitsStable
  <2> QED BY <2>1, <2>2, <2>3 DEF ResultInv
<1> QED BY <1>1, <1>2 DEF PollOnce

LEMMA QuietKeepsResult ==
  ASSUME ResultInv, CarefulInv', UNCHANGED <<poolVars, queue, frame, occupant>>
  PROVE  ResultInv'
BY DEF ResultInv, OccupantsOK, WaitsKept, WaitKept, ResultsStored, IsReady, Live, poolVars

LEMMA InitResult == Init => ResultInv
<1> SUFFICES ASSUME Init PROVE ResultInv
  OBVIOUS
<1>1. CarefulInv /\ PoolInv
  BY InitCareful, InitPool
<1>2. /\ \A h \in Handle : tasks[h].state = IF h = Main THEN "RUNNING" ELSE "FREE"
      /\ \A h \in Handle : frame[h] = UserFrame
  BY Typed DEF Init, Unused
<1>3. PICK c \in Coroutine : occupant = [h \in Handle |-> IF h = Main THEN c ELSE NULL]
  BY DEF Init
<1>4. OccupantsOK
  BY <1>2, <1>3, PoolAssumption DEF OccupantsOK
<1>5. WaitsKept
  BY <1>2 DEF WaitsKept, WaitKept, UserFrame
<1>6. ResultsStored
  BY <1>2 DEF ResultsStored, IsReady
<1> QED BY <1>1, <1>4, <1>5, <1>6 DEF ResultInv

LEMMA NextResult ==
  ASSUME ResultRules \subseteq Contract, ResultInv, [Next]_vars
  PROVE  ResultInv'
<1>0. /\ "kept" \in Contract /\ "freeDone" \in Contract /\ "orphanLive" \in Contract
      /\ CarefulInv' /\ PoolInv
  BY NextCareful, ResultFacts DEF ResultRules
<1>1. CASE AsyncCall
  BY <1>1, CallKeepsResult
<1>2. CASE AsyncSkip
  <2>1. WaitKept(UserFrame)
    BY DEF WaitKept, UserFrame
  <2> QED BY <2>1, <1>2, Frames, SkipKeepsResult DEF AsyncSkip, InUser
<1>3. CASE AsyncReturn
  BY <1>3, ReturnKeepsResult
<1>4. CASE MainReturns \/ FallsOff \/ Ended \/ UNCHANGED vars
  BY <1>0, <1>4, QuietKeepsResult DEF MainReturns, FallsOff, Ended, Ends, vars, poolVars
<1>5. CASE PollAgain
  <2>1. frame[cur] \in Frame /\ WaitKept(frame[cur])
    BY <1>0, Typed, ResultFacts DEF WaitsKept
  <2> QED BY <2>1, <1>5, PollOnceKeepsResult DEF PollAgain
<1>6. ASSUME NEW h \in Issued, AsyncFree(h) PROVE ResultInv'
  BY <1>0, <1>6, FreeKeepsResult
<1>7. ASSUME NEW h \in Issued, AsyncOrphan(h) PROVE ResultInv'
  BY <1>0, <1>7, OrphanKeepsResult
<1>8. ASSUME NEW at \in {"any", "all"}, NEW hs \in HandleLists, Range(hs) \subseteq Issued,
             Await(at, hs)
      PROVE  ResultInv'
  BY <1>0, <1>8, AwaitFrame, PollOnceKeepsResult DEF Await, InUser
<1> QED BY <1>1, <1>2, <1>3, <1>4, <1>5, <1>6, <1>7, <1>8 DEF Next

LEMMA Results ==
  ASSUME ResultRules \subseteq Contract
  PROVE  Spec => []ResultInv
<1>1. Init => ResultInv
  BY InitResult
<1>2. ResultInv /\ [Next]_vars => ResultInv'
  BY NextResult
<1> QED BY <1>1, <1>2, PTL DEF Spec

(* await, await_any and await_all of async.c return the results of the coroutines
   they were called with, and of no later occupant of the slot. *)
THEOREM ReturnsResults ==
  ASSUME ResultRules \subseteq Contract
  PROVE  Spec => YieldsResults
<1>1. ASSUME ResultInv, NEW i \in DOMAIN frame[cur].on, IsReady(frame[cur].on[i])
      PROVE  tasks[frame[cur].on[i]].data = frame[cur].ids[i]
  <2>1. cur \in Handle
    BY <1>1, ResultFacts, Typed
  <2>2. frame[cur].on[i] \in Handle
    BY <1>1, <2>1, WaitedFor
  <2> QED BY <1>1, <2>1, <2>2, ResultFacts DEF WaitsKept, WaitKept, ResultsStored
<1>2. ResultInv => [frame[cur].at # "user" /\ frame'[cur].at = "user"
                      => \A i \in DOMAIN frame[cur].on :
                           IsReady(frame[cur].on[i]) =>
                             tasks[frame[cur].on[i]].data = frame[cur].ids[i]]_vars
  BY <1>1
<1> QED BY <1>2, Results, PTL DEF YieldsResults

------------------------------------------------------------------------------
(* The refinement: a coroutine is where its slot is. *)
Called   == {c \in Coroutine : \E h \in Slot(c) : Live(h)}
Returned == {c \in Coroutine : \E h \in Slot(c) : IsReady(h)}
Waits    == [c \in Coroutine |->
               [for |-> UNION {Range(frame[h].ids) : h \in Slot(c)},
                all |-> \E h \in Slot(c) : frame[h].at = "all"]]

APIStep == API!Next \/ UNCHANGED <<Called, Returned, Waits>>

WaitOf(f) == [for |-> Range(f.ids), all |-> f.at = "all"]

LEMMA UserWait == WaitOf(UserFrame) = API!NoWait
<1>1. Range(<<>>) = {}
  BY DEF Range
<1>2. UserFrame.ids = <<>> /\ UserFrame.at = "user"
  BY DEF UserFrame
<1> QED BY <1>1, <1>2 DEF WaitOf, API!NoWait

(* The coroutine c in the slot h, which nobody else can be. *)
LEMMA InSlot ==
  ASSUME NEW h \in Handle, NEW c \in Coroutine, \A g \in Handle \ {h} : occupant[g] # c
  PROVE  /\ c \in Called <=> occupant[h] = c /\ Live(h)
         /\ c \in Returned <=> occupant[h] = c /\ IsReady(h)
         /\ Waits[c] = IF occupant[h] = c THEN WaitOf(frame[h]) ELSE API!NoWait
<1>1. Slot(c) = IF occupant[h] = c THEN {h} ELSE {}
  BY DEF Slot
<1>2. c \in Called <=> occupant[h] = c /\ Live(h)
  BY <1>1 DEF Called
<1>3. c \in Returned <=> occupant[h] = c /\ IsReady(h)
  BY <1>1 DEF Returned
<1>4. Waits[c] = [for |-> UNION {Range(frame[g].ids) : g \in Slot(c)},
                  all |-> \E g \in Slot(c) : frame[g].at = "all"]
  BY DEF Waits
<1>5. CASE occupant[h] = c
  <2>1. UNION {Range(frame[g].ids) : g \in Slot(c)} = Range(frame[h].ids)
    BY <1>1, <1>5
  <2>2. (\E g \in Slot(c) : frame[g].at = "all") <=> frame[h].at = "all"
    BY <1>1, <1>5
  <2> QED BY <1>2, <1>3, <1>4, <1>5, <2>1, <2>2 DEF WaitOf
<1>6. CASE occupant[h] # c
  <2>1. UNION {Range(frame[g].ids) : g \in Slot(c)} = {}
    BY <1>1, <1>6
  <2>2. (\E g \in Slot(c) : frame[g].at = "all") <=> FALSE
    BY <1>1, <1>6
  <2> QED BY <1>2, <1>3, <1>4, <1>6, <2>1, <2>2 DEF API!NoWait
<1> QED BY <1>5, <1>6

(* The same after a step. *)
LEMMA InSlotNext ==
  ASSUME NEW h \in Handle, NEW c \in Coroutine
  PROVE  (\A g \in Handle \ {h} : occupant'[g] # c) =>
           /\ c \in Called' <=> occupant'[h] = c /\ Live(h)'
           /\ c \in Returned' <=> occupant'[h] = c /\ IsReady(h)'
           /\ Waits'[c] = IF occupant'[h] = c THEN WaitOf(frame'[h]) ELSE API!NoWait
<1> DEFINE A == \A g \in Handle \ {h} : occupant[g] # c
           P == /\ c \in Called <=> occupant[h] = c /\ Live(h)
                /\ c \in Returned <=> occupant[h] = c /\ IsReady(h)
                /\ Waits[c] = IF occupant[h] = c THEN WaitOf(frame[h]) ELSE API!NoWait
<1>1. A => P
  BY InSlot
<1>2. A' => P'
  BY <1>1, PTL
<1> QED BY <1>2 DEF WaitOf, API!NoWait

(* A step that changes one slot changes the one coroutine in it. *)
LEMMA OneSlot ==
  ASSUME NEW h \in Handle, NEW c \in Coroutine,
         occupant[h] \in {c, NULL}, occupant'[h] \in {c, NULL},
         \A g \in Handle \ {h} :
           /\ occupant[g] # c /\ occupant'[g] = occupant[g] /\ frame'[g] = frame[g]
           /\ Live(g)' <=> Live(g)
           /\ IsReady(g)' <=> IsReady(g)
  PROVE  /\ Called' = IF occupant'[h] = c /\ Live(h)' THEN Called \cup {c} ELSE Called \ {c}
         /\ Returned' = IF occupant'[h] = c /\ IsReady(h)' THEN Returned \cup {c}
                        ELSE Returned \ {c}
         /\ Waits' = [Waits EXCEPT ![c] = IF occupant'[h] = c THEN WaitOf(frame'[h])
                                          ELSE API!NoWait]
<1>1. /\ c \in Called' <=> occupant'[h] = c /\ Live(h)'
      /\ c \in Returned' <=> occupant'[h] = c /\ IsReady(h)'
      /\ Waits'[c] = IF occupant'[h] = c THEN WaitOf(frame'[h]) ELSE API!NoWait
  BY InSlotNext
<1>2. ASSUME NEW d \in Coroutine \ {c}
      PROVE  Slot(d)' = Slot(d) /\ \A g \in Slot(d) : g \in Handle \ {h}
  <2>1. occupant[h] # d /\ occupant'[h] # d
    BY PoolAssumption
  <2> QED BY <2>1 DEF Slot
<1>3. ASSUME NEW d \in Coroutine \ {c}
      PROVE  /\ d \in Called' <=> d \in Called
             /\ d \in Returned' <=> d \in Returned
             /\ Waits'[d] = Waits[d]
  <2>1. (d \in Called' <=> d \in Called) /\ (d \in Returned' <=> d \in Returned)
    BY <1>2 DEF Called, Returned
  <2>2. UNION {Range(frame'[g].ids) : g \in Slot(d)'} = UNION {Range(frame[g].ids) : g \in Slot(d)}
    BY <1>2
  <2>3. (\E g \in Slot(d)' : frame'[g].at = "all") <=> (\E g \in Slot(d) : frame[g].at = "all")
    BY <1>2
  <2> QED BY <2>1, <2>2, <2>3 DEF Waits
<1>4. /\ Called \subseteq Coroutine /\ Called' \subseteq Coroutine
      /\ Returned \subseteq Coroutine /\ Returned' \subseteq Coroutine
  BY DEF Called, Returned
<1>5. Waits' = [d \in Coroutine |-> Waits'[d]] /\ Waits = [d \in Coroutine |-> Waits[d]]
  BY DEF Waits
<1> QED BY <1>1, <1>3, <1>4, <1>5

(* A step that moves nobody to another slot and changes no wait. *)
LEMMA NoSlot ==
  ASSUME UNCHANGED occupant,
         \A g \in Handle : /\ frame'[g] = frame[g]
                           /\ Live(g)' <=> Live(g)
                           /\ IsReady(g)' <=> IsReady(g)
  PROVE  UNCHANGED <<Called, Returned, Waits>>
<1>1. \A d : Slot(d)' = Slot(d) /\ Slot(d) \subseteq Handle
  BY DEF Slot
<1>2. UNCHANGED <<Called, Returned>>
  BY <1>1 DEF Called, Returned
<1>3. ASSUME NEW d \in Coroutine PROVE Waits'[d] = Waits[d]
  <2>1. UNION {Range(frame'[g].ids) : g \in Slot(d)'} = UNION {Range(frame[g].ids) : g \in Slot(d)}
    BY <1>1
  <2>2. (\E g \in Slot(d)' : frame'[g].at = "all") <=> (\E g \in Slot(d) : frame[g].at = "all")
    BY <1>1
  <2> QED BY <2>1, <2>2 DEF Waits
<1>4. Waits' = [d \in Coroutine |-> Waits'[d]] /\ Waits = [d \in Coroutine |-> Waits[d]]
  BY DEF Waits
<1> QED BY <1>2, <1>3, <1>4

(* The coroutine that runs. *)
LEMMA Caller ==
  ASSUME ResultInv, Running
  PROVE  /\ cur \in Handle /\ Live(cur)
         /\ occupant[cur] \in Coroutine
         /\ \A g \in Handle \ {cur} : occupant[g] # occupant[cur]
         /\ occupant[cur] \in Called
         /\ Waits[occupant[cur]] = WaitOf(frame[cur])
         /\ frame[cur].at = "user" => frame[cur] = UserFrame
<1>1. PoolInv /\ cur \in Range(queue) /\ cur \in Handle
  BY ResultFacts, Typed, NonEmpty DEF PoolInv, QueueOK
<1>2. Live(cur)
  BY <1>1, ResultFacts, CarefulFacts
<1>3. occupant[cur] # NULL /\ occupant[cur] \in Coroutine
  BY <1>1, <1>2, ResultFacts, Typed DEF OccupantsOK, Live
<1>4. \A g \in Handle \ {cur} : occupant[g] # occupant[cur]
  BY <1>1, <1>3, ResultFacts DEF OccupantsOK
<1>5. PICK h \in Handle, c \in Coroutine : h = cur /\ c = occupant[cur]
  BY <1>1, <1>3
<1>6. c \in Called /\ Waits[c] = WaitOf(frame[h])
  BY <1>2, <1>4, <1>5, InSlot
<1> QED BY <1>1, <1>2, <1>3, <1>4, <1>5, <1>6, ResultFacts DEF WaitsKept, WaitKept

(* Who is in some unfinished coroutine's wait, is polled. *)
LEMMA NotPolled ==
  ASSUME ResultInv, NEW h \in Handle, occupant[h] \in Coroutine, ~ Polled(h),
         NEW d \in Called
  PROVE  occupant[h] \notin Waits[d].for
<1>1. PICK g \in Handle : occupant[g] = d /\ Live(g) /\ d \in Coroutine
  BY DEF Called, Slot
<1>2. \A k \in Handle \ {g} : occupant[k] # d
  BY <1>1, PoolAssumption, ResultFacts DEF OccupantsOK
<1>3. Waits[d] = WaitOf(frame[g])
  BY <1>1, <1>2, InSlot
<1> SUFFICES ASSUME occupant[h] \in Range(frame[g].ids) PROVE FALSE
  BY <1>3 DEF WaitOf
<1>4. PICK i \in DOMAIN frame[g].ids : frame[g].ids[i] = occupant[h]
  BY DEF Range
<1>5. i \in DOMAIN frame[g].on /\ occupant[frame[g].on[i]] = occupant[h]
  BY <1>4, ResultFacts DEF WaitsKept, WaitKept
<1>6. frame[g].on[i] \in Handle /\ Polled(frame[g].on[i])
  BY <1>5, WaitedFor
<1>7. frame[g].on[i] = h
  BY <1>5, <1>6, PoolAssumption, ResultFacts DEF OccupantsOK
<1> QED BY <1>6, <1>7

LEMMA CallRefines ==
  ASSUME ResultInv, ResultInv', AsyncCall
  PROVE  APIStep
<1>1. CarefulInv' /\ Running' /\ PoolInv
  BY CallKeepsCareful, ResultFacts
<1>2. /\ NewHandle \in Handle /\ tasks[NewHandle].state = "FREE"
      /\ tasks'[NewHandle].state = "INIT"
      /\ \A h \in Handle \ {NewHandle} : tasks'[h] = tasks[h]
      /\ frame' = [frame EXCEPT ![NewHandle] = UserFrame]
      /\ \E c \in Coroutine \ Remembered : occupant' = [occupant EXCEPT ![NewHandle] = c]
  BY <1>1, CallEffect
<1>3. PICK h \in Handle : h = NewHandle
  BY <1>2
<1>4. PICK c \in Coroutine \ Remembered : occupant' = [occupant EXCEPT ![h] = c]
  BY <1>2, <1>3
<1>5. /\ occupant'[h] = c /\ occupant[h] = NULL /\ frame'[h] = UserFrame
      /\ \A g \in Handle \ {h} : occupant'[g] = occupant[g] /\ frame'[g] = frame[g]
      /\ \A g \in Handle : occupant[g] # c
  <2>1. \A g \in Handle : occupant[g] # c
    BY <1>1, Typed DEF Remembered, Range
  <2>2. occupant[h] = NULL
    BY <1>2, <1>3, ResultFacts DEF OccupantsOK
  <2> QED BY <2>1, <2>2, <1>1, <1>2, <1>3, <1>4, Typed
<1>6. /\ \A g \in Handle \ {h} : /\ Live(g)' <=> Live(g)
                                 /\ IsReady(g)' <=> IsReady(g)
      /\ Live(h)' /\ ~ IsReady(h)'
  BY <1>2, <1>3 DEF Live, IsReady
<1>7. c \notin Called /\ c \notin Returned /\ Waits[c] = API!NoWait
  BY <1>5, InSlot
<1>8. /\ Called' = Called \cup {c} /\ Returned' = Returned \ {c}
      /\ Waits' = [Waits EXCEPT ![c] = WaitOf(UserFrame)]
  BY <1>5, <1>6, OneSlot
<1>9. Waits' = Waits
  <2>1. Waits = [d \in Coroutine |-> Waits[d]]
    BY DEF Waits
  <2> QED BY <2>1, <1>7, <1>8, UserWait
<1>10. API!Call(c)
  <2>1. c \notin Called \cup Returned /\ Called' = Called \cup {c} /\ Returned' = Returned
    BY <1>7, <1>8
  <2> QED BY <2>1, <1>9 DEF API!Call, Called, Returned, Waits
<1> QED BY <1>10 DEF APIStep, API!Next

LEMMA FreeRefines ==
  ASSUME "freeDone" \in Contract, ResultInv, NEW h \in Issued, AsyncFree(h)
  PROVE  APIStep
<1>1. PoolInv /\ IsReady(h) /\ ~ Polled(h)
  BY FreeKeepsCareful, ResultFacts
<1>2. /\ h \in Handle /\ tasks'[h].state = "FREE" /\ frame' = frame
      /\ occupant' = [occupant EXCEPT ![h] = NULL]
      /\ \A g \in Handle \ {h} : tasks'[g] = tasks[g]
  BY <1>1, FreeEffect
<1>3. occupant'[h] = NULL /\ \A g \in Handle \ {h} : occupant'[g] = occupant[g]
  BY <1>1, <1>2, Typed
<1>4. occupant[h] \in Coroutine /\ \A g \in Handle \ {h} : occupant[g] # occupant[h]
  BY <1>1, <1>2, ResultFacts, Typed DEF OccupantsOK, IsReady
<1>5. PICK c \in Coroutine : c = occupant[h]
  BY <1>4
<1>6. \A g \in Handle \ {h} : (Live(g)' <=> Live(g)) /\ (IsReady(g)' <=> IsReady(g))
  BY <1>2 DEF Live, IsReady
<1>7. frame[h] = UserFrame
  BY <1>1, <1>2, ResultFacts DEF WaitsKept, WaitKept, Live, IsReady
<1>8. c \in Returned /\ c \notin Called /\ Waits[c] = API!NoWait
  BY <1>1, <1>2, <1>4, <1>5, <1>7, InSlot, UserWait DEF Live, IsReady
<1>9. /\ Called' = Called \ {c} /\ Returned' = Returned \ {c}
      /\ Waits' = [Waits EXCEPT ![c] = API!NoWait]
  <2>1. occupant'[h] # c
    BY <1>3, PoolAssumption
  <2> QED BY <2>1, <1>2, <1>3, <1>4, <1>5, <1>6, OneSlot
<1>10. Waits' = Waits
  <2>1. Waits = [d \in Coroutine |-> Waits[d]]
    BY DEF Waits
  <2> QED BY <2>1, <1>8, <1>9
<1>11. \A d \in Called : c \notin Waits[d].for
  BY <1>1, <1>2, <1>4, <1>5, NotPolled
<1>12. API!Free(c)
  BY <1>8, <1>9, <1>10, <1>11 DEF API!Free, API!Unneeded, Called, Returned, Waits
<1> QED BY <1>12 DEF APIStep, API!Next

LEMMA ReturnRefines ==
  ASSUME ResultInv, AsyncReturn
  PROVE  APIStep
<1>1. Running' /\ PoolInv /\ Running /\ frame[cur].at = "user"
  BY ReturnKeepsCareful, ResultFacts DEF AsyncReturn, InUser
<1>2. /\ frame' = frame
      /\ occupant' = IF tasks[cur].orphaned THEN [occupant EXCEPT ![cur] = NULL]
                     ELSE occupant
      /\ tasks'[cur].state = IF tasks[cur].orphaned THEN "FREE" ELSE "READY"
      /\ \A h \in Handle \ {cur} : /\ tasks'[h].state = "READY" <=> tasks[h].state = "READY"
                                   /\ Live(h)' <=> Live(h)
  BY <1>1, ReturnEffect
<1>3. PICK h \in Handle, c \in Coroutine : h = cur /\ c = occupant[cur]
  BY <1>1, Caller
<1>4. /\ c \in Called /\ Live(h) /\ frame[h] = UserFrame /\ Waits[c] = API!NoWait
      /\ \A g \in Handle \ {h} : occupant[g] # c
  BY <1>1, <1>3, Caller, UserWait
<1>5. /\ \A g \in Handle \ {h} : occupant'[g] = occupant[g]
      /\ occupant'[h] = IF tasks[h].orphaned THEN NULL ELSE c
  BY <1>1, <1>2, <1>3, Typed
<1>6. \A g \in Handle \ {h} : (Live(g)' <=> Live(g)) /\ (IsReady(g)' <=> IsReady(g))
  BY <1>2, <1>3 DEF IsReady
<1>7. ~ Live(h)' /\ (IsReady(h)' <=> ~ tasks[h].orphaned)
  BY <1>2, <1>3 DEF Live, IsReady
<1>8. c # NULL /\ c \notin Returned
  BY <1>3, <1>4, InSlot, PoolAssumption DEF Live, IsReady
<1>9. /\ Called' = Called \ {c}
      /\ Returned' = IF tasks[h].orphaned THEN Returned \ {c} ELSE Returned \cup {c}
      /\ Waits' = [Waits EXCEPT ![c] = API!NoWait]
  <2>1. occupant[h] = c /\ occupant'[h] \in {c, NULL} /\ frame'[h] = UserFrame
    BY <1>2, <1>3, <1>4, <1>5
  <2>2. /\ Called' = IF occupant'[h] = c /\ Live(h)' THEN Called \cup {c} ELSE Called \ {c}
        /\ Returned' = IF occupant'[h] = c /\ IsReady(h)' THEN Returned \cup {c}
                       ELSE Returned \ {c}
        /\ Waits' = [Waits EXCEPT ![c] = IF occupant'[h] = c THEN WaitOf(frame'[h])
                                         ELSE API!NoWait]
    BY <2>1, <1>2, <1>4, <1>5, <1>6, OneSlot
  <2> QED BY <2>1, <2>2, <1>5, <1>7, <1>8, UserWait
<1>10. Waits' = Waits
  <2>1. Waits = [d \in Coroutine |-> Waits[d]]
    BY DEF Waits
  <2> QED BY <2>1, <1>4, <1>9
<1>11. tasks[h].orphaned => \A d \in Called : c \notin Waits[d].for
  <2>1. tasks[h].orphaned => ~ Polled(h)
    BY PolledNotFree
  <2> QED BY <2>1, <1>3, NotPolled
<1>12. ~ API!Waiting(c)
  BY <1>4 DEF API!Waiting, API!NoWait, Waits
<1>13. API!Return(c)
  <2>1. Returned' = Returned \cup {c} \/ (API!Unneeded(c) /\ Returned' = Returned)
    BY <1>8, <1>9, <1>11 DEF API!Unneeded, Called, Waits
  <2> QED BY <2>1, <1>4, <1>9, <1>10, <1>12 DEF API!Return, Called, Returned, Waits
<1> QED BY <1>13 DEF APIStep, API!Next

(* async_skip with the frame kept: nothing the caller of the API could see. *)
LEMMA SkipRefines ==
  ASSUME ResultInv, Running, Skip(frame[cur])
  PROVE  APIStep
<1>1. Running' /\ PoolInv
  BY SkipStays, ResultFacts
<1>2. /\ frame' = [frame EXCEPT ![cur] = frame[cur]] /\ occupant' = occupant
      /\ \A h \in Handle : /\ Live(h)' <=> Live(h)
                           /\ tasks'[h].state = "READY" <=> tasks[h].state = "READY"
  BY <1>1, SkipEffect, SkipFrame, ResultFacts
<1>3. frame' = frame
  BY <1>1, <1>2, Typed
<1> QED BY <1>2, <1>3, NoSlot DEF APIStep, IsReady

(* What the caller waits for, as the API names it. *)
LEMMA WaitSatisfied ==
  ASSUME ResultInv, NEW f \in Frame, WaitKept(f), f.at # "user"
  PROVE  /\ WaitOf(f) \in API!Wait /\ WaitOf(f).for # {}
         /\ Satisfied(f) => API!Satisfied(WaitOf(f))
<1>1. PICK n \in 0 .. MaxPoll : f.on \in [1 .. n -> Handle]
  BY DEF Frame
<1>2. 1 \in DOMAIN f.on /\ DOMAIN f.ids = DOMAIN f.on
  BY DEF WaitKept
<1>3. ASSUME NEW i \in DOMAIN f.on
      PROVE  /\ f.on[i] \in Handle /\ f.ids[i] \in Coroutine
             /\ f.ids[i] \in Range(f.ids)
             /\ IsReady(f.on[i]) <=> f.ids[i] \in Returned
  <2>1. f.on[i] \in Handle /\ tasks[f.on[i]].state # "FREE" /\ occupant[f.on[i]] = f.ids[i]
    BY <1>1 DEF WaitKept
  <2>2. f.ids[i] \in Coroutine
    BY <2>1, ResultFacts, Typed DEF OccupantsOK
  <2>3. PICK h \in Handle, c \in Coroutine : h = f.on[i] /\ c = f.ids[i]
    BY <2>1, <2>2
  <2>4. c \in Returned <=> IsReady(h)
    <3>1. \A g \in Handle \ {h} : occupant[g] # c
      BY <2>1, <2>2, <2>3, PoolAssumption, ResultFacts DEF OccupantsOK
    <3> QED BY <3>1, <2>1, <2>3, InSlot
  <2>5. f.ids[i] \in Range(f.ids)
    BY <1>2 DEF Range
  <2> QED BY <2>1, <2>2, <2>3, <2>4, <2>5
<1>4. Range(f.ids) \subseteq Coroutine /\ Range(f.ids) # {}
  BY <1>2, <1>3 DEF Range
<1>5. WaitOf(f) \in API!Wait
  BY <1>4 DEF WaitOf, API!Wait
<1>6. ASSUME Satisfied(f)
      PROVE  IF f.at = "all" THEN Range(f.ids) \subseteq Returned
                             ELSE Range(f.ids) \cap Returned # {}
  <2>1. CASE f.at = "any"
    <3>1. PICK i \in DOMAIN f.on : IsReady(f.on[i])
      BY <1>6, <2>1 DEF Satisfied, Range
    <3> QED BY <2>1, <3>1, <1>3
  <2>2. CASE f.at = "all"
    <3>1. \A i \in DOMAIN f.on : IsReady(f.on[i])
      BY <1>6, <2>2 DEF Satisfied, Range
    <3> QED BY <2>2, <3>1, <1>2, <1>3 DEF Range
  <2> QED BY <2>1, <2>2 DEF Frame
<1>7. Satisfied(f) => API!Satisfied(WaitOf(f))
  BY <1>6 DEF API!Satisfied, WaitOf, Returned
<1> QED BY <1>4, <1>5, <1>7 DEF WaitOf

(* The caller begins or ends a wait, and nothing else changes. *)
LEMMA WaitChanges ==
  ASSUME ResultInv, Running, NEW f, frame' = [frame EXCEPT ![cur] = f],
         UNCHANGED occupant,
         \A h \in Handle : /\ Live(h)' <=> Live(h)
                           /\ IsReady(h)' <=> IsReady(h)
  PROVE  /\ UNCHANGED <<Called, Returned>>
         /\ Waits' = [Waits EXCEPT ![occupant[cur]] = WaitOf(f)]
<1>1. PICK h \in Handle, c \in Coroutine : h = cur /\ c = occupant[cur]
  BY Caller
<1>2. /\ frame \in [Handle -> Frame] /\ frame'[h] = f
      /\ \A g \in Handle \ {h} : frame'[g] = frame[g]
  BY <1>1, ResultFacts, Typed
<1>3. \A g \in Handle \ {h} : occupant[g] # c
  BY <1>1, Caller
<1>4. occupant[h] = c /\ occupant'[h] = c
  BY <1>1
<1>5. /\ Called' = IF occupant'[h] = c /\ Live(h)' THEN Called \cup {c} ELSE Called \ {c}
      /\ Returned' = IF occupant'[h] = c /\ IsReady(h)' THEN Returned \cup {c}
                     ELSE Returned \ {c}
      /\ Waits' = [Waits EXCEPT ![c] = IF occupant'[h] = c THEN WaitOf(frame'[h])
                                       ELSE API!NoWait]
  BY <1>2, <1>3, <1>4, OneSlot
<1>6. (c \in Called <=> Live(h)) /\ (c \in Returned <=> IsReady(h))
  BY <1>3, <1>4, InSlot
<1> QED BY <1>1, <1>2, <1>4, <1>5, <1>6

LEMMA StartRefines ==
  ASSUME ResultInv, InUser, NEW f \in Frame, WaitKept(f), f.at # "user", Skip(f)
  PROVE  APIStep
<1>1. Running' /\ PoolInv /\ Running /\ frame[cur].at = "user"
  BY SkipStays, ResultFacts DEF InUser
<1>2. /\ frame' = [frame EXCEPT ![cur] = f] /\ occupant' = occupant
      /\ \A h \in Handle : /\ Live(h)' <=> Live(h)
                           /\ tasks'[h].state = "READY" <=> tasks[h].state = "READY"
  BY <1>1, SkipEffect, SkipFrame, ResultFacts
<1>3. PICK c \in Coroutine : c = occupant[cur]
  BY <1>1, Caller
<1>4. UNCHANGED <<Called, Returned>> /\ Waits' = [Waits EXCEPT ![c] = WaitOf(f)]
  BY <1>1, <1>2, <1>3, WaitChanges DEF IsReady
<1>5. c \in Called /\ Waits[c] = API!NoWait
  BY <1>1, <1>3, Caller, UserWait
<1>6. PICK w \in API!Wait : w = WaitOf(f)
  BY WaitSatisfied
<1>7. ~ API!Waiting(c)
  BY <1>5 DEF API!Waiting, API!NoWait, Waits
<1>8. API!StartWait(c, w)
  BY <1>4, <1>5, <1>6, <1>7 DEF API!StartWait, Called, Returned, Waits
<1> QED BY <1>8 DEF APIStep, API!Next

LEMMA EndRefines ==
  ASSUME ResultInv, Running, frame[cur].at # "user", Satisfied(frame[cur]),
         frame' = [frame EXCEPT ![cur] = UserFrame],
         UNCHANGED <<poolVars, queue, occupant, owner, process>>
  PROVE  APIStep
<1>1. PICK c \in Coroutine : c = occupant[cur]
  BY Caller
<1>2. UNCHANGED <<tasks, occupant>>
  BY DEF poolVars
<1>3. \A h \in Handle : (Live(h)' <=> Live(h)) /\ (IsReady(h)' <=> IsReady(h))
  BY <1>2 DEF Live, IsReady
<1>4. UNCHANGED <<Called, Returned>> /\ Waits' = [Waits EXCEPT ![c] = API!NoWait]
  BY <1>1, <1>2, <1>3, WaitChanges, UserWait
<1>5. PICK f \in Frame : f = frame[cur]
  BY Caller, ResultFacts, Typed
<1>6. WaitKept(f) /\ f.at # "user" /\ Satisfied(f) /\ Waits[c] = WaitOf(f)
  BY <1>1, <1>5, Caller, ResultFacts DEF WaitsKept
<1>7. WaitOf(f).for # {} /\ API!Satisfied(WaitOf(f))
  BY <1>6, WaitSatisfied
<1>8. API!Waiting(c) /\ API!Satisfied(Waits[c])
  BY <1>6, <1>7 DEF API!Waiting, Waits
<1>9. API!EndWait(c)
  BY <1>4, <1>8 DEF API!EndWait, Called, Returned, Waits
<1> QED BY <1>9 DEF APIStep, API!Next

LEMMA NextRefines ==
  ASSUME ResultRules \subseteq Contract, ResultInv, [Next]_vars
  PROVE  APIStep
<1>0. /\ "kept" \in Contract /\ "freeDone" \in Contract
      /\ ResultInv' /\ PoolInv
  BY NextResult, ResultFacts DEF ResultRules
<1>1. CASE AsyncCall
  BY <1>0, <1>1, CallRefines
<1>2. CASE AsyncSkip
  <2>1. Running /\ frame[cur] = UserFrame
    BY <1>2, Caller DEF AsyncSkip, InUser
  <2> QED BY <2>1, <1>2, SkipRefines DEF AsyncSkip
<1>3. CASE AsyncReturn
  BY <1>3, ReturnRefines
<1>4. CASE MainReturns \/ FallsOff \/ Ended \/ UNCHANGED vars
  <2>1. UNCHANGED <<tasks, frame, occupant>>
    BY <1>4 DEF MainReturns, FallsOff, Ended, Ends, vars, poolVars
  <2> QED BY <2>1, NoSlot DEF APIStep, Live, IsReady
<1>5. CASE PollAgain
  <2>1. CASE Skip(frame[cur])
    BY <1>5, <2>1, SkipRefines DEF PollAgain
  <2>2. CASE /\ Satisfied(frame[cur]) /\ frame' = [frame EXCEPT ![cur] = UserFrame]
             /\ UNCHANGED <<poolVars, queue, occupant, owner, process>>
    BY <1>5, <2>2, EndRefines DEF PollAgain
  <2> QED BY <1>5, <2>1, <2>2 DEF PollAgain, PollOnce
<1>6. ASSUME NEW h \in Issued, AsyncFree(h) PROVE APIStep
  BY <1>0, <1>6, FreeRefines
<1>7. ASSUME NEW h \in Issued, AsyncOrphan(h) PROVE APIStep
  <2>1. /\ UNCHANGED <<frame, occupant>>
        /\ \A g \in Handle : tasks'[g].state = tasks[g].state
    BY <1>0, <1>7, OrphanEffect
  <2> QED BY <2>1, NoSlot DEF APIStep, Live, IsReady
<1>8. ASSUME NEW at \in {"any", "all"}, NEW hs \in HandleLists, Range(hs) \subseteq Issued,
             Await(at, hs)
      PROVE  APIStep
  <2>1. PICK f \in Frame : WaitKept(f) /\ f.at # "user" /\ PollOnce(f)
    BY <1>0, <1>8, AwaitFrame
  <2>2. InUser
    BY <1>8 DEF Await
  <2>3. CASE Skip(f)
    BY <2>1, <2>2, <2>3, StartRefines
  (* It is satisfied at once: the caller never waits. *)
  <2>4. CASE /\ frame' = [frame EXCEPT ![cur] = UserFrame]
             /\ UNCHANGED <<poolVars, queue, occupant, owner, process>>
    <3>1. frame' = frame
      BY <2>2, <2>4, <1>0, Typed, Caller DEF InUser
    <3>2. UNCHANGED <<tasks, occupant>>
      BY <2>4 DEF poolVars
    <3> QED BY <3>1, <3>2, NoSlot DEF APIStep, Live, IsReady
  <2> QED BY <2>1, <2>3, <2>4 DEF PollOnce
<1> QED BY <1>1, <1>2, <1>3, <1>4, <1>5, <1>6, <1>7, <1>8 DEF Next

LEMMA InitRefines == Init => API!Init
<1> SUFFICES ASSUME Init PROVE API!Init
  OBVIOUS
<1>1. /\ \A h \in Handle : tasks[h].state = IF h = Main THEN "RUNNING" ELSE "FREE"
      /\ \A h \in Handle : frame[h] = UserFrame
      /\ Main \in Handle
  BY InitPool, Typed, PoolAssumption DEF Init, Unused, Main, Handle
<1>2. PICK c \in Coroutine : occupant = [h \in Handle |-> IF h = Main THEN c ELSE NULL]
  BY DEF Init
<1>3. /\ occupant[Main] = c /\ \A h \in Handle \ {Main} : occupant[h] = NULL
      /\ Live(Main) /\ ~ IsReady(Main)
  BY <1>1, <1>2 DEF Live, IsReady
<1>4. ASSUME NEW d \in Coroutine
      PROVE  /\ d \in Called <=> d = c
             /\ d \notin Returned
             /\ Waits[d] = API!NoWait
  <2>1. \A g \in Handle \ {Main} : occupant[g] # d
    BY <1>3, PoolAssumption
  <2> QED BY <2>1, <1>1, <1>3, InSlot, UserWait
<1>5. Called = {c} /\ Returned = {}
  BY <1>4 DEF Called, Returned
<1>6. Waits = [d \in Coroutine |-> API!NoWait]
  BY <1>4 DEF Waits
<1> QED BY <1>5, <1>6 DEF API!Init, Called, Returned, Waits

(* The queue scheduler gives a program that follows the three rules the API of
   AsyncSpec: a coroutine is called, runs and returns once, a wait returns only
   when what it names has returned, and nothing that is waited for is reclaimed. *)
THEOREM QueueImplementsAsync ==
  ASSUME ResultRules \subseteq Contract
  PROVE  Spec => ImplementsAsync
<1>1. Init => API!Init
  BY InitRefines
<1>2. ResultInv /\ [Next]_vars => [API!Next]_<<Called, Returned, Waits>>
  BY NextRefines DEF APIStep
<1> QED BY <1>1, <1>2, Results, PTL DEF Spec, ImplementsAsync, API!Spec, Called, Returned, Waits
==============================================================================
