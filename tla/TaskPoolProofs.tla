--------------------------- MODULE TaskPoolProofs ----------------------------
(***************************************************************************)
(* What start_new_task, free_task and async_switch do to the pool and to   *)
(* its free list, for every number of slots.  The proofs about both        *)
(* schedulers rest on these facts.                                         *)
(***************************************************************************)
EXTENDS TaskPool, SequenceLemmas, FiniteSetTheorems

(* The free list, of any length (FreeListOK bounds it by MaxTasks). *)
FreeChain == \E n \in Nat : \E f \in [1 .. n -> Handle] : IsFreeList(f, n)

(* The slots in use are slots of the pool. *)
LEMMA PoolBounds ==
  ASSUME len \in Handle
  PROVE  /\ MaxTasks \in Nat /\ len \in Nat /\ len > 0 /\ len <= MaxTasks
         /\ 1 .. len \subseteq Handle
         /\ \A h \in Handle : h \in Nat /\ h # 0 /\ (h \in 1 .. len <=> ~ h > len)
BY PoolAssumption DEF Handle

(* A step after which the same slots are free, chained in the same way. *)
LEMMA FreeChainStable ==
  ASSUME FreeChain, len' = len, free_task' = free_task, len \in Handle,
         \A h \in Handle : /\ tasks'[h].state = "FREE" <=> tasks[h].state = "FREE"
                           /\ tasks'[h].handle = tasks[h].handle
  PROVE  FreeChain'
<1>0. PICK n \in Nat : \E f \in [1 .. n -> Handle] : IsFreeList(f, n)
  BY DEF FreeChain
<1>1. PICK f \in [1 .. n -> Handle] : IsFreeList(f, n)
  BY <1>0
<1>2. FreeSlots' = FreeSlots
  <2>1. \A h \in 1 .. len : h \in Handle
    BY PoolBounds
  <2> QED BY <2>1 DEF FreeSlots
<1>3. \A i \in 1 .. n : f[i] \in Handle
  OBVIOUS
<1>4. IsFreeList(f, n)'
  BY <1>1, <1>2, <1>3 DEF IsFreeList
<1> QED BY <1>4 DEF FreeChain

(* async_switch changes nothing but INIT to RUNNING, in the slot it goes to. *)
LEMMA SwitchedFacts ==
  ASSUME NEW ts \in [Handle -> Task], NEW to \in Handle
  PROVE  /\ Switched(ts, to) \in [Handle -> Task]
         /\ \A h \in Handle :
              /\ h # to => Switched(ts, to)[h] = ts[h]
              /\ Switched(ts, to)[h].handle = ts[h].handle
              /\ Switched(ts, to)[h].orphaned = ts[h].orphaned
              /\ Switched(ts, to)[h].data = ts[h].data
              /\ Switched(ts, to)[h].state =
                   IF h = to /\ ts[h].state = "INIT" THEN "RUNNING" ELSE ts[h].state
BY DEF Switched, Task, State

LEMMA FreedFacts ==
  ASSUME NEW ts \in [Handle -> Task], NEW g \in Handle, free_task \in 0 .. MaxTasks
  PROVE  /\ Freed(ts, g) \in [Handle -> Task]
         /\ \A h \in Handle \ {g} : Freed(ts, g)[h] = ts[h]
         /\ Freed(ts, g)[g].state = "FREE"
         /\ Freed(ts, g)[g].handle = free_task
<1> DEFINE us == [ts EXCEPT ![g].state = "FREE", ![g].handle = free_task]
<1>1. us \in [Handle -> Task] /\ us[g].state = "FREE" /\ us[g].handle = free_task
  BY DEF Task, State
<1>2. \A h \in Handle \ {g} : us[h] = ts[h]
  OBVIOUS
<1> QED BY <1>1, <1>2 DEF Freed

------------------------------------------------------------------------------
(* The head of the free list is a free slot. *)
LEMMA HeadOfFreeList ==
  ASSUME NEW n \in Nat, NEW f \in [1 .. n -> Handle], IsFreeList(f, n),
         free_task # 0
  PROVE  /\ n \in Nat \ {0} /\ 1 \in 1 .. n /\ free_task = f[1]
         /\ free_task \in Handle /\ free_task \in 1 .. len
         /\ tasks[free_task].state = "FREE"
<1>1. n # 0 /\ free_task = f[1]
  BY DEF IsFreeList
<1>2. 1 \in 1 .. n
  BY <1>1
<1>3. free_task \in FreeSlots
  BY <1>1, <1>2 DEF IsFreeList
<1> QED BY <1>1, <1>2, <1>3 DEF FreeSlots

LEMMA HeadIsFree ==
  ASSUME FreeChain, free_task # 0
  PROVE  tasks[free_task].state = "FREE"
<1>0. PICK n \in Nat : \E f \in [1 .. n -> Handle] : IsFreeList(f, n)
  BY DEF FreeChain
<1>1. PICK f \in [1 .. n -> Handle] : IsFreeList(f, n)
  BY <1>0
<1> QED BY <1>1, HeadOfFreeList

(* async_call takes a slot that is free, and takes it out of the free list. *)
LEMMA NewSlot ==
  ASSUME PoolTypeOK, CanStart, free_task # 0 => tasks[free_task].state = "FREE"
  PROVE  /\ NewHandle \in Handle /\ NewHandle \in 1 .. NewLen
         /\ tasks[NewHandle].state = "FREE"
         /\ NewLen \in Handle /\ len <= NewLen
         /\ \A h \in Handle : h > NewLen => h > len /\ h # NewHandle
<1>0. len \in Handle /\ MaxTasks \in Nat /\ len \in Nat /\ free_task \in 0 .. len
  BY PoolBounds DEF PoolTypeOK
<1>1. CASE free_task = 0
  <2>1. NewHandle = len + 1 /\ NewLen = len + 1 /\ len < MaxTasks
    BY <1>1 DEF NewHandle, NewLen, CanStart
  <2>2. len + 1 \in Handle /\ len + 1 > len
    BY <2>1, <1>0 DEF Handle
  <2>3. tasks[len + 1].state = "FREE"
    BY <2>2 DEF PoolTypeOK, Unused
  <2> QED BY <2>1, <2>2, <2>3, <1>0 DEF Handle
<1>2. CASE free_task # 0
  <2>1. NewHandle = free_task /\ NewLen = len
    BY <1>2 DEF NewHandle, NewLen
  <2> QED BY <1>0, <1>2, <2>1 DEF Handle
<1> QED BY <1>1, <1>2

LEMMA StartedFacts ==
  ASSUME PoolTypeOK, StartNewTask, free_task # 0 => tasks[free_task].state = "FREE"
  PROVE  /\ tasks' \in [Handle -> Task]
         /\ len' = NewLen /\ cur' = cur
         /\ tasks'[NewHandle].state = "INIT"
         /\ \A h \in Handle : h # NewHandle => tasks'[h] = tasks[h]
         /\ tasks'[NewHandle].handle = NewHandle
         /\ free_task' \in 0 .. MaxTasks
<1> DEFINE new == [state    |-> "INIT",
                   orphaned |-> IF free_task = 0 THEN FALSE
                                ELSE tasks[free_task].orphaned,
                   data     |-> NULL,
                   handle   |-> NewHandle]
<1>1. NewHandle \in Handle /\ NewHandle \in 0 .. MaxTasks
  BY NewSlot DEF StartNewTask, Handle
<1>2. free_task # 0 => free_task \in Handle
  BY <1>1 DEF NewHandle
<1>3. tasks \in [Handle -> Task]
  BY DEF PoolTypeOK
<1>4. new \in Task
  BY <1>1, <1>2, <1>3 DEF Task, State
<1>5. tasks' = [tasks EXCEPT ![NewHandle] = new]
  BY DEF StartNewTask
<1>6. new.state = "INIT" /\ new.handle = NewHandle
  OBVIOUS
<1> HIDE DEF new
<1>7. free_task' \in 0 .. MaxTasks
  <2>1. free_task' = IF free_task = 0 THEN 0 ELSE tasks[free_task].handle
    BY DEF StartNewTask
  <2>2. \A h \in Handle : tasks[h].handle \in 0 .. MaxTasks
    BY <1>3 DEF Task
  <2>3. 0 \in 0 .. MaxTasks
    BY PoolAssumption
  <2> QED BY <2>1, <2>2, <2>3, <1>2
<1> QED BY <1>1, <1>3, <1>4, <1>5, <1>6, <1>7, ZenonT(30) DEF StartNewTask

LEMMA FreeChainPopped ==
  ASSUME PoolTypeOK, FreeChain, StartNewTask
  PROVE  FreeChain' /\ free_task' \in 0 .. len'
<1>0. PICK n \in Nat : \E f \in [1 .. n -> Handle] : IsFreeList(f, n)
  BY DEF FreeChain
<1>1. PICK f \in [1 .. n -> Handle] : IsFreeList(f, n)
  BY <1>0
<1>2. /\ len \in Nat /\ MaxTasks \in Nat /\ NewHandle \in Handle
      /\ len' = NewLen /\ tasks'[NewHandle].state = "INIT"
      /\ \A h \in Handle : h # NewHandle => tasks'[h] = tasks[h]
      /\ NewLen \in Handle /\ len <= NewLen /\ NewHandle \in 1 .. NewLen
  BY NewSlot, StartedFacts, HeadIsFree, PoolBounds DEF StartNewTask, PoolTypeOK
<1>3. FreeSlots' = FreeSlots \ {NewHandle}
  <2>1. \A h \in 1 .. NewLen : h \in Handle
    BY <1>2, PoolBounds DEF Handle
  <2>2. \A h \in 1 .. NewLen : h \in 1 .. len \/ h = NewHandle
    BY <1>2 DEF NewLen, NewHandle
  <2>3. 1 .. len \subseteq 1 .. NewLen
    BY <1>2 DEF Handle
  <2> QED BY <1>2, <2>1, <2>2, <2>3 DEF FreeSlots
<1>4. CASE free_task = 0
  <2>1. n = 0
    <3>1. ASSUME n # 0 PROVE FALSE
      <4>1. 1 \in 1 .. n
        BY <3>1
      <4>2. f[1] \in Handle /\ f[1] = 0
        BY <3>1, <4>1, <1>1, <1>4 DEF IsFreeList
      <4> QED BY <4>2, <1>2 DEF Handle
    <3> QED BY <3>1
  <2>2. FreeSlots = {}
    BY <1>1, <2>1 DEF IsFreeList
  <2>3. free_task' = 0
    BY <1>4 DEF StartNewTask
  <2>4. IsFreeList(f, n)'
    BY <2>1, <2>2, <2>3, <1>3 DEF IsFreeList
  <2> QED BY <2>3, <2>4, <1>2 DEF FreeChain, Handle
<1>5. CASE free_task # 0
  <2>1. /\ n \in Nat \ {0} /\ 1 \in 1 .. n /\ free_task = f[1] /\ free_task \in Handle
        /\ NewHandle = f[1]
    BY <1>1, <1>5, HeadOfFreeList DEF NewHandle
  <2> DEFINE m == n - 1
             g == [i \in 1 .. m |-> f[i + 1]]
  <2>2. m \in Nat /\ \A i \in 1 .. m : i + 1 \in 1 .. n /\ i + 1 # 1
    BY <2>1
  <2>3. g \in [1 .. m -> Handle]
    BY <2>2
  <2>4. \A i \in 1 .. m : g[i] = f[i + 1] /\ g[i] # f[1] /\ g[i] \in Handle
    BY <2>1, <2>2, <1>1 DEF IsFreeList
  <2>5. \A i, j \in 1 .. m : g[i] = g[j] => i = j
    <3> SUFFICES ASSUME NEW i \in 1 .. m, NEW j \in 1 .. m, f[i + 1] = f[j + 1]
                 PROVE  i = j
      BY <2>4
    <3>1. i + 1 = j + 1
      BY <2>2, <1>1 DEF IsFreeList
    <3> QED BY <3>1
  <2>6. {g[i] : i \in 1 .. m} = FreeSlots'
    <3>1. ASSUME NEW i \in 1 .. m PROVE g[i] \in FreeSlots'
      <4>1. f[i + 1] \in FreeSlots
        BY <2>2, <1>1 DEF IsFreeList
      <4> QED BY <4>1, <2>1, <2>4, <1>3
    <3>2. ASSUME NEW x \in FreeSlots' PROVE \E i \in 1 .. m : x = g[i]
      <4>1. x \in FreeSlots /\ x # f[1]
        BY <2>1, <1>3
      <4>2. PICK k \in 1 .. n : x = f[k]
        BY <4>1, <1>1 DEF IsFreeList
      <4>3. k - 1 \in 1 .. m /\ (k - 1) + 1 = k
        BY <4>1, <4>2, <2>1
      <4> QED BY <4>2, <4>3, <2>4
    <3> QED BY <3>1, <3>2
  <2>7. free_task' = tasks[f[1]].handle
    BY <1>5, <2>1 DEF StartNewTask
  <2>8. free_task' = IF m = 0 THEN 0 ELSE g[1]
    <3>1. tasks[f[1]].handle = IF 1 = n THEN 0 ELSE f[1 + 1]
      BY <2>1, <1>1 DEF IsFreeList
    <3>2. m # 0 => 1 \in 1 .. m
      BY <2>2
    <3>3. m = 0 <=> 1 = n
      BY <2>1
    <3> QED BY <3>1, <3>2, <3>3, <2>4, <2>7
  <2>9. \A i \in 1 .. m : tasks'[g[i]].handle = IF i = m THEN 0 ELSE g[i + 1]
    <3> SUFFICES ASSUME NEW i \in 1 .. m
                 PROVE  tasks'[g[i]].handle = IF i = m THEN 0 ELSE g[i + 1]
      OBVIOUS
    <3>1. tasks'[g[i]] = tasks[f[i + 1]]
      BY <2>1, <2>4, <1>2
    <3>2. tasks[f[i + 1]].handle = IF i + 1 = n THEN 0 ELSE f[(i + 1) + 1]
      BY <2>2, <1>1 DEF IsFreeList
    <3>3. i + 1 = n <=> i = m
      BY <2>1
    <3>4. i # m => i + 1 \in 1 .. m
      BY <2>1
    <3> QED BY <3>1, <3>2, <3>3, <3>4, <2>4
  <2>10. free_task' \in 0 .. len'
    <3>1. m # 0 => g[1] \in FreeSlots'
      <4>1. m # 0 => 1 \in 1 .. m
        BY <2>2
      <4> QED BY <4>1, <2>6
    <3>2. FreeSlots' \subseteq 1 .. len'
      BY DEF FreeSlots
    <3>3. len' \in Nat
      BY <1>2 DEF Handle
    <3> QED BY <3>1, <3>2, <3>3, <2>8
  <2> HIDE DEF g, m
  <2>11. IsFreeList(g, m)'
    BY <2>5, <2>6, <2>8, <2>9 DEF IsFreeList
  <2>12. FreeChain'
    BY <2>2, <2>3, <2>11 DEF FreeChain
  <2> QED BY <2>10, <2>12
<1> QED BY <1>4, <1>5

(* A slot in use becomes the head of the free list. *)
LEMMA FreeChainPushed ==
  ASSUME FreeChain, len \in Handle, len' = len, NEW h \in 1 .. len,
         tasks[h].state # "FREE", tasks'[h].state = "FREE",
         tasks'[h].handle = free_task, free_task' = h,
         \A g \in Handle : g # h => /\ tasks'[g].state = "FREE" <=> tasks[g].state = "FREE"
                                    /\ tasks'[g].handle = tasks[g].handle
  PROVE  FreeChain'
<1>0. PICK n \in Nat : \E f \in [1 .. n -> Handle] : IsFreeList(f, n)
  BY DEF FreeChain
<1>1. PICK f \in [1 .. n -> Handle] : IsFreeList(f, n)
  BY <1>0
<1>2. h \in Handle /\ h \notin FreeSlots
  BY PoolBounds DEF FreeSlots
<1>3. FreeSlots' = FreeSlots \cup {h}
  <2>1. \A g \in 1 .. len : g \in Handle
    BY PoolBounds
  <2> QED BY <2>1, <1>2 DEF FreeSlots
<1> DEFINE m == n + 1
           g == [i \in 1 .. m |-> IF i = 1 THEN h ELSE f[i - 1]]
<1>4. m \in Nat /\ \A i \in 1 .. m : i # 1 => i - 1 \in 1 .. n
  OBVIOUS
<1>5. g \in [1 .. m -> Handle]
  BY <1>2, <1>4
<1>6. 1 \in 1 .. m /\ g[1] = h
  OBVIOUS
<1>7. \A i \in 1 .. m : i # 1 => /\ g[i] = f[i - 1] /\ g[i] \in Handle
                                 /\ g[i] \in FreeSlots /\ g[i] # h
  BY <1>1, <1>2, <1>4 DEF IsFreeList
<1>8. \A i \in 1 .. n : i + 1 \in 1 .. m /\ g[i + 1] = f[i]
  <2>1. \A i \in 1 .. n : i + 1 \in 1 .. m /\ i + 1 # 1 /\ (i + 1) - 1 = i
    OBVIOUS
  <2> QED BY <2>1
<1>9. m # 0
  OBVIOUS
<1>10. \A i \in 1 .. n : i + 1 = m <=> i = n
  OBVIOUS
<1>11. m = 1 <=> n = 0
  OBVIOUS
<1> HIDE DEF g
<1>12. \A i, j \in 1 .. m : g[i] = g[j] => i = j
  <2> SUFFICES ASSUME NEW i \in 1 .. m, NEW j \in 1 .. m, g[i] = g[j]
               PROVE  i = j
    OBVIOUS
  <2>1. CASE i # 1 /\ j # 1
    <3>1. i - 1 = j - 1
      BY <2>1, <1>1, <1>4, <1>7, SMTT(30) DEF IsFreeList
    <3> QED BY <3>1
  <2>2. CASE i = 1 \/ j = 1
    BY <2>2, <1>6, <1>7
  <2> QED BY <2>1, <2>2
<1>13. {g[i] : i \in 1 .. m} = FreeSlots'
  <2>1. \A i \in 1 .. m : g[i] \in FreeSlots'
    BY <1>3, <1>6, <1>7
  <2>2. ASSUME NEW x \in FreeSlots' PROVE \E i \in 1 .. m : x = g[i]
    <3>1. CASE x = h
      BY <3>1, <1>6
    <3>2. CASE x \in FreeSlots
      <4>1. PICK i \in 1 .. n : x = f[i]
        BY <3>2, <1>1 DEF IsFreeList
      <4> QED BY <4>1, <1>8
    <3> QED BY <3>1, <3>2, <1>3
  <2> QED BY <2>1, <2>2
<1>14. \A i \in 1 .. m : tasks'[g[i]].handle = IF i = m THEN 0 ELSE g[i + 1]
  <2> SUFFICES ASSUME NEW i \in 1 .. m
               PROVE  tasks'[g[i]].handle = IF i = m THEN 0 ELSE g[i + 1]
    OBVIOUS
  <2>1. CASE i = 1
    <3>1. tasks'[g[i]].handle = IF n = 0 THEN 0 ELSE f[1]
      BY <2>1, <1>1, <1>6 DEF IsFreeList
    <3>2. n # 0 => 1 \in 1 .. n
      OBVIOUS
    <3>3. n # 0 => g[1 + 1] = f[1]
      BY <3>2, <1>8
    <3> QED BY <2>1, <3>1, <3>3, <1>11
  <2>2. CASE i # 1
    <3>1. i - 1 \in 1 .. n /\ g[i] = f[i - 1] /\ (i - 1) + 1 = i
      BY <2>2, <1>4, <1>7
    <3>2. tasks'[g[i]].handle = tasks[f[i - 1]].handle
      BY <2>2, <3>1, <1>7
    <3>3. tasks[f[i - 1]].handle = IF i - 1 = n THEN 0 ELSE f[i]
      BY <3>1, <1>1 DEF IsFreeList
    <3>4. i # m => i \in 1 .. n
      BY <3>1
    <3>5. i - 1 = n <=> i = m
      OBVIOUS
    <3> QED BY <3>2, <3>3, <3>4, <3>5, <1>8
  <2> QED BY <2>1, <2>2
<1>15. free_task' = IF m = 0 THEN 0 ELSE g[1]
  BY <1>6, <1>9
<1> HIDE DEF m
<1>16. IsFreeList(g, m)'
  BY <1>12, <1>13, <1>14, <1>15 DEF IsFreeList
<1> QED BY <1>4, <1>5, <1>16 DEF FreeChain

(* A chain that visits no slot twice is no longer than the pool. *)
LEMMA FreeChainBounded ==
  ASSUME FreeChain
  PROVE  FreeListOK
<1>0. PICK n \in Nat : \E f \in [1 .. n -> Handle] : IsFreeList(f, n)
  BY DEF FreeChain
<1>1. PICK f \in [1 .. n -> Handle] : IsFreeList(f, n)
  BY <1>0
<1>2. MaxTasks \in Nat
  BY PoolAssumption
<1>3. ASSUME n > MaxTasks PROVE FALSE
  <2>1. /\ IsFiniteSet(1 .. n) /\ IsFiniteSet(Handle)
        /\ Cardinality(Handle) < Cardinality(1 .. n)
    <3>1. 1 \in Int /\ n \in Int /\ MaxTasks \in Int
      BY <1>2
    <3>2. IsFiniteSet(1 .. n) /\ Cardinality(1 .. n) = IF 1 > n THEN 0 ELSE n - 1 + 1
      BY <3>1, FS_Interval
    <3>3. IsFiniteSet(1 .. MaxTasks)
          /\ Cardinality(1 .. MaxTasks) = IF 1 > MaxTasks THEN 0 ELSE MaxTasks - 1 + 1
      BY <3>1, FS_Interval
    <3> QED BY <3>2, <3>3, <1>2, <1>3 DEF Handle
  <2>2. \E i, j \in 1 .. n : i # j /\ f[i] = f[j]
    BY <2>1, FS_PigeonHole
  <2> QED BY <2>2, <1>1 DEF IsFreeList
<1>4. n \in 0 .. MaxTasks
  BY <1>2, <1>3
<1> QED BY <1>1, <1>4 DEF FreeListOK
==============================================================================
