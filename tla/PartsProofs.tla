----------------------------- MODULE PartsProofs -----------------------------
(***************************************************************************)
(* The theorems about the parts that work alone: the ring queue, the hash  *)
(* map, the arena, the list of clients, the packed arguments, the strings  *)
(* and the string references.  Each is proved for its own specification, a *)
(* section each; the last section says the same of Parts, where they stand *)
(* side by side.                                                           *)
(***************************************************************************)
EXTENDS Parts, SequenceLemmas, FiniteSetTheorems

(***************************************************************************)
(* The ring queue.                                                         *)
(*                                                                         *)
(* Contents(Queue) is the queue as a sequence; each macro does to it what  *)
(* Deque says.  An invariant of the indices is enough: the cells between   *)
(* start and end are only described by what was stored there.              *)
(***************************************************************************)
(* The modulo of __queue_next, as the comparison it amounts to. *)
LEMMA NextWraps ==
  ASSUME NEW c \in Nat, NEW x \in 0 .. c - 1
  PROVE  Ring!QueueNext(x, c) = IF x + 1 = c THEN 0 ELSE x + 1
BY DEF Ring!QueueNext

(* The modulo of a number smaller than the divisor. *)
LEMMA SmallModulo ==
  ASSUME NEW c \in Nat, NEW x \in 0 .. c - 1
  PROVE  x % c = x
OBVIOUS

(* The indices of a well-formed queue, as facts of arithmetic. *)
LEMMA Indices ==
  ASSUME NEW q, Ring!WellFormed(q)
  PROVE  /\ q.cap \in Nat /\ q.start \in Nat /\ q.end \in Nat
         /\ q.cap = 0 => q.start = 0 /\ q.end = 0
         /\ q.cap # 0 => q.start < q.cap /\ q.end < q.cap
BY DEF Ring!WellFormed

(* The contents of a well-formed queue are a sequence of cells. *)
LEMMA ContentsIsSeq ==
  ASSUME NEW q, Ring!WellFormed(q)
  PROVE  /\ Ring!Count(q) \in Nat
         /\ q.cap # 0 => Ring!Count(q) \in 0 .. q.cap - 1
         /\ q.cap = 0 => Ring!Count(q) = 0
         /\ \A i \in 1 .. Ring!Count(q) : Ring!Cell(q, i) \in 0 .. q.cap - 1
         /\ Ring!Contents(q) \in Seq(Elem \cup {Junk})
         /\ Len(Ring!Contents(q)) = Ring!Count(q)
<1>1. /\ Ring!Count(q) \in Nat
      /\ q.cap # 0 => Ring!Count(q) \in 0 .. q.cap - 1
      /\ q.cap = 0 => Ring!Count(q) = 0
  BY DEF Ring!Count, Ring!WellFormed
<1>2. ASSUME NEW i \in 1 .. Ring!Count(q) PROVE Ring!Cell(q, i) \in 0 .. q.cap - 1
  <2>1. i \in Nat /\ 1 <= i /\ i <= Ring!Count(q) /\ q.cap \in Nat /\ q.cap # 0
    BY <1>1 DEF Ring!WellFormed
  <2>2. q.start \in 0 .. q.cap - 1 /\ q.end \in 0 .. q.cap - 1
    BY <2>1 DEF Ring!WellFormed
  <2>3. q.start + i - 1 < q.cap => Ring!Cell(q, i) = q.start + i - 1
    BY DEF Ring!Cell
  <2>4. ~ (q.start + i - 1 < q.cap) => Ring!Cell(q, i) = q.start + i - 1 - q.cap
    BY DEF Ring!Cell
  <2>5. i < q.cap
    BY <2>1, <1>1
  <2> QED BY <2>1, <2>2, <2>3, <2>4, <2>5
<1>3. Ring!Contents(q) \in [1 .. Ring!Count(q) -> Elem \cup {Junk}]
  BY <1>2 DEF Ring!Contents, Ring!WellFormed
<1> QED BY <1>1, <1>2, <1>3

(* Growing the array keeps the contents and leaves room for another push. *)
LEMMA ExpandKeepsContents ==
  ASSUME NEW q, Ring!WellFormed(q)
  PROVE  /\ Ring!WellFormed(Ring!Expand(q))
         /\ Ring!Contents(Ring!Expand(q)) = Ring!Contents(q)
         /\ Ring!Expand(q).cap > 0
         /\ Ring!Count(Ring!Expand(q)) + 1 < Ring!Expand(q).cap
<1> DEFINE r == Ring!Expand(q)
           wraps == q.end < q.start
<1>0. Growth \in Nat /\ Growth > 1
  BY PartsAssumption DEF Ring!RingAssumption
<1>1. /\ r.cap = q.cap * 2 + Growth /\ r.cap \in Nat /\ r.start = q.start
      /\ r.end = IF wraps THEN q.cap + q.end ELSE q.end
  <2>1. wraps => q.cap + q.end \in 0 .. (q.cap * 2 + Growth) - 1
    BY <1>0 DEF Ring!WellFormed
  <2>2. wraps => (q.cap + q.end) % (q.cap * 2 + Growth) = q.cap + q.end
    <3>1. q.cap * 2 + Growth \in Nat
      BY <1>0 DEF Ring!WellFormed
    <3> HIDE DEF wraps
    <3> QED BY <2>1, <3>1, SmallModulo
  <2> QED BY <2>2, <1>0 DEF Ring!Expand, Ring!WellFormed
<1>2. r.elems = [i \in 0 .. r.cap - 1 |->
                   IF i < q.cap THEN q.elems[i]
                   ELSE IF wraps /\ i < q.cap + q.end THEN q.elems[i - q.cap]
                   ELSE Junk]
  BY DEF Ring!Expand
<1> HIDE DEF r
<1>3. r.elems \in [0 .. r.cap - 1 -> Elem \cup {Junk}]
  <2> SUFFICES ASSUME NEW i \in 0 .. r.cap - 1
               PROVE  r.elems[i] \in Elem \cup {Junk}
    BY <1>2
  <2>1. CASE i < q.cap
    <3>1. i \in 0 .. q.cap - 1
      BY <2>1, <1>1 DEF Ring!WellFormed
    <3>2. r.elems[i] = q.elems[i]
      BY <2>1, <1>2
    <3> QED BY <3>1, <3>2 DEF Ring!WellFormed
  <2>2. CASE i >= q.cap /\ wraps /\ i < q.cap + q.end
    <3>1. i - q.cap \in 0 .. q.cap - 1
      BY <2>2, <1>1 DEF Ring!WellFormed
    <3>2. r.elems[i] = q.elems[i - q.cap]
      BY <2>2, <1>1, <1>2 DEF Ring!WellFormed
    <3> QED BY <3>1, <3>2 DEF Ring!WellFormed
  <2>3. CASE i >= q.cap /\ ~ (wraps /\ i < q.cap + q.end)
    BY <2>3, <1>1, <1>2 DEF Ring!WellFormed
  <2> QED BY <2>1, <2>2, <2>3, <1>1 DEF Ring!WellFormed
<1>i. /\ q.cap \in Nat /\ q.start \in Nat /\ q.end \in Nat
      /\ q.cap = 0 => q.start = 0 /\ q.end = 0
      /\ q.cap # 0 => q.start < q.cap /\ q.end < q.cap
  BY Indices
<1>4. Ring!WellFormed(r)
  <2>1. r.cap # 0 /\ r.start \in 0 .. r.cap - 1
    BY <1>0, <1>1, <1>i
  <2>2. r.end \in 0 .. r.cap - 1
    BY <1>0, <1>1, <1>i
  <2> QED BY <2>1, <2>2, <1>1, <1>3 DEF Ring!WellFormed
<1>5. Ring!Count(r) = Ring!Count(q)
  <2>1. CASE wraps
    BY <2>1, <1>1, <1>i DEF Ring!Count
  <2>2. CASE ~ wraps
    BY <2>2, <1>1, <1>i DEF Ring!Count
  <2> QED BY <2>1, <2>2
<1>6. \A i \in 1 .. Ring!Count(q) : r.elems[Ring!Cell(r, i)] = q.elems[Ring!Cell(q, i)]
  <2> SUFFICES ASSUME NEW i \in 1 .. Ring!Count(q)
               PROVE  r.elems[Ring!Cell(r, i)] = q.elems[Ring!Cell(q, i)]
    OBVIOUS
  <2> DEFINE k == q.start + i - 1
  <2>1. k \in Nat /\ k < q.start + Ring!Count(q) /\ q.cap # 0
    BY <1>i, ContentsIsSeq
  <2>2. CASE k < q.cap
    <3>1. k < r.cap /\ k \in 0 .. r.cap - 1
      BY <2>1, <2>2, <1>i, <1>1, <1>0
    <3>2. Ring!Cell(q, i) = k /\ Ring!Cell(r, i) = k
      BY <2>1, <2>2, <3>1, <1>1 DEF Ring!Cell
    <3> QED BY <3>1, <3>2, <2>2, <1>2
  <2>3. CASE k >= q.cap
    <3>1. wraps /\ k < q.cap + q.end
      BY <2>1, <2>3, <1>i DEF Ring!Count
    <3>2. k < r.cap /\ k \in 0 .. r.cap - 1
      BY <2>1, <3>1, <1>i, <1>1, <1>0
    <3>3. Ring!Cell(q, i) = k - q.cap /\ Ring!Cell(r, i) = k
      BY <2>1, <2>3, <3>2, <1>1, <1>i DEF Ring!Cell
    <3>4. r.elems[k] = q.elems[k - q.cap]
      BY <3>1, <3>2, <2>3, <2>1, <1>2, <1>i
    <3> QED BY <3>3, <3>4
  <2> QED BY <2>1, <2>2, <2>3, <1>i
<1>7. Ring!Contents(r) = Ring!Contents(q)
  BY <1>5, <1>6 DEF Ring!Contents
<1>9. r.cap > 0 /\ Ring!Count(r) + 1 < r.cap
  <2>1. /\ Ring!Count(q) \in Nat /\ (q.cap # 0 => Ring!Count(q) <= q.cap - 1)
        /\ q.cap = 0 => Ring!Count(q) = 0
    BY ContentsIsSeq
  <2> QED BY <2>1, <1>0, <1>1, <1>5, SMTT(30) DEF Ring!WellFormed
<1> QED BY <1>4, <1>7, <1>9 DEF r

(* A push makes sure there is a free cell: at the back ... *)
LEMMA RoomForBack ==
  ASSUME NEW q, Ring!WellFormed(q)
  PROVE  LET r == Ring!RoomAtBack(Ring!Allocated(q))
         IN /\ Ring!WellFormed(r)
            /\ Ring!Contents(r) = Ring!Contents(q)
            /\ r.cap > 0 /\ Ring!Count(r) + 1 < r.cap
<1> DEFINE a == Ring!Allocated(q)
<1>1. Ring!WellFormed(a) /\ Ring!Contents(a) = Ring!Contents(q) /\ a.cap > 0
  BY ExpandKeepsContents, Indices DEF Ring!Allocated
<1> HIDE DEF a
<1>i. /\ a.cap \in Nat /\ a.start \in Nat /\ a.end \in Nat
      /\ a.start < a.cap /\ a.end < a.cap
  BY <1>1, Indices
<1>2. CASE Ring!QueueNext(a.end, a.cap) = a.start
  BY <1>1, <1>2, ExpandKeepsContents DEF Ring!RoomAtBack, a
<1>3. CASE Ring!QueueNext(a.end, a.cap) # a.start
  <2>1. (IF a.end + 1 = a.cap THEN 0 ELSE a.end + 1) # a.start
    BY <1>3, <1>i, NextWraps
  <2>2. Ring!Count(a) + 1 < a.cap
    BY <2>1, <1>i DEF Ring!Count
  <2>3. Ring!RoomAtBack(a) = a
    BY <1>3 DEF Ring!RoomAtBack
  <2> QED BY <1>1, <2>2, <2>3 DEF a
<1> QED BY <1>2, <1>3

(* ... or at the front. *)
LEMMA RoomForFront ==
  ASSUME NEW q, Ring!WellFormed(q)
  PROVE  LET r == Ring!RoomAtFront(Ring!Allocated(q))
         IN /\ Ring!WellFormed(r)
            /\ Ring!Contents(r) = Ring!Contents(q)
            /\ r.cap > 0 /\ Ring!Count(r) + 1 < r.cap
<1> DEFINE a == Ring!Allocated(q)
<1>1. Ring!WellFormed(a) /\ Ring!Contents(a) = Ring!Contents(q) /\ a.cap > 0
  BY ExpandKeepsContents, Indices DEF Ring!Allocated
<1> HIDE DEF a
<1>i. /\ a.cap \in Nat /\ a.start \in Nat /\ a.end \in Nat
      /\ a.start < a.cap /\ a.end < a.cap
  BY <1>1, Indices
<1>2. CASE Ring!QueuePrev(a.start, a.cap) = a.end
  BY <1>1, <1>2, ExpandKeepsContents DEF Ring!RoomAtFront, a
<1>3. CASE Ring!QueuePrev(a.start, a.cap) # a.end
  <2>1. Ring!Count(a) + 1 < a.cap
    BY <1>3, <1>i DEF Ring!Count, Ring!QueuePrev
  <2>2. Ring!RoomAtFront(a) = a
    BY <1>3 DEF Ring!RoomAtFront
  <2> QED BY <1>1, <2>1, <2>2 DEF a
<1> QED BY <1>2, <1>3

(* Storing an element in the free cell appends it ... *)
LEMMA StoreAppends ==
  ASSUME NEW q, Ring!WellFormed(q), q.cap > 0, Ring!Count(q) + 1 < q.cap, NEW e \in Elem
  PROVE  LET r == Ring!StoredAtBack(q, e)
         IN /\ Ring!WellFormed(r)
            /\ Ring!Contents(r) = Append(Ring!Contents(q), e)
<1> DEFINE r == Ring!StoredAtBack(q, e)
<1>i. /\ q.cap \in Nat /\ q.start \in Nat /\ q.end \in Nat
      /\ q.start < q.cap /\ q.end < q.cap
  BY Indices
<1>1. /\ r.elems = [q.elems EXCEPT ![q.end] = e] /\ r.cap = q.cap
      /\ r.start = q.start /\ r.end = Ring!QueueNext(q.end, q.cap)
  BY DEF Ring!StoredAtBack
<1> HIDE DEF r
<1>2. r.end = IF q.end + 1 = q.cap THEN 0 ELSE q.end + 1
  BY <1>1, <1>i, NextWraps
<1>3. Ring!WellFormed(r)
  <2>1. r.elems \in [0 .. r.cap - 1 -> Elem \cup {Junk}]
    BY <1>1 DEF Ring!WellFormed
  <2>2. r.cap # 0 /\ r.start \in 0 .. r.cap - 1 /\ r.end \in 0 .. r.cap - 1
    BY <1>1, <1>2, <1>i
  <2> QED BY <2>1, <2>2, <1>1, <1>i DEF Ring!WellFormed
<1>4. Ring!Count(r) = Ring!Count(q) + 1
  BY <1>1, <1>2, <1>i DEF Ring!Count
<1>5. \A i \in 1 .. Ring!Count(q) : /\ Ring!Cell(r, i) = Ring!Cell(q, i)
                                     /\ r.elems[Ring!Cell(q, i)] = q.elems[Ring!Cell(q, i)]
  <2> SUFFICES ASSUME NEW i \in 1 .. Ring!Count(q)
               PROVE  /\ Ring!Cell(r, i) = Ring!Cell(q, i)
                      /\ r.elems[Ring!Cell(q, i)] = q.elems[Ring!Cell(q, i)]
    OBVIOUS
  <2>1. Ring!Cell(r, i) = Ring!Cell(q, i)
    BY <1>1 DEF Ring!Cell
  <2>2. Ring!Cell(q, i) # q.end
    BY <1>i DEF Ring!Cell, Ring!Count
  <2>3. Ring!Cell(q, i) \in 0 .. q.cap - 1
    BY ContentsIsSeq
  <2> QED BY <2>1, <2>2, <2>3, <1>1 DEF Ring!WellFormed
<1>6. Ring!Cell(r, Ring!Count(q) + 1) = q.end
  BY <1>1, <1>i DEF Ring!Cell, Ring!Count
<1>7. r.elems[q.end] = e
  BY <1>1, <1>i DEF Ring!WellFormed
<1>8. Ring!Contents(r) = Append(Ring!Contents(q), e)
  <2>1. /\ Ring!Contents(r) \in Seq(Elem \cup {Junk}) /\ Len(Ring!Contents(r)) = Ring!Count(q) + 1
        /\ Ring!Contents(q) \in Seq(Elem \cup {Junk}) /\ Len(Ring!Contents(q)) = Ring!Count(q)
        /\ Ring!Count(q) \in Nat
    BY <1>3, <1>4, ContentsIsSeq
  <2>2. \A i \in 1 .. Ring!Count(q) : Ring!Contents(r)[i] = Ring!Contents(q)[i]
    BY <1>4, <1>5, <2>1 DEF Ring!Contents
  <2>3. Ring!Contents(r)[Ring!Count(q) + 1] = e
    BY <1>4, <1>6, <1>7, <2>1 DEF Ring!Contents
  <2> HIDE DEF r
  <2> QED BY <2>1, <2>2, <2>3, SMTT(30)
<1> QED BY <1>3, <1>8 DEF r

(* ... or puts it before the others. *)
LEMMA StorePrepends ==
  ASSUME NEW q, Ring!WellFormed(q), q.cap > 0, Ring!Count(q) + 1 < q.cap, NEW e \in Elem
  PROVE  LET r == Ring!StoredAtFront(q, e)
         IN /\ Ring!WellFormed(r)
            /\ Ring!Contents(r) = <<e>> \o Ring!Contents(q)
<1> DEFINE r == Ring!StoredAtFront(q, e)
           s == Ring!QueuePrev(q.start, q.cap)
<1>i. /\ q.cap \in Nat /\ q.start \in Nat /\ q.end \in Nat
      /\ q.start < q.cap /\ q.end < q.cap
  BY Indices
<1>1. /\ r.elems = [q.elems EXCEPT ![s] = e] /\ r.cap = q.cap
      /\ r.start = s /\ r.end = q.end
  BY DEF Ring!StoredAtFront
<1>2. s = IF q.start = 0 THEN q.cap - 1 ELSE q.start - 1
  BY DEF Ring!QueuePrev
<1> HIDE DEF r, s
<1>3. Ring!WellFormed(r)
  <2>1. r.elems \in [0 .. r.cap - 1 -> Elem \cup {Junk}]
    BY <1>1 DEF Ring!WellFormed
  <2>2. r.cap # 0 /\ r.start \in 0 .. r.cap - 1 /\ r.end \in 0 .. r.cap - 1
    BY <1>1, <1>2, <1>i
  <2> QED BY <2>1, <2>2, <1>1, <1>i DEF Ring!WellFormed
<1>4. Ring!Count(r) = Ring!Count(q) + 1
  BY <1>1, <1>2, <1>i DEF Ring!Count
<1>5. \A i \in 1 .. Ring!Count(q) : /\ Ring!Cell(r, i + 1) = Ring!Cell(q, i)
                                     /\ r.elems[Ring!Cell(q, i)] = q.elems[Ring!Cell(q, i)]
  <2> SUFFICES ASSUME NEW i \in 1 .. Ring!Count(q)
               PROVE  /\ Ring!Cell(r, i + 1) = Ring!Cell(q, i)
                      /\ r.elems[Ring!Cell(q, i)] = q.elems[Ring!Cell(q, i)]
    OBVIOUS
  <2>0. Ring!Count(q) \in Nat
    BY ContentsIsSeq
  <2>1. Ring!Cell(r, i + 1) = Ring!Cell(q, i)
    BY <1>1, <1>2, <1>i, <2>0 DEF Ring!Cell
  <2>2. Ring!Cell(q, i) # s
    BY <1>i, <1>2 DEF Ring!Cell, Ring!Count
  <2>3. Ring!Cell(q, i) \in 0 .. q.cap - 1
    BY ContentsIsSeq
  <2> QED BY <2>1, <2>2, <2>3, <1>1 DEF Ring!WellFormed
<1>6. Ring!Cell(r, 1) = s /\ s \in 0 .. q.cap - 1
  BY <1>1, <1>2, <1>i DEF Ring!Cell
<1>7. r.elems[s] = e
  BY <1>1, <1>6 DEF Ring!WellFormed
<1>8. Ring!Contents(r) = <<e>> \o Ring!Contents(q)
  <2>1. /\ Ring!Contents(r) \in Seq(Elem \cup {Junk}) /\ Len(Ring!Contents(r)) = Ring!Count(q) + 1
        /\ Ring!Contents(q) \in Seq(Elem \cup {Junk}) /\ Len(Ring!Contents(q)) = Ring!Count(q)
        /\ Ring!Count(q) \in Nat
    BY <1>3, <1>4, ContentsIsSeq
  <2>2. \A i \in 1 .. Ring!Count(q) : Ring!Contents(r)[i + 1] = Ring!Contents(q)[i]
    BY <1>4, <1>5, <2>1 DEF Ring!Contents
  <2>3. Ring!Contents(r)[1] = e
    BY <1>4, <1>6, <1>7, <2>1 DEF Ring!Contents
  <2> DEFINE c == Ring!Contents(q)  d == Ring!Contents(r)  t == <<e>> \o c
  <2>4. /\ t \in Seq(Elem \cup {Junk}) /\ Len(t) = Ring!Count(q) + 1
        /\ \A i \in 1 .. Ring!Count(q) + 1 : t[i] = IF i <= 1 THEN e ELSE c[i - 1]
    BY <2>1, ConcatProperties
  <2> HIDE DEF c, d, t
  <2>5. \A i \in 1 .. Len(d) : d[i] = t[i]
    <3> SUFFICES ASSUME NEW i \in 1 .. Ring!Count(q) + 1
                 PROVE  d[i] = t[i]
      BY <2>1 DEF d
    <3>1. CASE i = 1
      BY <3>1, <2>3, <2>4, <2>1 DEF d
    <3>2. CASE i # 1
      <4>1. i - 1 \in 1 .. Ring!Count(q) /\ (i - 1) + 1 = i
        BY <3>2, <2>1
      <4>2. d[(i - 1) + 1] = c[i - 1]
        BY <4>1, <2>2 DEF d, c
      <4>3. t[i] = c[i - 1]
        BY <3>2, <2>4, <4>1, <2>1
      <4> QED BY <4>1, <4>2, <4>3
    <3> QED BY <3>1, <3>2
  <2>6. d = t
    BY <2>1, <2>4, <2>5, SeqEqual DEF d
  <2> QED BY <2>6 DEF d, t, c
<1> QED BY <1>3, <1>8 DEF r

(* The four operations, in terms of the contents: queue_push_back ... *)
LEMMA PushBackAppends ==
  ASSUME Ring!TypeOK, NEW e \in Elem, Ring!PushBack(e)
  PROVE  Ring!TypeOK' /\ Ring!Contents(Ring!Queue') = Append(Ring!Contents(Ring!Queue), e)
<1> DEFINE r == Ring!RoomAtBack(Ring!Allocated(Ring!Queue))
           t == Ring!StoredAtBack(r, e)
<1>1. /\ Ring!WellFormed(r) /\ Ring!Contents(r) = Ring!Contents(Ring!Queue)
      /\ r.cap > 0 /\ Ring!Count(r) + 1 < r.cap
  BY RoomForBack DEF Ring!TypeOK
<1>2. Ring!WellFormed(t) /\ Ring!Contents(t) = Append(Ring!Contents(r), e)
  <2> HIDE DEF r
  <2> QED BY <1>1, StoreAppends
<1>3. Ring!Queue' = t
  BY DEF Ring!PushBack, Ring!Become, Ring!Queue, Ring!StoredAtBack
<1> HIDE DEF t
<1> QED BY <1>1, <1>2, <1>3 DEF Ring!TypeOK

(* queue_push_front ... *)
LEMMA PushFrontPrepends ==
  ASSUME Ring!TypeOK, NEW e \in Elem, Ring!PushFront(e)
  PROVE  Ring!TypeOK' /\ Ring!Contents(Ring!Queue') = <<e>> \o Ring!Contents(Ring!Queue)
<1> DEFINE r == Ring!RoomAtFront(Ring!Allocated(Ring!Queue))
           t == Ring!StoredAtFront(r, e)
<1>1. /\ Ring!WellFormed(r) /\ Ring!Contents(r) = Ring!Contents(Ring!Queue)
      /\ r.cap > 0 /\ Ring!Count(r) + 1 < r.cap
  BY RoomForFront DEF Ring!TypeOK
<1>2. Ring!WellFormed(t) /\ Ring!Contents(t) = <<e>> \o Ring!Contents(r)
  <2> HIDE DEF r
  <2> QED BY <1>1, StorePrepends
<1>3. Ring!Queue' = t
  BY DEF Ring!PushFront, Ring!Become, Ring!Queue, Ring!StoredAtFront
<1> HIDE DEF t
<1> QED BY <1>1, <1>2, <1>3 DEF Ring!TypeOK

(* ... queue_pop_front ... *)
LEMMA PopFrontRemoves ==
  ASSUME Ring!TypeOK, Ring!PopFront
  PROVE  /\ Ring!TypeOK'
         /\ Ring!Contents(Ring!Queue) # <<>>
         /\ Ring!Contents(Ring!Queue') = Tail(Ring!Contents(Ring!Queue))
<1> DEFINE q == Ring!Queue  r == Ring!Queue'
<1>i. /\ q.cap \in Nat /\ q.start \in Nat /\ q.end \in Nat
      /\ q.start < q.cap /\ q.end < q.cap /\ q.start # q.end
  BY Indices DEF Ring!TypeOK, Ring!PopFront, Ring!Queue
<1>1. /\ r.elems = q.elems /\ r.cap = q.cap /\ r.end = q.end
      /\ r.start = Ring!QueueNext(q.start, q.cap)
  BY DEF Ring!PopFront, Ring!Queue
<1>0. Ring!WellFormed(q)
  BY DEF Ring!TypeOK
<1> HIDE DEF q, r
<1>2. r.start = IF q.start + 1 = q.cap THEN 0 ELSE q.start + 1
  BY <1>1, <1>i, NextWraps
<1>3. Ring!WellFormed(r)
  BY <1>0, <1>1, <1>2, <1>i DEF Ring!WellFormed
<1>4. Ring!Count(q) \in Nat /\ Ring!Count(q) > 0 /\ Ring!Count(r) = Ring!Count(q) - 1
  BY <1>1, <1>2, <1>i DEF Ring!Count
<1>5. \A i \in 1 .. Ring!Count(r) : Ring!Cell(r, i) = Ring!Cell(q, i + 1)
  <2>1. Ring!Count(q) < q.cap
    BY <1>0, <1>i, ContentsIsSeq
  <2>2. CASE q.start + 1 = q.cap
    BY <2>1, <2>2, <1>1, <1>2, <1>i, <1>4 DEF Ring!Cell
  <2>3. CASE q.start + 1 # q.cap
    BY <2>3, <1>1, <1>2, <1>i, <1>4 DEF Ring!Cell
  <2> QED BY <2>2, <2>3
<1>6. /\ Ring!Contents(r) \in Seq(Elem \cup {Junk}) /\ Len(Ring!Contents(r)) = Ring!Count(q) - 1
      /\ Ring!Contents(q) \in Seq(Elem \cup {Junk}) /\ Len(Ring!Contents(q)) = Ring!Count(q)
  BY <1>0, <1>3, <1>4, ContentsIsSeq
<1>7. \A i \in 1 .. Ring!Count(r) : Ring!Contents(r)[i] = Ring!Contents(q)[i + 1]
  BY <1>1, <1>4, <1>5 DEF Ring!Contents
<1>8. Ring!Contents(q) # <<>>
  BY <1>4, <1>6
<1>9. Ring!Contents(r) = Tail(Ring!Contents(q))
  <2> DEFINE c == Ring!Contents(q)  d == Ring!Contents(r)
  <2>1. /\ Tail(c) \in Seq(Elem \cup {Junk}) /\ Len(Tail(c)) = Ring!Count(q) - 1
        /\ \A i \in 1 .. Len(Tail(c)) : Tail(c)[i] = c[i + 1]
    BY <1>6, <1>8, HeadTailProperties
  <2> QED BY <2>1, <1>4, <1>6, <1>7, SeqEqual
<1> QED BY <1>3, <1>8, <1>9 DEF Ring!TypeOK, q, r

(* ... and queue_pop_back. *)
LEMMA PopBackRemoves ==
  ASSUME Ring!TypeOK, Ring!PopBack
  PROVE  /\ Ring!TypeOK'
         /\ Ring!Contents(Ring!Queue) # <<>>
         /\ Ring!Contents(Ring!Queue')
              = SubSeq(Ring!Contents(Ring!Queue), 1, Len(Ring!Contents(Ring!Queue)) - 1)
<1> DEFINE q == Ring!Queue  r == Ring!Queue'
<1>i. /\ q.cap \in Nat /\ q.start \in Nat /\ q.end \in Nat
      /\ q.start < q.cap /\ q.end < q.cap /\ q.start # q.end
  BY Indices DEF Ring!TypeOK, Ring!PopBack, Ring!Queue
<1>1. /\ r.elems = q.elems /\ r.cap = q.cap /\ r.start = q.start
      /\ r.end = Ring!QueuePrev(q.end, q.cap)
  BY DEF Ring!PopBack, Ring!Queue
<1>0. Ring!WellFormed(q)
  BY DEF Ring!TypeOK
<1> HIDE DEF q, r
<1>2. r.end = IF q.end = 0 THEN q.cap - 1 ELSE q.end - 1
  BY <1>1 DEF Ring!QueuePrev
<1>3. Ring!WellFormed(r)
  BY <1>0, <1>1, <1>2, <1>i DEF Ring!WellFormed
<1>4. Ring!Count(q) \in Nat /\ Ring!Count(q) > 0 /\ Ring!Count(r) = Ring!Count(q) - 1
  BY <1>1, <1>2, <1>i DEF Ring!Count
<1>5. \A i \in 1 .. Ring!Count(r) : Ring!Cell(r, i) = Ring!Cell(q, i)
  BY <1>1 DEF Ring!Cell
<1>6. /\ Ring!Contents(r) \in Seq(Elem \cup {Junk}) /\ Len(Ring!Contents(r)) = Ring!Count(q) - 1
      /\ Ring!Contents(q) \in Seq(Elem \cup {Junk}) /\ Len(Ring!Contents(q)) = Ring!Count(q)
  BY <1>0, <1>3, <1>4, ContentsIsSeq
<1>7. \A i \in 1 .. Ring!Count(r) : Ring!Contents(r)[i] = Ring!Contents(q)[i]
  BY <1>1, <1>4, <1>5 DEF Ring!Contents
<1>8. Ring!Contents(q) # <<>>
  BY <1>4, <1>6
<1>9. Ring!Contents(r) = SubSeq(Ring!Contents(q), 1, Len(Ring!Contents(q)) - 1)
  <2> DEFINE c == Ring!Contents(q)  d == Ring!Contents(r)  n == Len(Ring!Contents(q)) - 1
  <2>1. n \in Int /\ n = Ring!Count(q) - 1 /\ \A i \in 1 .. n : c[i] \in Elem \cup {Junk}
    BY <1>4, <1>6, ElementOfSeq
  <2> HIDE DEF n
  <2>2. /\ SubSeq(c, 1, n) \in Seq(Elem \cup {Junk})
        /\ Len(SubSeq(c, 1, n)) = IF 1 <= n THEN n - 1 + 1 ELSE 0
        /\ \A i \in 1 .. n - 1 + 1 : SubSeq(c, 1, n)[i] = c[1 + i - 1]
    BY <2>1, SubSeqProperties
  <2>3. Len(SubSeq(c, 1, n)) = Len(d) /\ \A i \in 1 .. Len(d) : d[i] = SubSeq(c, 1, n)[i]
    BY <2>1, <2>2, <1>4, <1>6, <1>7
  <2>4. d = SubSeq(c, 1, n)
    BY <2>2, <2>3, <1>6, SeqEqual
  <2> QED BY <2>4 DEF n
<1> QED BY <1>3, <1>8, <1>9 DEF Ring!TypeOK, q, r

(* The queue starts empty. *)
LEMMA InitEmpty ==
  ASSUME Ring!Init
  PROVE  Ring!TypeOK /\ Ring!Contents(Ring!Queue) = <<>>
<1>1. Ring!TypeOK
  BY DEF Ring!Init, Ring!TypeOK, Ring!WellFormed, Ring!Queue
<1>2. Ring!Count(Ring!Queue) = 0
  BY DEF Ring!Init, Ring!Count, Ring!Queue
<1> QED BY <1>1, <1>2, ContentsIsSeq, EmptySeq DEF Ring!TypeOK

(* Every operation keeps the indices inside the array. *)
LEMMA TypeOKInductive ==
  ASSUME Ring!TypeOK, [Ring!Next]_ringVars
  PROVE  Ring!TypeOK'
<1>1. CASE UNCHANGED ringVars
  BY <1>1 DEF ringVars, Ring!TypeOK, Ring!Queue
<1>2. CASE Ring!Next
  BY <1>2, PushBackAppends, PushFrontPrepends, PopFrontRemoves, PopBackRemoves DEF Ring!Next
<1> QED BY <1>1, <1>2

(* No junk in the queue means that its contents are elements. *)
LEMMA NoJunkMeansElements ==
  ASSUME Ring!TypeOK
  PROVE  Ring!NoJunkInside <=> Ring!Contents(Ring!Queue) \in Seq(Elem)
<1>1. /\ Ring!Contents(Ring!Queue) \in Seq(Elem \cup {Junk})
      /\ Len(Ring!Contents(Ring!Queue)) = Ring!Count(Ring!Queue)
      /\ Ring!Count(Ring!Queue) \in Nat
  BY ContentsIsSeq DEF Ring!TypeOK
<1> DEFINE c == Ring!Contents(Ring!Queue)
<1>2. ASSUME Ring!NoJunkInside PROVE c \in Seq(Elem)
  <2>1. c \in [1 .. Len(c) -> Elem \cup {Junk}]
    BY <1>1, LenProperties
  <2>2. c \in [1 .. Len(c) -> Elem]
    BY <2>1, <1>1, <1>2 DEF Ring!NoJunkInside
  <2> QED BY <2>2, <1>1
<1>3. ASSUME c \in Seq(Elem) PROVE Ring!NoJunkInside
  BY <1>1, <1>3, ElementOfSeq DEF Ring!NoJunkInside
<1> QED BY <1>2, <1>3

(* No operation lets junk into the queue. *)
LEMMA NoJunkInductive ==
  ASSUME Ring!TypeOK, Ring!NoJunkInside, [Ring!Next]_ringVars
  PROVE  Ring!NoJunkInside'
<1> DEFINE c == Ring!Contents(Ring!Queue)  d == Ring!Contents(Ring!Queue')
<1>1. c \in Seq(Elem)
  BY NoJunkMeansElements
<1>2. Ring!TypeOK'
  BY TypeOKInductive
<1>3. Ring!NoJunkInside' <=> d \in Seq(Elem)
  <2>1. /\ d \in Seq(Elem \cup {Junk}) /\ Len(d) = Ring!Count(Ring!Queue') /\ Ring!Count(Ring!Queue') \in Nat
    BY <1>2, ContentsIsSeq DEF Ring!TypeOK
  <2>2. ASSUME Ring!NoJunkInside' PROVE d \in Seq(Elem)
    <3>1. d \in [1 .. Len(d) -> Elem \cup {Junk}]
      BY <2>1, LenProperties
    <3>2. d \in [1 .. Len(d) -> Elem]
      BY <3>1, <2>1, <2>2 DEF Ring!NoJunkInside
    <3> QED BY <3>2, <2>1
  <2>3. ASSUME d \in Seq(Elem) PROVE Ring!NoJunkInside'
    BY <2>1, <2>3, ElementOfSeq DEF Ring!NoJunkInside
  <2> QED BY <2>2, <2>3
<1>4. d \in Seq(Elem)
  <2>1. CASE UNCHANGED ringVars
    BY <2>1, <1>1 DEF ringVars, Ring!Queue
  <2>2. ASSUME NEW e \in Elem, Ring!PushBack(e) PROVE d \in Seq(Elem)
    BY <2>2, <1>1, PushBackAppends
  <2>3. ASSUME NEW e \in Elem, Ring!PushFront(e) PROVE d \in Seq(Elem)
    <3>1. d = <<e>> \o c /\ <<e>> \in Seq(Elem)
      BY <2>3, PushFrontPrepends
    <3> HIDE DEF c, d
    <3> QED BY <3>1, <1>1, ConcatProperties
  <2>4. CASE Ring!PopFront
    BY <2>4, <1>1, PopFrontRemoves, HeadTailProperties
  <2>5. CASE Ring!PopBack
    <3>1. c # <<>> /\ d = SubSeq(c, 1, Len(c) - 1)
      BY <2>5, PopBackRemoves
    <3>2. \A i \in 1 .. Len(c) - 1 : c[i] \in Elem
      BY <1>1, ElementOfSeq
    <3> QED BY <3>1, <3>2, <1>1, SubSeqProperties
  <2> QED BY <2>1, <2>2, <2>3, <2>4, <2>5 DEF Ring!Next
<1> QED BY <1>3, <1>4

(* RingOK: whatever is pushed and popped, no macro of storage.h accesses memory
   outside the array, and what is read from the queue was pushed: no cell that
   nobody wrote is part of its contents, also after an expansion of a wrapped
   queue. *)
THEOREM RingCorrect == Ring!Spec => []RingOK
<1>1. Ring!Init => RingOK
  BY InitEmpty, NoJunkMeansElements, EmptySeq DEF RingOK
<1>2. RingOK /\ [Ring!Next]_ringVars => RingOK'
  BY TypeOKInductive, NoJunkInductive DEF RingOK
<1> QED BY <1>1, <1>2, PTL DEF Ring!Spec, Ring!vars, ringVars

(* Each macro does to the contents what the operation of Deque does. *)
LEMMA StepRefines ==
  ASSUME Ring!TypeOK, [Ring!Next]_ringVars
  PROVE  [Ring!Abstract!Next]_(Ring!Contents(Ring!Queue))
<1>1. CASE UNCHANGED ringVars
  BY <1>1 DEF ringVars, Ring!Queue
<1>2. ASSUME NEW e \in Elem, Ring!PushBack(e) PROVE Ring!Abstract!PushBack(e)
  BY <1>2, PushBackAppends DEF Ring!Abstract!PushBack
<1>3. ASSUME NEW e \in Elem, Ring!PushFront(e) PROVE Ring!Abstract!PushFront(e)
  BY <1>3, PushFrontPrepends DEF Ring!Abstract!PushFront
<1>4. CASE Ring!PopFront
  BY <1>4, PopFrontRemoves DEF Ring!Abstract!PopFront, Ring!Abstract!Next
<1>5. CASE Ring!PopBack
  BY <1>5, PopBackRemoves DEF Ring!Abstract!PopBack, Ring!Abstract!Next
<1> QED BY <1>1, <1>2, <1>3, <1>4, <1>5 DEF Ring!Next, Ring!Abstract!Next

(* The ring implements the double-ended queue of module Deque, for every capacity
   the array ever grows to. *)
THEOREM RingImplementsDeque == Ring!Spec => ImplementsDeque
<1>1. Ring!Init => Ring!Abstract!Init
  BY InitEmpty DEF Ring!Abstract!Init
<1>2. Ring!TypeOK /\ [Ring!Next]_ringVars => [Ring!Abstract!Next]_(Ring!Contents(Ring!Queue))
  BY StepRefines
<1>3. RingOK => Ring!TypeOK
  BY DEF RingOK
<1> QED BY <1>1, <1>2, <1>3, RingCorrect, PTL
    DEF Ring!Spec, Ring!vars, ringVars, ImplementsDeque, Ring!ImplementsDeque, Ring!Abstract!Spec

(***************************************************************************)
(* The hash map.                                                           *)
(***************************************************************************)
(* Every key has a cell in a table that has any. *)
LEMMA CellInside ==
  ASSUME NEW k \in Nat, NEW m \in Nat \ {0}
  PROVE  Table!CellOf(k, m) \in 0 .. m - 1
BY DEF Table!CellOf

(* The cells of a table of capacity m. *)
Chains(m) == [0 .. m - 1 -> Seq(Table!Node)]

(* No two nodes of a chain, and none of different chains, have one key. *)
DistinctKeys(s) == \A i, j \in DOMAIN s : s[i].key = s[j].key => i = j
(* The nodes of A have other keys than those of B. *)
OtherKeys(A, B) == \A x \in A, y \in B : x.key # y.key
(* A key is on at most one node of the table. *)
KeysOnce(cs) ==
  /\ \A c \in DOMAIN cs : DistinctKeys(cs[c])
  /\ \A c, d \in DOMAIN cs : c # d => OtherKeys(Range(cs[c]), Range(cs[d]))

(* The nodes of chain d are where hash_map_find looks in a table of m cells. *)
Placed(cs, d, m) == \A x \in Range(cs[d]) : Table!CellOf(x.key, m) = d

(* The nodes the chains hold. *)
Stored(cs) == UNION {Range(cs[c]) : c \in DOMAIN cs}

(* What a sequence over S holds is in S. *)
LEMMA RangeIsSubset ==
  ASSUME NEW S, NEW s \in Seq(S)
  PROVE  Range(s) \subseteq S
BY ElementOfSeq, LenProperties DEF Range

(* A node in front of a chain moves the others by one ... *)
LEMMA Prepended ==
  ASSUME NEW S, NEW s \in Seq(S), NEW n \in S
  PROVE  /\ <<n>> \o s \in Seq(S)
         /\ DOMAIN (<<n>> \o s) = 1 .. Len(s) + 1
         /\ (<<n>> \o s)[1] = n
         /\ \A i \in 1 .. Len(s) : (<<n>> \o s)[i + 1] = s[i]
         /\ \A i \in 1 .. Len(s) + 1 : i # 1 => (<<n>> \o s)[i] = s[i - 1]
<1>1. <<n>> \in Seq(S) /\ Len(<<n>>) = 1 /\ <<n>>[1] = n
  OBVIOUS
<1>2. /\ <<n>> \o s \in Seq(S) /\ Len(<<n>> \o s) = 1 + Len(s)
      /\ \A i \in 1 .. 1 + Len(s) : (<<n>> \o s)[i] = IF i <= 1 THEN <<n>>[i] ELSE s[i - 1]
  BY <1>1, ConcatProperties
<1>3. Len(s) \in Nat /\ DOMAIN (<<n>> \o s) = 1 .. Len(<<n>> \o s)
  BY <1>2, LenProperties
<1>4. ASSUME NEW i \in 1 .. Len(s) PROVE (<<n>> \o s)[i + 1] = s[i]
  <2>1. i + 1 \in 1 .. 1 + Len(s) /\ ~ (i + 1 <= 1) /\ (i + 1) - 1 = i
    BY <1>3
  <2> QED BY <1>2, <2>1
<1>5. ASSUME NEW i \in 1 .. Len(s) + 1, i # 1 PROVE (<<n>> \o s)[i] = s[i - 1]
  <2>1. i \in 1 .. 1 + Len(s) /\ ~ (i <= 1)
    BY <1>3, <1>5
  <2> QED BY <1>2, <2>1
<1>6. (<<n>> \o s)[1] = n
  <2>1. 1 \in 1 .. 1 + Len(s) /\ 1 <= 1
    BY <1>3
  <2> QED BY <1>1, <1>2, <2>1
<1> QED BY <1>1, <1>2, <1>3, <1>4, <1>5, <1>6

(* ... and one behind them leaves them where they are. *)
LEMMA Appended ==
  ASSUME NEW S, NEW s \in Seq(S), NEW n \in S
  PROVE  /\ Append(s, n) \in Seq(S)
         /\ DOMAIN Append(s, n) = 1 .. Len(s) + 1
         /\ Append(s, n)[Len(s) + 1] = n
         /\ \A i \in 1 .. Len(s) : Append(s, n)[i] = s[i]
<1>1. Append(s, n) \in Seq(S) /\ Len(Append(s, n)) = Len(s) + 1
  BY AppendProperties
<1>2. DOMAIN Append(s, n) = 1 .. Len(s) + 1
  BY <1>1, LenProperties
<1> QED BY <1>1, <1>2, AppendProperties

(* What a chain holds after a node is pushed on it, at either end. *)
LEMMA Pushed ==
  ASSUME NEW s \in Seq(Table!Node), NEW n \in Table!Node,
         DistinctKeys(s), OtherKeys(Range(s), {n}),
         NEW u \in {Append(s, n), <<n>> \o s}
  PROVE  u \in Seq(Table!Node) /\ DistinctKeys(u) /\ Range(u) = Range(s) \cup {n}
<1>1. Len(s) \in Nat /\ DOMAIN s = 1 .. Len(s)
  BY LenProperties
<1>2. CASE u = Append(s, n)
  <2>1. /\ u \in Seq(Table!Node) /\ DOMAIN u = 1 .. Len(s) + 1 /\ u[Len(s) + 1] = n
        /\ \A i \in 1 .. Len(s) : u[i] = s[i]
    BY <1>2, Appended
  <2>2. DistinctKeys(u)
    <3> SUFFICES ASSUME NEW i \in 1 .. Len(s) + 1, NEW j \in 1 .. Len(s) + 1,
                        u[i].key = u[j].key, i # j
                 PROVE  FALSE
      BY <2>1 DEF DistinctKeys
    <3>1. CASE i \in 1 .. Len(s) /\ j \in 1 .. Len(s)
      BY <3>1, <2>1, <1>1 DEF DistinctKeys
    <3>2. CASE i = Len(s) + 1
      <4>1. j \in 1 .. Len(s) /\ u[j] \in Range(s) /\ u[i] = n
        BY <3>2, <2>1, <1>1 DEF Range
      <4> QED BY <4>1 DEF OtherKeys
    <3>3. CASE j = Len(s) + 1
      <4>1. i \in 1 .. Len(s) /\ u[i] \in Range(s) /\ u[j] = n
        BY <3>3, <2>1, <1>1 DEF Range
      <4> QED BY <4>1 DEF OtherKeys
    <3> QED BY <3>1, <3>2, <3>3, <1>1
  <2>3. Range(u) = Range(s) \cup {n}
    BY <2>1, <1>1 DEF Range
  <2> QED BY <2>1, <2>2, <2>3
<1>3. CASE u = <<n>> \o s
  <2>1. /\ u \in Seq(Table!Node) /\ DOMAIN u = 1 .. Len(s) + 1 /\ u[1] = n
        /\ \A i \in 1 .. Len(s) : u[i + 1] = s[i]
        /\ \A i \in 1 .. Len(s) + 1 : i # 1 => u[i] = s[i - 1]
    BY <1>3, Prepended
  <2>2. DistinctKeys(u)
    <3> SUFFICES ASSUME NEW i \in 1 .. Len(s) + 1, NEW j \in 1 .. Len(s) + 1,
                        u[i].key = u[j].key, i # j
                 PROVE  FALSE
      BY <2>1 DEF DistinctKeys
    <3>1. CASE i # 1 /\ j # 1
      <4>1. i - 1 \in DOMAIN s /\ j - 1 \in DOMAIN s /\ s[i - 1].key = s[j - 1].key
        BY <3>1, <2>1, <1>1
      <4>2. i - 1 = j - 1
        BY <4>1 DEF DistinctKeys
      <4> QED BY <4>2
    <3>2. CASE i = 1
      <4>1. j - 1 \in DOMAIN s /\ u[j] = s[j - 1] /\ u[i] = n
        BY <3>2, <2>1, <1>1
      <4>2. u[j] \in Range(s)
        BY <4>1 DEF Range
      <4> QED BY <4>1, <4>2 DEF OtherKeys
    <3>3. CASE j = 1
      <4>1. i - 1 \in DOMAIN s /\ u[i] = s[i - 1] /\ u[j] = n
        BY <3>3, <2>1, <1>1
      <4>2. u[i] \in Range(s)
        BY <4>1 DEF Range
      <4> QED BY <4>1, <4>2 DEF OtherKeys
    <3> QED BY <3>1, <3>2, <3>3
  <2>3. ASSUME NEW x \in Range(u) PROVE x \in Range(s) \cup {n}
    <3>1. PICK i \in 1 .. Len(s) + 1 : x = u[i]
      BY <2>1 DEF Range
    <3>2. CASE i # 1
      <4>1. i - 1 \in DOMAIN s /\ x = s[i - 1]
        BY <3>1, <3>2, <2>1, <1>1
      <4> QED BY <4>1 DEF Range
    <3> QED BY <3>1, <3>2, <2>1
  <2>4. ASSUME NEW x \in Range(s) \cup {n} PROVE x \in Range(u)
    <3>1. CASE x = n
      <4>1. 1 \in DOMAIN u
        BY <2>1, <1>1
      <4> QED BY <4>1, <3>1, <2>1 DEF Range
    <3>2. CASE x \in Range(s)
      <4>1. PICK i \in DOMAIN s : x = s[i]
        BY <3>2 DEF Range
      <4>2. i + 1 \in DOMAIN u /\ u[i + 1] = x
        BY <4>1, <2>1, <1>1
      <4> QED BY <4>2 DEF Range
    <3> QED BY <3>1, <3>2
  <2> QED BY <2>1, <2>2, <2>3, <2>4
<1> QED BY <1>2, <1>3

(* A node moved to the larger table leaves it a table. *)
LEMMA MoveTyped ==
  ASSUME NEW m \in Nat \ {0}, NEW cs \in Chains(m), NEW c \in 0 .. m - 1,
         NEW n \in Table!Node, Key \subseteq Nat
  PROVE  Table!Moved(cs, c, n, m) \in Chains(m)
<1> DEFINE t == Table!CellOf(n.key, m)
<1>1. t \in 0 .. m - 1
  BY CellInside DEF Table!Node
<1>2. cs[t] \in Seq(Table!Node)
  BY <1>1 DEF Chains
<1>3. Append(cs[t], n) \in Seq(Table!Node) /\ <<n>> \o cs[t] \in Seq(Table!Node)
  BY <1>2, Appended, Prepended
<1> HIDE DEF t
<1>4. \A u \in Seq(Table!Node) : [cs EXCEPT ![t] = u] \in Chains(m)
  BY <1>1 DEF Chains
<1> QED BY <1>3, <1>4 DEF Table!Moved, t

(* One node n that no chain holds goes to the chain it belongs to. *)
LEMMA MoveKeeps ==
  ASSUME NEW m \in Nat \ {0}, NEW cs \in Chains(m), NEW c,
         NEW n \in Table!Node, KeysOnce(cs), OtherKeys(Stored(cs), {n}),
         Key \subseteq Nat
  PROVE  LET new == Table!Moved(cs, c, n, m)
         IN /\ new \in Chains(m) /\ KeysOnce(new)
            /\ Stored(new) = Stored(cs) \cup {n}
            /\ \A d \in 0 .. m - 1 : Placed(cs, d, m) => Placed(new, d, m)
<1> DEFINE t == Table!CellOf(n.key, m)
           u == IF t = c THEN Append(cs[t], n) ELSE <<n>> \o cs[t]
           new == [cs EXCEPT ![t] = u]
<1>1. t \in 0 .. m - 1
  BY CellInside DEF Table!Node
<1>2. Table!Moved(cs, c, n, m) = new
  BY DEF Table!Moved
<1>3. DOMAIN cs = 0 .. m - 1 /\ cs[t] \in Seq(Table!Node)
  BY <1>1 DEF Chains
<1>4. Range(cs[t]) \subseteq Stored(cs)
  BY <1>1, <1>3 DEF Stored
<1>5. u \in {Append(cs[t], n), <<n>> \o cs[t]}
  OBVIOUS
<1>6. DistinctKeys(cs[t]) /\ OtherKeys(Range(cs[t]), {n})
  BY <1>1, <1>3, <1>4 DEF KeysOnce, OtherKeys
<1> HIDE DEF t, u
<1>7. u \in Seq(Table!Node) /\ DistinctKeys(u) /\ Range(u) = Range(cs[t]) \cup {n}
  <2> DEFINE old == cs[t]
  <2>1. /\ old \in Seq(Table!Node) /\ DistinctKeys(old) /\ OtherKeys(Range(old), {n})
        /\ u \in {Append(old, n), <<n>> \o old}
    BY <1>3, <1>5, <1>6
  <2> HIDE DEF old
  <2>2. u \in Seq(Table!Node) /\ DistinctKeys(u) /\ Range(u) = Range(old) \cup {n}
    BY <2>1, Pushed
  <2> QED BY <2>2 DEF old
<1>8. /\ new \in Chains(m) /\ DOMAIN new = 0 .. m - 1
      /\ new[t] = u /\ \A d \in 0 .. m - 1 : d # t => new[d] = cs[d]
  BY <1>1, <1>3, <1>7 DEF Chains
<1> HIDE DEF new
<1>9. Stored(new) = Stored(cs) \cup {n}
  BY <1>1, <1>3, <1>7, <1>8 DEF Stored
<1>10. KeysOnce(new)
  <2>1. \A d \in 0 .. m - 1 : DistinctKeys(new[d])
    BY <1>3, <1>7, <1>8 DEF KeysOnce
  <2>2. ASSUME NEW d \in 0 .. m - 1, NEW e \in 0 .. m - 1, d # e
        PROVE  OtherKeys(Range(new[d]), Range(new[e]))
    <3>1. OtherKeys(Range(cs[d]), Range(cs[e]))
      BY <2>2, <1>3 DEF KeysOnce
    <3>2. /\ Range(new[d]) \subseteq Range(cs[d]) \cup (IF d = t THEN {n} ELSE {})
          /\ Range(new[e]) \subseteq Range(cs[e]) \cup (IF e = t THEN {n} ELSE {})
      BY <1>7, <1>8
    <3>3. Range(cs[d]) \subseteq Stored(cs) /\ Range(cs[e]) \subseteq Stored(cs)
      BY <1>3 DEF Stored
    <3> QED BY <2>2, <3>1, <3>2, <3>3 DEF OtherKeys
  <2> QED BY <2>1, <2>2, <1>8 DEF KeysOnce
<1>11. ASSUME NEW d \in 0 .. m - 1, Placed(cs, d, m) PROVE Placed(new, d, m)
  <2>1. CASE d = t
    BY <2>1, <1>7, <1>8, <1>11 DEF Placed, t
  <2>2. CASE d # t
    BY <2>2, <1>8, <1>11 DEF Placed
  <2> QED BY <2>1, <2>2
<1> QED BY <1>2, <1>8, <1>9, <1>10, <1>11

(* The table after the first i nodes of chain c: the others wait. *)
LEMMA RehashedKeeps ==
  ASSUME NEW m \in Nat \ {0}, NEW cs \in Chains(m), NEW c \in 0 .. m - 1, KeysOnce(cs),
         Key \subseteq Nat
  PROVE  LET new == Table!Rehashed(cs, c, m)
         IN /\ new \in Chains(m) /\ KeysOnce(new)
            /\ Stored(new) = Stored(cs)
            /\ Placed(new, c, m)
            /\ \A d \in 0 .. m - 1 : Placed(cs, d, m) => Placed(new, d, m)
<1> DEFINE s == cs[c]
           first == [cs EXCEPT ![c] = <<>>]
           Waiting(i) == {s[j] : j \in i + 1 .. Len(s)}
           step == [p \in Nat \X Chains(m) |->
                      IF p[1] < Len(s) THEN Table!Moved(p[2], c, s[p[1] + 1], m) ELSE p[2]]
           IsAfter(f) == f = [i \in 0 .. Len(s) |->
                                IF i = 0 THEN first ELSE Table!Moved(f[i - 1], c, s[i], m)]
           after == CHOOSE f : IsAfter(f)
           Good(i) == /\ after[i] \in Chains(m) /\ KeysOnce(after[i])
                      /\ OtherKeys(Stored(after[i]), Waiting(i))
                      /\ Stored(after[i]) \cup Waiting(i) = Stored(cs)
                      /\ Placed(after[i], c, m)
                      /\ \A d \in 0 .. m - 1 : Placed(cs, d, m) => Placed(after[i], d, m)
<1>1. Table!Rehashed(cs, c, m) = after[Len(s)]
  BY DEF Table!Rehashed
<1>2. s \in Seq(Table!Node) /\ Len(s) \in Nat /\ DOMAIN s = 1 .. Len(s)
  BY LenProperties DEF Chains
<1>3. \A i \in 1 .. Len(s) : s[i] \in Table!Node
  BY <1>2, ElementOfSeq
<1>4. first \in Chains(m)
  BY DEF Chains
<1> HIDE DEF s, first
<1>5. step \in [Nat \X Chains(m) -> Chains(m)]
  <2>1. ASSUME NEW p \in Nat \X Chains(m), p[1] < Len(s)
        PROVE  Table!Moved(p[2], c, s[p[1] + 1], m) \in Chains(m)
    <3>1. p[1] + 1 \in 1 .. Len(s)
      BY <2>1, <1>2
    <3> QED BY <3>1, <1>3, MoveTyped
  <2> QED BY <2>1
<1>6. PICK f \in [Nat -> Chains(m)] :
        f[0] = first /\ \A i \in Nat : f[i + 1] = step[<<i, f[i]>>]
  <2> HIDE DEF step
  <2>1. \E f \in [Nat -> Chains(m)] : Iterates(f, first, step)
    BY <1>4, <1>5, RunExists
  <2> QED BY <2>1 DEF Iterates
<1>7. ASSUME NEW i \in Nat, i < Len(s)
      PROVE  f[i + 1] = Table!Moved(f[i], c, s[i + 1], m)
  BY <1>6, <1>7
<1> HIDE DEF step
<1>8. \E g : IsAfter(g)
  <2> DEFINE g == [i \in 0 .. Len(s) |-> f[i]]
  <2>1. ASSUME NEW i \in 0 .. Len(s), i # 0
        PROVE  g[i] = Table!Moved(g[i - 1], c, s[i], m)
    <3>1. i - 1 \in Nat /\ i - 1 < Len(s) /\ (i - 1) + 1 = i /\ i - 1 \in 0 .. Len(s)
      BY <2>1, <1>2
    <3>2. f[(i - 1) + 1] = Table!Moved(f[i - 1], c, s[(i - 1) + 1], m)
      BY <3>1, <1>7
    <3> QED BY <3>1, <3>2
  <2>2. 0 \in 0 .. Len(s) => g[0] = first
    BY <1>6
  <2>3. g = [i \in 0 .. Len(s) |->
               IF i = 0 THEN first ELSE Table!Moved(g[i - 1], c, s[i], m)]
    BY <2>1, <2>2
  <2> QED BY <2>3
<1>9. IsAfter(after)
  BY <1>8
<1> HIDE DEF after
<1>10. /\ after[0] = first
       /\ \A i \in 1 .. Len(s) : after[i] = Table!Moved(after[i - 1], c, s[i], m)
  <2>1. 0 \in 0 .. Len(s) /\ \A i \in 1 .. Len(s) : i \in 0 .. Len(s) /\ i # 0
    BY <1>2
  <2> QED BY <1>9, <2>1
<1> DEFINE T == {i \in Nat : i <= Len(s) => Good(i)}
<1>11. 0 \in T
  <2>1. DOMAIN cs = 0 .. m - 1 /\ first \in Chains(m) /\ DOMAIN first = 0 .. m - 1
    BY <1>4 DEF Chains, first
  <2>2. first[c] = <<>> /\ \A d \in 0 .. m - 1 : d # c => first[d] = cs[d]
    BY DEF Chains, first
  <2>3. Range(<<>>) = {} /\ DistinctKeys(<<>>)
    BY DEF Range, DistinctKeys
  <2>4. Waiting(0) = Range(cs[c])
    BY <1>2 DEF Range, s
  <2>5. KeysOnce(first)
    BY <2>1, <2>2, <2>3 DEF KeysOnce, OtherKeys
  <2>6. OtherKeys(Stored(first), Waiting(0))
    <3> SUFFICES ASSUME NEW d \in 0 .. m - 1, NEW x \in Range(first[d]), NEW y \in Range(cs[c])
                 PROVE  x.key # y.key
      BY <2>1, <2>4 DEF OtherKeys, Stored
    <3>1. d # c /\ x \in Range(cs[d])
      BY <2>2, <2>3
    <3> QED BY <3>1, <2>1 DEF KeysOnce, OtherKeys
  <2>7. Stored(first) \cup Waiting(0) = Stored(cs)
    BY <2>1, <2>2, <2>3, <2>4 DEF Stored
  <2>8. Placed(first, c, m) /\ \A d \in 0 .. m - 1 : Placed(cs, d, m) => Placed(first, d, m)
    BY <2>2, <2>3 DEF Placed
  <2> QED BY <1>10, <2>1, <2>5, <2>6, <2>7, <2>8
<1>12. ASSUME NEW i \in Nat, i \in T PROVE i + 1 \in T
  <2> SUFFICES ASSUME i + 1 <= Len(s) PROVE Good(i + 1)
    OBVIOUS
  <2>1. i + 1 \in 1 .. Len(s) /\ (i + 1) - 1 = i /\ i <= Len(s)
    BY <1>2
  <2>2. Good(i)
    BY <2>1, <1>12
  <2> DEFINE n == s[i + 1]
  <2>3. n \in Table!Node /\ after[i + 1] = Table!Moved(after[i], c, n, m)
    BY <2>1, <1>3, <1>10
  <2>4. n \in Waiting(i) /\ Waiting(i) = Waiting(i + 1) \cup {n}
    BY <2>1, <1>2
  <2>5. OtherKeys(Waiting(i + 1), {n})
    <3> SUFFICES ASSUME NEW j \in (i + 1) + 1 .. Len(s) PROVE s[j].key # s[i + 1].key
      BY DEF OtherKeys
    <3>1. j \in DOMAIN s /\ i + 1 \in DOMAIN s /\ j # i + 1
      BY <2>1, <1>2
    <3>2. DistinctKeys(s)
      BY DEF KeysOnce, s, Chains
    <3> QED BY <3>1, <3>2 DEF DistinctKeys
  <2> DEFINE new == after[i + 1]
  <2> HIDE DEF n, new, Waiting
  <2>6. OtherKeys(Stored(after[i]), {n})
    BY <2>2, <2>4 DEF OtherKeys
  <2>7. /\ new \in Chains(m) /\ KeysOnce(new)
        /\ Stored(new) = Stored(after[i]) \cup {n}
        /\ \A d \in 0 .. m - 1 : Placed(after[i], d, m) => Placed(new, d, m)
    BY <2>2, <2>3, <2>6, MoveKeeps DEF new
  <2>8. OtherKeys(Stored(new), Waiting(i + 1))
    BY <2>2, <2>4, <2>5, <2>7 DEF OtherKeys
  <2>9. Stored(new) \cup Waiting(i + 1) = Stored(cs)
    BY <2>2, <2>4, <2>7
  <2> QED BY <2>2, <2>7, <2>8, <2>9 DEF new
<1> HIDE DEF T
<1>13. Nat \subseteq T
  BY <1>11, <1>12, SetInduction
<1>14. Good(Len(s))
  <2>1. Len(s) \in T /\ Len(s) <= Len(s)
    BY <1>13, <1>2
  <2> HIDE DEF Good
  <2> QED BY <2>1 DEF T
<1>15. Waiting(Len(s)) = {}
  BY <1>2
<1> QED BY <1>1, <1>14, <1>15

(* hash_map_expand loses no node and leaves each where it will be looked for. *)
LEMMA ExpandedKeeps ==
  ASSUME NEW old \in Nat, NEW cs \in Chains(old), KeysOnce(cs)
  PROVE  LET m == old * 2 + MapGrowth
             new == Table!Expanded(cs, old)
         IN /\ m \in Nat \ {0}
            /\ new \in Chains(m) /\ KeysOnce(new)
            /\ Stored(new) = Stored(cs)
            /\ \A d \in 0 .. m - 1 : Placed(new, d, m)
<1> DEFINE m == old * 2 + MapGrowth
           larger == [c \in 0 .. m - 1 |-> IF c < old THEN cs[c] ELSE <<>>]
           Tables == {x \in Chains(m) : KeysOnce(x)}
           step == [p \in Nat \X Tables |->
                      IF p[1] < old THEN Table!Rehashed(p[2], p[1], m) ELSE p[2]]
           AreRounds(f) == f = [c \in 0 .. old |->
                                  IF c = 0 THEN larger ELSE Table!Rehashed(f[c - 1], c - 1, m)]
           rounds == CHOOSE f : AreRounds(f)
           Good(i) == /\ rounds[i] \in Tables
                      /\ Stored(rounds[i]) = Stored(cs)
                      /\ \A d \in 0 .. m - 1 : d < i \/ d >= old => Placed(rounds[i], d, m)
<1>1. Table!Expanded(cs, old) = rounds[old]
  BY DEF Table!Expanded
<1>2. Key \subseteq Nat /\ m \in Nat \ {0} /\ old <= m
  BY PartsAssumption DEF Table!MapAssumption
<1> HIDE DEF m
<1>3. /\ larger \in Chains(m)
      /\ DOMAIN larger = 0 .. m - 1 /\ DOMAIN cs = 0 .. old - 1
      /\ \A c \in 0 .. old - 1 : c \in 0 .. m - 1 /\ larger[c] = cs[c]
      /\ \A c \in 0 .. m - 1 : c >= old => larger[c] = <<>>
      /\ \A c \in 0 .. m - 1 : c < old => c \in 0 .. old - 1
  <2>1. <<>> \in Seq(Table!Node)
    OBVIOUS
  <2> QED BY <1>2, <2>1 DEF Chains
<1> HIDE DEF larger
<1>4. Range(<<>>) = {} /\ DistinctKeys(<<>>)
  BY DEF Range, DistinctKeys
<1>5. KeysOnce(larger) /\ Stored(larger) = Stored(cs)
  <2>1. ASSUME NEW d \in 0 .. m - 1
        PROVE  /\ DistinctKeys(larger[d])
               /\ \A e \in 0 .. m - 1 : d # e => OtherKeys(Range(larger[d]), Range(larger[e]))
    <3>1. CASE d \in 0 .. old - 1
      BY <3>1, <1>3, <1>4, <1>2 DEF KeysOnce, OtherKeys
    <3>2. CASE d \notin 0 .. old - 1
      <4>1. larger[d] = <<>>
        BY <3>2, <1>3, <1>2
      <4> QED BY <4>1, <1>4 DEF OtherKeys
    <3> QED BY <3>1, <3>2
  <2>2. KeysOnce(larger)
    BY <2>1, <1>3 DEF KeysOnce
  <2>3. ASSUME NEW x PROVE x \in Stored(larger) <=> x \in Stored(cs)
    <3>1. x \in Stored(larger) <=> \E d \in 0 .. m - 1 : x \in Range(larger[d])
      BY <1>3 DEF Stored
    <3>2. x \in Stored(cs) <=> \E d \in 0 .. old - 1 : x \in Range(cs[d])
      BY <1>3 DEF Stored
    <3>3. ASSUME NEW d \in 0 .. m - 1, x \in Range(larger[d])
          PROVE  d \in 0 .. old - 1 /\ x \in Range(cs[d])
      <4>1. larger[d] # <<>>
        BY <3>3, <1>4
      <4>2. d \in 0 .. old - 1
        BY <4>1, <1>3, <1>2
      <4> QED BY <4>2, <3>3, <1>3
    <3>4. ASSUME NEW d \in 0 .. old - 1, x \in Range(cs[d])
          PROVE  d \in 0 .. m - 1 /\ x \in Range(larger[d])
      BY <3>4, <1>3
    <3> QED BY <3>1, <3>2, <3>3, <3>4
  <2>4. Stored(larger) \subseteq Stored(cs) /\ Stored(cs) \subseteq Stored(larger)
    BY <2>3
  <2> QED BY <2>2, <2>4
<1>6. larger \in Tables
  BY <1>3, <1>5
<1>7. ASSUME NEW x \in Tables, NEW c \in 0 .. old - 1
      PROVE  LET new == Table!Rehashed(x, c, m)
             IN /\ new \in Tables /\ Stored(new) = Stored(x) /\ Placed(new, c, m)
                /\ \A d \in 0 .. m - 1 : Placed(x, d, m) => Placed(new, d, m)
  <2>1. c \in 0 .. m - 1
    BY <1>2
  <2> QED BY <2>1, <1>2, RehashedKeeps
<1>8. step \in [Nat \X Tables -> Tables]
  <2>1. ASSUME NEW p \in Nat \X Tables, p[1] < old
        PROVE  Table!Rehashed(p[2], p[1], m) \in Tables
    <3>1. p[1] \in 0 .. old - 1 /\ p[2] \in Tables
      BY <2>1
    <3> HIDE DEF Tables
    <3> QED BY <3>1, <1>7
  <2> HIDE DEF Tables
  <2> QED BY <2>1
<1> HIDE DEF Tables
<1>9. PICK f \in [Nat -> Tables] :
        f[0] = larger /\ \A i \in Nat : f[i + 1] = step[<<i, f[i]>>]
  <2> HIDE DEF step
  <2>1. \E f \in [Nat -> Tables] : Iterates(f, larger, step)
    BY <1>6, <1>8, RunExists
  <2> QED BY <2>1 DEF Iterates
<1>10. ASSUME NEW i \in Nat, i < old
      PROVE  f[i + 1] = Table!Rehashed(f[i], i, m)
  BY <1>9, <1>10
<1> HIDE DEF step
<1>11. \E g : AreRounds(g)
  <2> DEFINE g == [c \in 0 .. old |-> f[c]]
  <2>1. ASSUME NEW c \in 0 .. old, c # 0
        PROVE  g[c] = Table!Rehashed(g[c - 1], c - 1, m)
    <3>1. c - 1 \in Nat /\ c - 1 < old /\ (c - 1) + 1 = c /\ c - 1 \in 0 .. old
      BY <2>1
    <3> QED BY <3>1, <1>10
  <2>2. 0 \in 0 .. old => g[0] = larger
    BY <1>9
  <2>3. g = [c \in 0 .. old |-> IF c = 0 THEN larger ELSE Table!Rehashed(g[c - 1], c - 1, m)]
    BY <2>1, <2>2
  <2> QED BY <2>3
<1>12. AreRounds(rounds)
  BY <1>11
<1> HIDE DEF rounds
<1>13. /\ rounds[0] = larger
       /\ \A c \in 1 .. old : rounds[c] = Table!Rehashed(rounds[c - 1], c - 1, m)
  BY <1>12
<1> DEFINE T == {i \in Nat : i <= old => Good(i)}
<1>14. 0 \in T
  <2>1. \A d \in 0 .. m - 1 : d >= old => Placed(larger, d, m)
    BY <1>3, <1>4 DEF Placed
  <2>2. Good(0)
    BY <2>1, <1>5, <1>6, <1>13, <1>2
  <2> QED BY <2>2
<1>15. ASSUME NEW i \in Nat, i \in T PROVE i + 1 \in T
  <2> SUFFICES ASSUME i + 1 <= old PROVE Good(i + 1)
    OBVIOUS
  <2>1. i + 1 \in 1 .. old /\ (i + 1) - 1 = i /\ i <= old /\ i \in 0 .. old - 1
    OBVIOUS
  <2>2. Good(i)
    BY <2>1, <1>15
  <2>3. rounds[i + 1] = Table!Rehashed(rounds[i], i, m)
    BY <2>1, <1>13
  <2> DEFINE new == rounds[i + 1]
  <2>4. /\ new \in Tables /\ Stored(new) = Stored(rounds[i]) /\ Placed(new, i, m)
        /\ \A d \in 0 .. m - 1 : Placed(rounds[i], d, m) => Placed(new, d, m)
    BY <2>1, <2>2, <2>3, <1>7
  <2>5. ASSUME NEW d \in 0 .. m - 1, d < i + 1 \/ d >= old PROVE Placed(new, d, m)
    <3>1. CASE d = i
      BY <3>1, <2>4
    <3>2. CASE d # i
      <4>1. d < i \/ d >= old
        BY <3>2, <2>5, <1>2
      <4> QED BY <4>1, <2>2, <2>4
    <3> QED BY <3>1, <3>2
  <2> QED BY <2>2, <2>4, <2>5
<1> HIDE DEF T
<1>16. Nat \subseteq T
  BY <1>14, <1>15, SetInduction
<1>17. Good(old)
  <2>1. old \in T /\ old <= old
    BY <1>16
  <2> HIDE DEF Good
  <2> QED BY <2>1 DEF T
<1>18. \A d \in 0 .. m - 1 : Placed(rounds[old], d, m)
  <2>1. \A d \in 0 .. m - 1 : d < old \/ d >= old
    BY <1>2
  <2> QED BY <2>1, <1>17
<1> QED BY <1>1, <1>2, <1>17, <1>18 DEF m, Tables

(***************************************************************************)
(* What hash_map_find finds.                                               *)
(***************************************************************************)
(* The loop of hash_map_find stops at the first node with the key, if there is one. *)
LEMMA PlaceFinds ==
  ASSUME NEW s \in Seq(Table!Node), NEW k
  PROVE  /\ Table!Place(s, k) = 0 <=> \A x \in Range(s) : x.key # k
         /\ Table!Place(s, k) # 0 =>
              Table!Place(s, k) \in DOMAIN s /\ s[Table!Place(s, k)].key = k
<1> DEFINE I == {i \in 1 .. Len(s) : s[i].key = k}
<1>1. DOMAIN s = 1 .. Len(s) /\ Len(s) \in Nat
  BY LenProperties
<1>2. Table!Place(s, k) = IF I # {} THEN CHOOSE x \in I : \A y \in I : x <= y ELSE 0
  BY DEF Table!Place, Table!Seqs!SelectInSeq, Table!Seqs!Min
<1>3. CASE I = {}
  <2>1. \A x \in Range(s) : x.key # k
    BY <1>1, <1>3 DEF Range
  <2> QED BY <2>1, <1>2, <1>3
<1>4. CASE I # {}
  <2>1. \E x \in I : \A y \in I : x <= y
    <3>1. I \subseteq Nat
      OBVIOUS
    <3> HIDE DEF I
    <3> QED BY <3>1, <1>4, LeastElement
  <2>2. Table!Place(s, k) \in I
    BY <2>1, <1>2, <1>4
  <2>3. Table!Place(s, k) \in DOMAIN s /\ s[Table!Place(s, k)].key = k /\ Table!Place(s, k) # 0
    BY <2>2, <1>1
  <2>4. s[Table!Place(s, k)] \in Range(s)
    BY <2>3 DEF Range
  <2> QED BY <2>3, <2>4
<1> QED BY <1>3, <1>4

(* hash_map_find(map, key) for chains cs in m cells. *)
FindIn(cs, m, k) ==
  IF m = 0 THEN NULL
  ELSE LET chain == cs[Table!CellOf(k, m)]
       IN IF Table!Place(chain, k) = 0 THEN NULL ELSE chain[Table!Place(chain, k)].val

(* A table in which every node is where it is looked for. *)
InOrder(cs, m) ==
  /\ cs \in Chains(m) /\ KeysOnce(cs)
  /\ \A d \in 0 .. m - 1 : Placed(cs, d, m)

(* A key is found exactly when a node has it. *)
LEMMA KeyFound ==
  ASSUME NEW m \in Nat, NEW cs, InOrder(cs, m), NEW k \in Nat, m # 0
  PROVE  LET chain == cs[Table!CellOf(k, m)]
         IN /\ chain \in Seq(Table!Node) /\ Range(chain) \subseteq Stored(cs)
            /\ Table!Place(chain, k) = 0 <=> \A n \in Stored(cs) : n.key # k
<1> DEFINE t == Table!CellOf(k, m)
           chain == cs[t]
<1>1. t \in 0 .. m - 1 /\ DOMAIN cs = 0 .. m - 1 /\ chain \in Seq(Table!Node)
  BY CellInside DEF InOrder, Chains
<1>2. Range(chain) \subseteq Stored(cs)
  BY <1>1 DEF Stored
<1>3. ASSUME NEW n \in Stored(cs), n.key = k PROVE n \in Range(chain)
  <2>1. PICK d \in 0 .. m - 1 : n \in Range(cs[d])
    BY <1>1 DEF Stored
  <2>2. d = t
    BY <2>1, <1>3 DEF InOrder, Placed
  <2> QED BY <2>1, <2>2
<1>4. Table!Place(chain, k) = 0 <=> \A x \in Range(chain) : x.key # k
  BY <1>1, PlaceFinds
<1>5. (\A x \in Range(chain) : x.key # k) <=> \A n \in Stored(cs) : n.key # k
  BY <1>2, <1>3
<1> QED BY <1>1, <1>2, <1>4, <1>5

(* In a table in order, a key is on one node at most. *)
LEMMA NodeIsOnlyOne ==
  ASSUME NEW m \in Nat, NEW cs, InOrder(cs, m),
         NEW x \in Stored(cs), NEW y \in Stored(cs), x.key = y.key
  PROVE  x = y
<1>1. DOMAIN cs = 0 .. m - 1
  BY DEF InOrder, Chains
<1>2. PICK c \in 0 .. m - 1, d \in 0 .. m - 1 : x \in Range(cs[c]) /\ y \in Range(cs[d])
  BY <1>1 DEF Stored
<1>3. c = d
  BY <1>1, <1>2 DEF InOrder, KeysOnce, OtherKeys
<1>4. PICK i \in DOMAIN cs[c], j \in DOMAIN cs[c] : x = cs[c][i] /\ y = cs[c][j]
  BY <1>2, <1>3 DEF Range
<1>5. i = j
  BY <1>1, <1>4 DEF InOrder, KeysOnce, DistinctKeys
<1> QED BY <1>4, <1>5

(* What is found for a key is the value of its node, or NULL if it has none. *)
LEMMA Found ==
  ASSUME NEW m \in Nat, NEW cs, InOrder(cs, m), NEW k \in Nat, NULL \notin Elem
  PROVE  /\ \A n \in Stored(cs) : n.key = k => FindIn(cs, m, k) = n.val
         /\ FindIn(cs, m, k) = NULL <=> \A n \in Stored(cs) : n.key # k
<1>1. Stored(cs) \subseteq Table!Node
  <2>1. \A d \in DOMAIN cs : cs[d] \in Seq(Table!Node)
    BY DEF InOrder, Chains
  <2>2. \A d \in DOMAIN cs : Range(cs[d]) \subseteq Table!Node
    BY <2>1, RangeIsSubset
  <2> QED BY <2>2 DEF Stored
<1>2. CASE m = 0
  <2>1. Stored(cs) = {}
    BY <1>2 DEF InOrder, Chains, Stored
  <2> QED BY <2>1, <1>2 DEF FindIn
<1>3. CASE m # 0
  <2> DEFINE chain == cs[Table!CellOf(k, m)]
             p == Table!Place(chain, k)
  <2>1. /\ chain \in Seq(Table!Node) /\ Range(chain) \subseteq Stored(cs)
        /\ p = 0 <=> \A n \in Stored(cs) : n.key # k
    BY <1>3, KeyFound
  <2>2. p # 0 => p \in DOMAIN chain /\ chain[p].key = k
    BY <2>1, PlaceFinds
  <2>3. FindIn(cs, m, k) = IF p = 0 THEN NULL ELSE chain[p].val
    BY <1>3 DEF FindIn
  <2> HIDE DEF chain, p
  <2>4. CASE p = 0
    BY <2>4, <2>1, <2>3
  <2>5. CASE p # 0
    <3>1. chain[p] \in Stored(cs) /\ chain[p].key = k
      BY <2>1, <2>2, <2>5 DEF Range
    <3>2. chain[p].val \in Elem
      BY <3>1, <1>1 DEF Table!Node
    <3>3. \A n \in Stored(cs) : n.key = k => n = chain[p]
      BY <3>1, NodeIsOnlyOne
    <3> QED BY <2>3, <2>5, <3>1, <3>2, <3>3
  <2> QED BY <2>4, <2>5
<1> QED BY <1>2, <1>3

(***************************************************************************)
(* The steps of the table.                                                 *)
(***************************************************************************)
(* Unlinking the p-th node of a chain leaves the others in it. *)
LEMMA UnlinkedHolds ==
  ASSUME NEW s \in Seq(Table!Node), DistinctKeys(s), NEW p \in DOMAIN s
  PROVE  LET u == Table!Unlinked(s, p)
         IN u \in Seq(Table!Node) /\ DistinctKeys(u) /\ Range(u) = Range(s) \ {s[p]}
<1> DEFINE a == SubSeq(s, 1, p - 1)
           b == SubSeq(s, p + 1, Len(s))
           u == a \o b
<1>1. Len(s) \in Nat /\ DOMAIN s = 1 .. Len(s) /\ p \in 1 .. Len(s)
  BY LenProperties
<1>2. \A i \in 1 .. Len(s) : s[i] \in Table!Node
  BY ElementOfSeq
<1>3. /\ a \in Seq(Table!Node) /\ Len(a) = p - 1
      /\ \A i \in 1 .. p - 1 : a[i] = s[i]
  <2>1. 1 \in Int /\ p - 1 \in Int /\ \A i \in 1 .. p - 1 : s[i] \in Table!Node
    BY <1>1, <1>2
  <2>2. /\ a \in Seq(Table!Node) /\ Len(a) = IF 1 <= p - 1 THEN (p - 1) - 1 + 1 ELSE 0
        /\ \A i \in 1 .. (p - 1) - 1 + 1 : a[i] = s[1 + i - 1]
    BY <2>1, SubSeqProperties
  <2> QED BY <2>2, <1>1
<1>4. /\ b \in Seq(Table!Node) /\ Len(b) = Len(s) - p
      /\ \A i \in 1 .. Len(s) - p : b[i] = s[p + i]
  <2>1. p + 1 \in Int /\ Len(s) \in Int /\ \A i \in p + 1 .. Len(s) : s[i] \in Table!Node
    BY <1>1, <1>2
  <2>2. /\ b \in Seq(Table!Node) /\ Len(b) = IF p + 1 <= Len(s) THEN Len(s) - (p + 1) + 1 ELSE 0
        /\ \A i \in 1 .. Len(s) - (p + 1) + 1 : b[i] = s[(p + 1) + i - 1]
    BY <2>1, SubSeqProperties
  <2> HIDE DEF b
  <2>3. /\ Len(s) - (p + 1) + 1 = Len(s) - p
        /\ (IF p + 1 <= Len(s) THEN Len(s) - (p + 1) + 1 ELSE 0) = Len(s) - p
    BY <1>1
  <2>4. ASSUME NEW i \in 1 .. Len(s) - p PROVE b[i] = s[p + i]
    <3>1. (p + 1) + i - 1 = p + i
      BY <1>1
    <3> QED BY <2>2, <2>3, <3>1
  <2> QED BY <2>2, <2>3, <2>4
<1> HIDE DEF a, b
<1>5. /\ u \in Seq(Table!Node) /\ Len(u) = Len(a) + Len(b)
      /\ \A i \in 1 .. Len(a) + Len(b) : u[i] = IF i <= Len(a) THEN a[i] ELSE b[i - Len(a)]
  BY <1>3, <1>4, ConcatProperties
<1> HIDE DEF u
<1>6. Len(u) = Len(s) - 1 /\ DOMAIN u = 1 .. Len(s) - 1
  BY <1>1, <1>3, <1>4, <1>5, LenProperties
<1>7. ASSUME NEW i \in 1 .. Len(s) - 1
      PROVE  u[i] = IF i < p THEN s[i] ELSE s[i + 1]
  <2>1. CASE i < p
    <3>1. i \in 1 .. Len(a) + Len(b) /\ i <= Len(a) /\ i \in 1 .. p - 1
      BY <2>1, <1>1, <1>3, <1>4
    <3> QED BY <3>1, <2>1, <1>3, <1>5
  <2>2. CASE ~ (i < p)
    <3>1. /\ i \in 1 .. Len(a) + Len(b) /\ ~ (i <= Len(a))
          /\ i - Len(a) \in 1 .. Len(s) - p /\ p + (i - Len(a)) = i + 1
      BY <2>2, <1>1, <1>3, <1>4
    <3>2. u[i] = b[i - Len(a)]
      BY <3>1, <1>5
    <3>3. b[i - Len(a)] = s[p + (i - Len(a))]
      BY <3>1, <1>4
    <3> QED BY <3>1, <3>2, <3>3, <2>2
  <2> QED BY <2>1, <2>2
<1> DEFINE From(i) == IF i < p THEN i ELSE i + 1
<1>8. ASSUME NEW i \in DOMAIN u
      PROVE  From(i) \in DOMAIN s \ {p} /\ u[i] = s[From(i)]
  <2>1. i \in 1 .. Len(s) - 1
    BY <1>6
  <2>2. From(i) \in DOMAIN s \ {p}
    BY <2>1, <1>1
  <2> QED BY <2>1, <2>2, <1>7
<1>9. DistinctKeys(u)
  <2> SUFFICES ASSUME NEW i \in DOMAIN u, NEW j \in DOMAIN u, u[i].key = u[j].key
               PROVE  i = j
    BY DEF DistinctKeys
  <2>1. /\ From(i) \in DOMAIN s /\ From(j) \in DOMAIN s
        /\ s[From(i)].key = s[From(j)].key
    BY <1>8
  <2>2. From(i) = From(j)
    <3> HIDE DEF From
    <3> QED BY <2>1 DEF DistinctKeys
  <2> QED BY <2>2, <1>1, <1>6
<1>10. ASSUME NEW x \in Range(u) PROVE x \in Range(s) \ {s[p]}
  <2>1. PICK i \in DOMAIN u : x = u[i]
    BY DEF Range
  <2>2. From(i) \in DOMAIN s /\ From(i) # p /\ x = s[From(i)]
    BY <2>1, <1>8
  <2> HIDE DEF From
  <2>3. x # s[p]
    BY <2>2 DEF DistinctKeys
  <2> QED BY <2>2, <2>3 DEF Range
<1>11. ASSUME NEW x \in Range(s) \ {s[p]} PROVE x \in Range(u)
  <2>1. PICK i \in DOMAIN s : x = s[i]
    BY DEF Range
  <2>2. i # p
    BY <2>1, <1>11
  <2>3. PICK j \in 1 .. Len(s) - 1 : From(j) = i
    <3>1. CASE i < p
      <4>1. i \in 1 .. Len(s) - 1 /\ From(i) = i
        BY <3>1, <2>1, <1>1
      <4> QED BY <4>1
    <3>2. CASE ~ (i < p)
      <4>1. i - 1 \in 1 .. Len(s) - 1 /\ From(i - 1) = i
        BY <3>2, <2>1, <2>2, <1>1
      <4> QED BY <4>1
    <3> QED BY <3>1, <3>2
  <2>4. j \in DOMAIN u /\ u[j] = x
    BY <2>1, <2>3, <1>6, <1>8
  <2> QED BY <2>4 DEF Range
<1>12. Table!Unlinked(s, p) = u
  BY DEF Table!Unlinked, Table!Seqs!RemoveAt, u, a, b
<1> QED BY <1>5, <1>9, <1>10, <1>11, <1>12

(* A node in front of the chain of its key, and chain c without its p-th node. *)
WithNode(cs, n, m) == [cs EXCEPT ![Table!CellOf(n.key, m)] = <<n>> \o @]
(* None *)
WithoutNode(cs, c, p) == [cs EXCEPT ![c] = Table!Unlinked(@, p)]

(* A node leaves its chain; every other stays where it was. *)
LEMMA RemovalKeeps ==
  ASSUME NEW m \in Nat, NEW cs, InOrder(cs, m), NEW c \in 0 .. m - 1, NEW p \in DOMAIN cs[c]
  PROVE  LET new == WithoutNode(cs, c, p)
         IN InOrder(new, m) /\ Stored(new) = Stored(cs) \ {cs[c][p]}
<1> DEFINE u == Table!Unlinked(cs[c], p)
           new == [cs EXCEPT ![c] = u]
<1>1. DOMAIN cs = 0 .. m - 1 /\ cs[c] \in Seq(Table!Node) /\ DistinctKeys(cs[c])
  BY DEF InOrder, Chains, KeysOnce
<1>2. u \in Seq(Table!Node) /\ DistinctKeys(u) /\ Range(u) = Range(cs[c]) \ {cs[c][p]}
  BY <1>1, UnlinkedHolds
<1> HIDE DEF u
<1>3. /\ new \in Chains(m) /\ DOMAIN new = 0 .. m - 1
      /\ new[c] = u /\ \A d \in 0 .. m - 1 : d # c => new[d] = cs[d]
  BY <1>1, <1>2 DEF InOrder, Chains
<1> HIDE DEF new
<1>4. \A d \in 0 .. m - 1 : Range(new[d]) \subseteq Range(cs[d])
  BY <1>2, <1>3
<1>5. KeysOnce(new)
  <2>1. \A d \in 0 .. m - 1 : DistinctKeys(new[d])
    BY <1>1, <1>2, <1>3 DEF InOrder, KeysOnce
  <2>2. ASSUME NEW d \in 0 .. m - 1, NEW e \in 0 .. m - 1, d # e
        PROVE  OtherKeys(Range(new[d]), Range(new[e]))
    <3>1. OtherKeys(Range(cs[d]), Range(cs[e]))
      BY <1>1, <2>2 DEF InOrder, KeysOnce
    <3> QED BY <3>1, <1>4 DEF OtherKeys
  <2> QED BY <2>1, <2>2, <1>3 DEF KeysOnce
<1>6. \A d \in 0 .. m - 1 : Placed(new, d, m)
  BY <1>4 DEF InOrder, Placed
<1>7. cs[c][p] \in Range(cs[c])
  BY DEF Range
<1>8. \A d \in 0 .. m - 1 : d # c => cs[c][p] \notin Range(cs[d])
  BY <1>1, <1>7 DEF InOrder, KeysOnce, OtherKeys
<1>9. Stored(new) = Stored(cs) \ {cs[c][p]}
  BY <1>1, <1>2, <1>3, <1>7, <1>8 DEF Stored
<1> QED BY <1>3, <1>5, <1>6, <1>9 DEF InOrder, WithoutNode, u, new

(* A node with a new key goes to the front of the chain of its key. *)
LEMMA InsertionKeeps ==
  ASSUME NEW m \in Nat \ {0}, NEW cs, InOrder(cs, m), NEW n \in Table!Node,
         OtherKeys(Stored(cs), {n}), Key \subseteq Nat
  PROVE  LET new == WithNode(cs, n, m)
         IN InOrder(new, m) /\ Stored(new) = Stored(cs) \cup {n}
<1> DEFINE new == [cs EXCEPT ![Table!CellOf(n.key, m)] = <<n>> \o @]
<1>1. Table!CellOf(n.key, m) # m
  <2>1. Table!CellOf(n.key, m) \in 0 .. m - 1
    BY CellInside DEF Table!Node
  <2> QED BY <2>1
<1>2. Table!Moved(cs, m, n, m) = new
  BY <1>1 DEF Table!Moved
<1> HIDE DEF new
<1>3. /\ new \in Chains(m) /\ KeysOnce(new)
      /\ Stored(new) = Stored(cs) \cup {n}
      /\ \A d \in 0 .. m - 1 : Placed(cs, d, m) => Placed(new, d, m)
  BY <1>2, MoveKeeps DEF InOrder
<1> QED BY <1>3 DEF InOrder, WithNode, new

(***************************************************************************)
(* The invariant of the table: TypeOK, ChainsOK and LoadOK, with the first *)
(* two in terms of what the chains hold.  hash_map_remove never fills the  *)
(* list of free nodes.                                                     *)
(***************************************************************************)
(* The invariant. *)
TableInv ==
  /\ table_cap \in Nat /\ node_max \in 0 .. MaxNodes
  /\ InOrder(cells, table_cap)
  /\ free = <<>>
  /\ last_call \in {<<>>} \cup {<<k>> : k \in Key} \cup Key \X Elem
  /\ Table!LoadOK

(* What the hash map takes from the constants of Parts. *)
LEMMA TableAssumption ==
  /\ Key \subseteq Nat /\ NULL \notin Elem
  /\ MapGrowth \in Nat \ {0} /\ Load \in Nat \ {0} /\ MaxNodes \in Nat
BY PartsAssumption DEF Table!MapAssumption

(* A table starts without cells. *)
LEMMA TableStarts == Table!Init => TableInv
<1> SUFFICES ASSUME Table!Init PROVE TableInv
  OBVIOUS
<1> USE DEF Table!Init
<1>1. cells \in Chains(0) /\ DOMAIN cells = {}
  BY DEF Chains
<1>2. InOrder(cells, 0)
  BY <1>1 DEF InOrder, KeysOnce
<1>3. Table!LoadOK
  BY TableAssumption DEF Table!LoadOK
<1> QED BY <1>2, <1>3, TableAssumption DEF TableInv

(* Doubling the capacity and more makes room for one more node. *)
LEMMA Product ==
  ASSUME NEW c \in Nat, NEW g \in Nat \ {0}, NEW l \in Nat \ {0}
  PROVE  c * l \in Nat /\ (c * 2 + g) * l >= c * l + 1
<1>1. c * l \in Nat /\ (c + g) * l \in Nat
  OBVIOUS
<1>2. (c * 2 + g) * l = c * l + (c + g) * l
  OBVIOUS
<1>3. (c + g) * l >= 1
  OBVIOUS
<1> QED BY <1>1, <1>2, <1>3

(* The table in which hash_map_insert looks for the key, expanded if need be. *)
LEMMA RoomMade ==
  ASSUME TableInv
  PROVE  LET m  == IF Table!Full THEN table_cap * 2 + MapGrowth ELSE table_cap
             cs == IF Table!Full THEN Table!Expanded(cells, table_cap) ELSE cells
         IN /\ m \in Nat \ {0} /\ InOrder(cs, m) /\ Stored(cs) = Stored(cells)
            /\ node_max + 1 <= m * Load
<1> USE TableAssumption
<1>1. CASE Table!Full
  <2>1. LET m == table_cap * 2 + MapGrowth
            new == Table!Expanded(cells, table_cap)
        IN m \in Nat \ {0} /\ InOrder(new, m) /\ Stored(new) = Stored(cells)
    BY ExpandedKeeps DEF TableInv, InOrder
  <2>2. node_max \in Nat /\ node_max <= table_cap * Load
    BY DEF TableInv, Table!LoadOK
  <2>3. /\ table_cap * Load \in Nat
        /\ (table_cap * 2 + MapGrowth) * Load >= table_cap * Load + 1
    BY Product DEF TableInv
  <2>4. (table_cap * 2 + MapGrowth) * Load \in Nat
    BY DEF TableInv
  <2>5. node_max + 1 <= (table_cap * 2 + MapGrowth) * Load
    BY <2>2, <2>3, <2>4
  <2> QED BY <1>1, <2>1, <2>5
<1>2. CASE ~ Table!Full
  <2>1. table_cap * Load \in Nat /\ node_max \in Nat /\ node_max < table_cap * Load
    BY <1>2 DEF TableInv, Table!Full
  <2>2. table_cap # 0
    BY <2>1
  <2> QED BY <1>2, <2>1, <2>2 DEF TableInv
<1> QED BY <1>1, <1>2

(* hash_map_insert keeps a known key and adds a node for a new one. *)
LEMMA TableInserts ==
  ASSUME TableInv, NEW k \in Key, NEW v \in Elem, Table!Insert(k, v)
  PROVE  /\ TableInv'
         /\ \/ (\E n \in Stored(cells) : n.key = k) /\ Stored(cells') = Stored(cells)
            \/ /\ \A n \in Stored(cells) : n.key # k
               /\ Stored(cells') = Stored(cells) \cup {[key |-> k, val |-> v]}
<1> USE TableAssumption
<1> DEFINE m  == IF Table!Full THEN table_cap * 2 + MapGrowth ELSE table_cap
           cs == IF Table!Full THEN Table!Expanded(cells, table_cap) ELSE cells
           cell == Table!CellOf(k, m)
           n == [key |-> k, val |-> v]
<1>1. /\ m \in Nat \ {0} /\ InOrder(cs, m) /\ Stored(cs) = Stored(cells)
      /\ node_max + 1 <= m * Load
  BY RoomMade
<1>2. /\ last_call' = <<k, v>> /\ table_cap' = m
      /\ IF Table!Place(cs[cell], k) # 0
         THEN cells' = cs /\ UNCHANGED <<free, node_max>>
         ELSE /\ cells' = [cs EXCEPT ![cell] = <<Table!NewNode(k, v)>> \o @]
              /\ IF free = <<>>
                 THEN node_max < MaxNodes /\ node_max' = node_max + 1 /\ UNCHANGED free
                 ELSE free' = Tail(free) /\ UNCHANGED node_max
  BY DEF Table!Insert
<1>3. free = <<>> /\ node_max \in 0 .. MaxNodes
  BY DEF TableInv
<1>4. Table!NewNode(k, v) = n
  BY <1>3 DEF Table!NewNode
<1>5. last_call' \in {<<>>} \cup {<<j>> : j \in Key} \cup Key \X Elem
  BY <1>2
<1> HIDE DEF m, cs
<1>6. Table!Place(cs[cell], k) = 0 <=> \A x \in Stored(cs) : x.key # k
  BY <1>1, KeyFound
<1>7. m * Load \in Nat
  BY <1>1
<1>8. CASE Table!Place(cs[cell], k) # 0
  <2>1. InOrder(cells', table_cap')
    BY <1>1, <1>2, <1>8
  <2>2. Table!LoadOK'
    BY <1>1, <1>2, <1>3, <1>7, <1>8 DEF Table!LoadOK
  <2>3. TableInv'
    BY <1>1, <1>2, <1>3, <1>5, <1>8, <2>1, <2>2 DEF TableInv
  <2> QED BY <2>3, <1>1, <1>2, <1>6, <1>8
<1>9. CASE Table!Place(cs[cell], k) = 0
  <2>1. n \in Table!Node /\ n.key = k
    BY DEF Table!Node
  <2>2. OtherKeys(Stored(cs), {n})
    BY <1>6, <1>9, <2>1 DEF OtherKeys
  <2>3. cells' = WithNode(cs, n, m)
    BY <1>2, <1>4, <1>9 DEF WithNode
  <2> HIDE DEF n
  <2>4. InOrder(cells', m) /\ Stored(cells') = Stored(cs) \cup {n}
    BY <1>1, <2>1, <2>2, <2>3, InsertionKeeps
  <2>5. node_max' = node_max + 1 /\ node_max' \in 0 .. MaxNodes /\ free' = <<>>
    BY <1>2, <1>3, <1>9
  <2>6. Table!LoadOK'
    BY <1>1, <1>2, <2>5 DEF Table!LoadOK
  <2>7. TableInv'
    BY <1>1, <1>2, <1>5, <2>4, <2>5, <2>6 DEF TableInv
  <2> QED BY <2>4, <2>7, <1>1, <1>6, <1>9 DEF n
<1> QED BY <1>8, <1>9

(* Find is FindIn of the table, before a step and after it. *)
LEMMA FindIs ==
  /\ \A k : Table!Find(k) = FindIn(cells, table_cap, k)
  /\ \A k : Table!Find(k)' = FindIn(cells', table_cap', k)
BY DEF Table!Find, FindIn

(* hash_map_remove takes out the node of its key and no other. *)
LEMMA TableRemoves ==
  ASSUME TableInv, NEW k \in Key, Table!Remove(k)
  PROVE  /\ TableInv'
         /\ Stored(cells') = {n \in Stored(cells) : n.key # k}
<1> USE TableAssumption
<1>1. /\ last_call' = <<k>> /\ table_cap' = table_cap /\ node_max' = node_max
      /\ table_cap \in Nat /\ InOrder(cells, table_cap) /\ free = <<>>
  BY DEF Table!Remove, TableInv
<1>2. free' = <<>>
  BY <1>1 DEF Table!Remove, Table!Freed
<1>3. Table!LoadOK'
  BY <1>1 DEF TableInv, Table!LoadOK
<1>4. last_call' \in {<<>>} \cup {<<j>> : j \in Key} \cup Key \X Elem
  BY <1>1
<1>5. Table!Find(k) = NULL <=> \A n \in Stored(cells) : n.key # k
  BY <1>1, FindIs, Found
<1>6. CASE Table!Find(k) = NULL
  <2>1. cells' = cells
    BY <1>6 DEF Table!Remove
  <2> QED BY <2>1, <1>1, <1>2, <1>3, <1>4, <1>5, <1>6 DEF TableInv
<1>7. CASE Table!Find(k) # NULL
  <2> DEFINE cell == Table!CellOf(k, table_cap)
             place == Table!Place(cells[cell], k)
  <2>0. \E c \in 0 .. table_cap - 1 : \E p \in DOMAIN cells[c] :
          cells[c][p].key = k /\ cells' = WithoutNode(cells, c, p)
    <3>1. table_cap # 0 /\ place # 0
      BY <1>7 DEF Table!Find
    <3>2. cell \in 0 .. table_cap - 1
      BY <1>1, <3>1, CellInside
    <3>3. cells[cell] \in Seq(Table!Node)
      BY <1>1, <3>1, KeyFound
    <3>4. place \in DOMAIN cells[cell] /\ cells[cell][place].key = k
      BY <3>1, <3>3, PlaceFinds
    <3>5. cells' = WithoutNode(cells, cell, place)
      BY <1>7 DEF Table!Remove, WithoutNode
    <3> HIDE DEF place, cell
    <3> QED BY <3>2, <3>4, <3>5
  <2> HIDE DEF place, cell
  <2>1. PICK c \in 0 .. table_cap - 1 : \E p \in DOMAIN cells[c] :
          cells[c][p].key = k /\ cells' = WithoutNode(cells, c, p)
    BY <2>0
  <2>5. PICK p \in DOMAIN cells[c] : cells[c][p].key = k /\ cells' = WithoutNode(cells, c, p)
    BY <2>1
  <2>2. InOrder(cells', table_cap) /\ Stored(cells') = Stored(cells) \ {cells[c][p]}
    BY <1>1, <2>5, RemovalKeeps
  <2>3. cells[c][p] \in Stored(cells)
    BY <1>1 DEF InOrder, Chains, Stored, Range
  <2>4. \A n \in Stored(cells) : n.key = k => n = cells[c][p]
    BY <1>1, <2>5, <2>3, NodeIsOnlyOne
  <2> QED BY <1>1, <1>2, <1>3, <1>4, <2>5, <2>2, <2>4 DEF TableInv
<1> QED BY <1>6, <1>7

(* The other parts leave the table alone. *)
LEMMA TableStays == TableInv /\ UNCHANGED tableVars => TableInv'
BY DEF TableInv, tableVars, Table!LoadOK

(* Every step of the table keeps its invariant. *)
LEMMA TableSteps == TableInv /\ [Table!Next]_tableVars => TableInv'
<1>1. TableInv /\ Table!Next => TableInv'
  BY TableInserts, TableRemoves DEF Table!Next
<1> QED BY <1>1, TableStays

(* The invariant says what TableOK says. *)
LEMMA TableInvIsEnough == TableInv => TableOK
<1> SUFFICES ASSUME TableInv PROVE TableOK
  OBVIOUS
<1>1. InOrder(cells, table_cap) /\ DOMAIN cells = 0 .. table_cap - 1
  BY DEF TableInv, InOrder, Chains
<1>2. Table!TypeOK
  BY <1>1 DEF TableInv, InOrder, Chains, Table!TypeOK
<1>3. Table!ChainsOK
  <2> SUFFICES ASSUME NEW c \in DOMAIN cells, NEW d \in DOMAIN cells,
                      NEW i \in DOMAIN cells[c], NEW j \in DOMAIN cells[d]
               PROVE  /\ Table!CellOf(cells[c][i].key, table_cap) = c
                      /\ cells[c][i].key = cells[d][j].key => c = d /\ i = j
    BY DEF Table!ChainsOK
  <2>1. cells[c][i] \in Range(cells[c]) /\ cells[d][j] \in Range(cells[d])
    BY DEF Range
  <2>2. Table!CellOf(cells[c][i].key, table_cap) = c
    BY <1>1, <2>1 DEF InOrder, Placed
  <2>3. CASE c # d
    BY <2>1, <2>2, <2>3, <1>1 DEF InOrder, KeysOnce, OtherKeys
  <2>4. CASE c = d
    BY <2>2, <2>4, <1>1 DEF InOrder, KeysOnce, DistinctKeys
  <2> QED BY <2>3, <2>4
<1> QED BY <1>2, <1>3 DEF TableInv, TableOK

(* TypeOK, ChainsOK and LoadOK of the hash map, whatever the keys, the growth and
   the load: no expansion of hash_map_expand leaves a node in a cell where
   hash_map_find does not look for it, or twice. *)
THEOREM TableCorrect == Table!Spec => []TableOK
<1>1. TableInv /\ [Table!Next]_tableVars => TableInv'
  BY TableSteps
<1> QED BY TableStarts, TableInvIsEnough, <1>1, PTL DEF Table!Spec, Table!vars, tableVars

(* What is found for each key after a step. *)
LEMMA FoundAfter ==
  ASSUME TableInv, TableInv', NEW k \in Key
  PROVE  /\ \A n \in Stored(cells) : n.key = k => Table!Find(k) = n.val /\ n.val # NULL
         /\ Table!Find(k) = NULL <=> \A n \in Stored(cells) : n.key # k
         /\ \A n \in Stored(cells') : n.key = k => Table!Find(k)' = n.val /\ n.val # NULL
         /\ Table!Find(k)' = NULL <=> \A n \in Stored(cells') : n.key # k
<1>1. k \in Nat /\ NULL \notin Elem
  BY TableAssumption
<1>2. /\ table_cap \in Nat /\ InOrder(cells, table_cap)
      /\ table_cap' \in Nat /\ InOrder(cells', table_cap')
  BY DEF TableInv
<1>3. /\ \A n \in Stored(cells) : n.key = k => Table!Find(k) = n.val
      /\ Table!Find(k) = NULL <=> \A n \in Stored(cells) : n.key # k
  BY <1>1, <1>2, Found, FindIs
<1>4. /\ \A n \in Stored(cells') : n.key = k => Table!Find(k)' = n.val
      /\ Table!Find(k)' = NULL <=> \A n \in Stored(cells') : n.key # k
  BY <1>1, <1>2, Found, FindIs
<1> QED BY <1>3, <1>4

(* An empty table implements the empty map. *)
LEMMA TableInitIsEmpty == Table!Init => Table!Abstract!Init
<1> SUFFICES ASSUME Table!Init PROVE Table!Abstract!Init
  OBVIOUS
<1>1. \A k : Table!Find(k) = NULL
  BY DEF Table!Find, Table!Init
<1>2. {j \in Key : Table!Find(j) # NULL} = {}
  BY <1>1
<1> QED BY <1>2 DEF Table!Abstract!Init, Table!Init

(* hash_map_insert does to the finite map what its contract says ... *)
LEMMA InsertImplements ==
  ASSUME TableInv, NEW k \in Key, NEW v \in Elem, Table!Insert(k, v)
  PROVE  Table!Abstract!Insert(k, v)
<1> DEFINE D == {j \in Key : Table!Find(j) # NULL}
           E == {j \in Key : Table!Find(j)' # NULL}
<1>1. /\ TableInv'
      /\ \/ (\E n \in Stored(cells) : n.key = k) /\ Stored(cells') = Stored(cells)
         \/ /\ \A n \in Stored(cells) : n.key # k
            /\ Stored(cells') = Stored(cells) \cup {[key |-> k, val |-> v]}
  BY TableInserts
<1>2. E = D \cup {k} /\ \A j \in E : Table!Find(j)' = IF j \in D THEN Table!Find(j) ELSE v
  <2>1. CASE (\E n \in Stored(cells) : n.key = k) /\ Stored(cells') = Stored(cells)
    <3>1. \A j \in Key : Table!Find(j)' = Table!Find(j)
      BY <1>1, <2>1, FoundAfter
    <3>2. k \in D
      BY <1>1, <2>1, FoundAfter
    <3> QED BY <3>1, <3>2
  <2>2. CASE /\ \A n \in Stored(cells) : n.key # k
             /\ Stored(cells') = Stored(cells) \cup {[key |-> k, val |-> v]}
    <3>1. Table!Find(k) = NULL /\ Table!Find(k)' = v /\ v # NULL
      BY <1>1, <2>2, FoundAfter, TableAssumption
    <3>2. ASSUME NEW j \in Key, j # k PROVE Table!Find(j)' = Table!Find(j)
      <4>1. \A n \in Stored(cells') : n.key = j => n \in Stored(cells)
        BY <2>2, <3>2
      <4>2. Stored(cells) \subseteq Stored(cells')
        BY <2>2
      <4> QED BY <1>1, <4>1, <4>2, FoundAfter
    <3> QED BY <3>1, <3>2
  <2> QED BY <1>1, <2>1, <2>2
<1>3. last_call' = <<k, v>>
  BY DEF Table!Insert
<1>4. [j \in E |-> Table!Find(j)'] = [j \in D \cup {k} |-> IF j \in D THEN [i \in D |-> Table!Find(i)][j] ELSE v]
  BY <1>2
<1> QED BY <1>3, <1>4 DEF Table!Abstract!Insert

(* ... and so does hash_map_remove. *)
LEMMA RemoveImplements ==
  ASSUME TableInv, NEW k \in Key, Table!Remove(k)
  PROVE  Table!Abstract!Remove(k)
<1> DEFINE D == {j \in Key : Table!Find(j) # NULL}
           E == {j \in Key : Table!Find(j)' # NULL}
<1>1. TableInv' /\ Stored(cells') = {n \in Stored(cells) : n.key # k}
  BY TableRemoves
<1>2. Table!Find(k)' = NULL
  BY <1>1, FoundAfter
<1>3. ASSUME NEW j \in Key, j # k PROVE Table!Find(j)' = Table!Find(j)
  <2>1. \A n : n.key = j => (n \in Stored(cells) <=> n \in Stored(cells'))
    BY <1>1, <1>3
  <2> QED BY <1>1, <2>1, FoundAfter
<1>4. E = D \ {k} /\ \A j \in E : Table!Find(j)' = Table!Find(j)
  BY <1>2, <1>3
<1>5. last_call' = <<k>>
  BY DEF Table!Remove
<1>6. [j \in E |-> Table!Find(j)'] = [j \in D \ {k} |-> [i \in D |-> Table!Find(i)][j]]
  BY <1>4
<1> QED BY <1>5, <1>6 DEF Table!Abstract!Remove

(* What is found does not change in a step that leaves the table alone. *)
LEMMA NothingFoundChanges ==
  UNCHANGED tableVars =>
    UNCHANGED <<[k \in {j \in Key : Table!Find(j) # NULL} |-> Table!Find(k)], last_call>>
<1> SUFFICES ASSUME UNCHANGED tableVars
             PROVE  UNCHANGED <<[k \in {j \in Key : Table!Find(j) # NULL} |-> Table!Find(k)], last_call>>
  OBVIOUS
<1>1. \A k : Table!Find(k)' = Table!Find(k)
  BY DEF tableVars, Table!Find
<1> QED BY <1>1 DEF tableVars

(* ImplementsMap: hash_map_find finds for each key what a finite map would that
   saw the same insertions and removals, whatever expansions they caused. *)
THEOREM TableImplementsMap == Table!Spec => ImplementsMap
<1> DEFINE found == [k \in {j \in Key : Table!Find(j) # NULL} |-> Table!Find(k)]
<1>1. TableInv /\ [Table!Next]_tableVars => TableInv'
  BY TableSteps
<1>2. TableInv /\ [Table!Next]_tableVars => [Table!Abstract!Next]_<<found, last_call>>
  <2>1. TableInv /\ Table!Next => Table!Abstract!Next
    BY InsertImplements, RemoveImplements DEF Table!Next, Table!Abstract!Next
  <2> QED BY <2>1, NothingFoundChanges
<1> QED BY TableStarts, TableInitIsEmpty, <1>1, <1>2, PTL
    DEF Table!Spec, Table!vars, tableVars, ImplementsMap, Table!ImplementsMap, Table!Abstract!Spec

(***************************************************************************)
(* The arena.                                                              *)
(***************************************************************************)
(* Only of the first chunk is cap known to be the size of its memory. *)
Chunk(a, i) ==
  /\ a \in Memory!Arena /\ a.len <= a.cap
  /\ i = 1 => a.cap = a.elems

(* Lists of at least one chunk, all of them well-formed. *)
Chunks == {chunks \in Seq(Memory!Arena) :
             Len(chunks) > 0 /\ \A i \in DOMAIN chunks : Chunk(chunks[i], i)}

(* One more chunk: the others stay. *)
LEMMA ChunkAdded ==
  ASSUME NEW chunks \in Chunks
  PROVE  LET new == Memory!Longer(chunks)
         IN /\ new \in Chunks
            /\ \A i \in DOMAIN chunks : i \in DOMAIN new /\ new[i] = chunks[i]
<1> DEFINE last == chunks[Len(chunks)]
           a == Memory!NewArena(last)
           new == Append(chunks, a)
<1>0. Memory!Longer(chunks) = new
  BY DEF Memory!Longer
<1>1. chunks \in Seq(Memory!Arena) /\ Len(chunks) \in Nat /\ Len(chunks) > 0 /\ DOMAIN chunks = 1 .. Len(chunks)
  BY LenProperties DEF Chunks
<1>2. last \in Memory!Arena
  <2>1. Len(chunks) \in 1 .. Len(chunks)
    BY <1>1
  <2> QED BY <2>1, <1>1, ElementOfSeq
<1> HIDE DEF last
<1>3. a \in Memory!Arena /\ a.len <= a.cap
  <2>1. last.cap \in Nat /\ last.cap * 2 \in Nat
    BY <1>2 DEF Memory!Arena
  <2>2. a = [len |-> 0, cap |-> last.cap * 2, elems |-> last.cap]
    BY DEF Memory!NewArena
  <2> QED BY <2>1, <2>2 DEF Memory!Arena
<1> HIDE DEF a
<1>4. /\ new \in Seq(Memory!Arena) /\ DOMAIN new = 1 .. Len(chunks) + 1 /\ new[Len(chunks) + 1] = a
      /\ \A i \in 1 .. Len(chunks) : new[i] = chunks[i]
      /\ Len(new) = Len(chunks) + 1
  <2>1. Len(new) = Len(chunks) + 1
    BY <1>1, <1>3, AppendProperties
  <2> QED BY <1>1, <1>3, <2>1, Appended
<1> HIDE DEF new
<1>5. ASSUME NEW i \in DOMAIN new PROVE Chunk(new[i], i)
  <2>1. CASE i \in 1 .. Len(chunks)
    BY <2>1, <1>1, <1>4 DEF Chunks
  <2>2. CASE i = Len(chunks) + 1
    <3>1. i # 1 /\ new[i] = a
      BY <2>2, <1>1, <1>4
    <3> QED BY <3>1, <1>3 DEF Chunk
  <2> QED BY <2>1, <2>2, <1>1, <1>4
<1>6. new \in Chunks
  <2>1. Len(new) > 0
    BY <1>1, <1>4
  <2> QED BY <2>1, <1>4, <1>5 DEF Chunks
<1>7. \A i \in DOMAIN chunks : i \in DOMAIN new /\ new[i] = chunks[i]
  BY <1>1, <1>4
<1> QED BY <1>0, <1>6, <1>7

(* arena_alloc adds chunks behind those there are, and changes none of these. *)
LEMMA ChunksAdded ==
  ASSUME NEW chunks \in Chunks, NEW n \in Nat
  PROVE  LET new == Memory!Extended(chunks, n)
         IN /\ new \in Chunks
            /\ \A i \in DOMAIN chunks : i \in DOMAIN new /\ new[i] = chunks[i]
<1> DEFINE step == [p \in Nat \X Chunks |-> Memory!Longer(p[2])]
           IsAfter(f) == f = [m \in 0 .. n |-> IF m = 0 THEN chunks ELSE Memory!Longer(f[m - 1])]
           after == CHOOSE f : IsAfter(f)
           Good(s) == s \in Chunks /\ \A i \in DOMAIN chunks : i \in DOMAIN s /\ s[i] = chunks[i]
           T == {m \in Nat : m <= n => Good(after[m])}
<1>1. Memory!Extended(chunks, n) = after[n]
  BY DEF Memory!Extended
<1>2. \A s \in Chunks : /\ Memory!Longer(s) \in Chunks
                        /\ \A i \in DOMAIN s : i \in DOMAIN Memory!Longer(s) /\ Memory!Longer(s)[i] = s[i]
  BY ChunkAdded
<1>3. step \in [Nat \X Chunks -> Chunks]
  BY <1>2
<1>4. PICK f \in [Nat -> Chunks] : f[0] = chunks /\ \A i \in Nat : f[i + 1] = step[<<i, f[i]>>]
  <2> HIDE DEF step
  <2>1. \E f \in [Nat -> Chunks] : Iterates(f, chunks, step)
    BY <1>3, RunExists
  <2> QED BY <2>1 DEF Iterates
<1>5. ASSUME NEW i \in Nat PROVE f[i + 1] = Memory!Longer(f[i])
  BY <1>4
<1> HIDE DEF step
<1>6. \E g : IsAfter(g)
  <2> DEFINE g == [m \in 0 .. n |-> f[m]]
  <2>1. ASSUME NEW m \in 0 .. n, m # 0 PROVE g[m] = Memory!Longer(g[m - 1])
    <3>1. m - 1 \in Nat /\ (m - 1) + 1 = m /\ m - 1 \in 0 .. n
      BY <2>1
    <3>2. f[(m - 1) + 1] = Memory!Longer(f[m - 1])
      BY <3>1, <1>5
    <3> QED BY <3>1, <3>2
  <2>2. g = [m \in 0 .. n |-> IF m = 0 THEN chunks ELSE Memory!Longer(g[m - 1])]
    BY <2>1, <1>4
  <2> QED BY <2>2
<1>7. IsAfter(after)
  BY <1>6
<1> HIDE DEF after
<1>8. after[0] = chunks /\ \A m \in 1 .. n : after[m] = Memory!Longer(after[m - 1])
  <2>1. 0 \in 0 .. n /\ \A m \in 1 .. n : m \in 0 .. n /\ m # 0
    OBVIOUS
  <2> QED BY <2>1, <1>7
<1>9. 0 \in T
  BY <1>8
<1>10. ASSUME NEW m \in Nat, m \in T PROVE m + 1 \in T
  <2> SUFFICES ASSUME m + 1 <= n PROVE Good(after[m + 1])
    <3> HIDE DEF Good
    <3> QED OBVIOUS
  <2>1. m + 1 \in 1 .. n /\ (m + 1) - 1 = m /\ m <= n
    OBVIOUS
  <2>2. Good(after[m])
    BY <2>1, <1>10
  <2>3. after[m + 1] = Memory!Longer(after[m])
    BY <2>1, <1>8
  <2> QED BY <2>2, <2>3, <1>2
<1> HIDE DEF T
<1>11. Nat \subseteq T
  BY <1>9, <1>10, SetInduction
<1>12. Good(after[n])
  <2>1. n \in T /\ n <= n
    BY <1>11
  <2> HIDE DEF Good
  <2> QED BY <2>1 DEF T
<1> QED BY <1>1, <1>12

(* Blocks of one chunk are apart from each other. *)
BlocksApart ==
  \A g, h \in given : g # h /\ g.in = h.in => g.at + g.size <= h.at \/ h.at + h.size <= g.at

(* What is given out of a chunk ends before len, where the next allocation of that
   chunk will begin. *)
ArenaInv ==
  /\ arenas \in Chunks
  /\ \A g \in given : /\ g.in \in DOMAIN arenas /\ g.at \in Nat /\ g.size \in Nat
                      /\ g.at + g.size <= arenas[g.in].len
  /\ BlocksApart

(* arena_init makes one chunk. *)
LEMMA FirstChunk == <<[len |-> 0, cap |-> FirstCap, elems |-> FirstCap]>> \in Chunks
<1> DEFINE a == [len |-> 0, cap |-> FirstCap, elems |-> FirstCap]
<1>1. FirstCap \in Nat
  BY PartsAssumption DEF Memory!ArenaAssumption
<1>2. a \in Memory!Arena /\ Chunk(a, 1)
  BY <1>1 DEF Memory!Arena, Chunk
<1> HIDE DEF a
<1>3. <<a>> \in Seq(Memory!Arena) /\ Len(<<a>>) = 1 /\ DOMAIN <<a>> = 1 .. 1 /\ <<a>>[1] = a
  BY <1>2
<1>4. <<a>> \in Chunks
  BY <1>2, <1>3 DEF Chunks
<1> QED BY <1>4 DEF a

(* The arena starts with one chunk and nothing given. *)
LEMMA ArenaStarts == Memory!Init => ArenaInv
BY FirstChunk DEF Memory!Init, ArenaInv, BlocksApart

(* The block that is taken begins where the last one of its chunk ended. *)
LEMMA TakeKeeps ==
  ASSUME ArenaInv, NEW chunks \in Chunks, NEW size \in Nat, NEW i \in DOMAIN chunks,
         \A j \in DOMAIN arenas : j \in DOMAIN chunks /\ chunks[j] = arenas[j],
         Memory!Fits(chunks[i], size), Memory!Take(chunks, i, size)
  PROVE  ArenaInv'
<1> DEFINE g == [in |-> i, at |-> chunks[i].len, size |-> size]
           a == [chunks[i] EXCEPT !.len = @ + size]
<1>1. chunks \in Seq(Memory!Arena) /\ Len(chunks) > 0 /\ \A j \in DOMAIN chunks : Chunk(chunks[j], j)
  BY DEF Chunks
<1>2. /\ chunks[i] \in Memory!Arena /\ chunks[i].len \in Nat /\ chunks[i].cap \in Nat /\ chunks[i].elems \in Nat
      /\ i = 1 => chunks[i].cap = chunks[i].elems
  BY <1>1 DEF Chunk, Memory!Arena
<1>3. arenas' = [chunks EXCEPT ![i] = a] /\ given' = given \cup {g}
  BY DEF Memory!Take
<1>4. /\ a \in Memory!Arena /\ a.len = chunks[i].len + size /\ a.cap = chunks[i].cap
      /\ a.elems = chunks[i].elems /\ a.len <= a.cap
  <2>1. chunks[i].len + size \in Nat /\ chunks[i].len + size <= chunks[i].cap
    BY <1>2 DEF Memory!Fits
  <2>2. a = [chunks[i] EXCEPT !.len = chunks[i].len + size]
    OBVIOUS
  <2> QED BY <1>2, <2>1, <2>2 DEF Memory!Arena
<1>5. Chunk(a, i)
  BY <1>2, <1>4 DEF Chunk
<1>6. g.in = i /\ g.at = chunks[i].len /\ g.size = size
  OBVIOUS
<1> HIDE DEF a, g
<1>7. /\ arenas' \in Seq(Memory!Arena) /\ Len(arenas') = Len(chunks) /\ DOMAIN arenas' = DOMAIN chunks
      /\ arenas'[i] = a /\ \A j \in DOMAIN chunks : j # i => arenas'[j] = chunks[j]
  <2>1. chunks \in Seq(Memory!Arena) /\ i \in 1 .. Len(chunks) /\ DOMAIN chunks = 1 .. Len(chunks)
    BY <1>1, LenProperties
  <2>2. arenas' \in Seq(Memory!Arena) /\ Len(arenas') = Len(chunks)
    BY <2>1, <1>3, <1>4, ExceptSeq
  <2>3. DOMAIN arenas' = DOMAIN chunks
    BY <2>1, <2>2, LenProperties
  <2>4. arenas'[i] = a /\ \A j \in DOMAIN chunks : j # i => arenas'[j] = chunks[j]
    BY <1>3
  <2> QED BY <2>2, <2>3, <2>4
<1>8. arenas' \in Chunks
  BY <1>1, <1>5, <1>7 DEF Chunks
<1>9. ASSUME NEW h \in given
      PROVE  /\ h.in \in DOMAIN chunks /\ h.at \in Nat /\ h.size \in Nat
             /\ h.at + h.size <= chunks[h.in].len
             /\ h.at + h.size <= arenas'[h.in].len
  <2>1. /\ h.in \in DOMAIN chunks /\ h.at \in Nat /\ h.size \in Nat
        /\ h.at + h.size <= chunks[h.in].len
    BY DEF ArenaInv
  <2>2. CASE h.in = i
    <3>1. arenas'[h.in].len = chunks[i].len + size
      BY <2>2, <1>4, <1>7
    <3> QED BY <2>1, <2>2, <3>1, <1>2
  <2>3. CASE h.in # i
    BY <2>1, <2>3, <1>7
  <2> QED BY <2>1, <2>2, <2>3
<1>10. BlocksApart'
  <2> SUFFICES ASSUME NEW x \in given', NEW y \in given', x # y, x.in = y.in
               PROVE  x.at + x.size <= y.at \/ y.at + y.size <= x.at
    BY DEF BlocksApart
  <2>1. CASE x \in given /\ y \in given
    BY <2>1 DEF ArenaInv, BlocksApart
  <2>2. CASE x = g
    <3>1. y \in given /\ y.in = i
      BY <2>2, <1>3, <1>6
    <3> QED BY <2>2, <3>1, <1>6, <1>9
  <2>3. CASE y = g
    <3>1. x \in given /\ x.in = i
      BY <2>3, <1>3, <1>6
    <3> QED BY <2>3, <3>1, <1>6, <1>9
  <2> QED BY <2>1, <2>2, <2>3, <1>3
<1>11. ASSUME NEW h \in given'
       PROVE  /\ h.in \in DOMAIN arenas' /\ h.at \in Nat /\ h.size \in Nat
              /\ h.at + h.size <= arenas'[h.in].len
  <2>1. CASE h \in given
    BY <2>1, <1>7, <1>9
  <2>2. CASE h = g
    <3>1. h.in = i /\ h.at = chunks[i].len /\ h.size = size /\ i \in DOMAIN arenas'
      BY <2>2, <1>6, <1>7
    <3>2. arenas'[i].len = chunks[i].len + size
      BY <1>4, <1>7
    <3> QED BY <3>1, <3>2, <1>2
  <2> QED BY <2>1, <2>2, <1>3
<1> QED BY <1>8, <1>10, <1>11 DEF ArenaInv

(* Every allocation keeps the invariant. *)
LEMMA ArenaSteps == ArenaInv /\ [Memory!Next]_memoryVars => ArenaInv'
<1> SUFFICES ASSUME ArenaInv, [Memory!Next]_memoryVars PROVE ArenaInv'
  OBVIOUS
<1>1. ASSUME NEW size \in Sizes, Memory!arena_alloc(size) PROVE ArenaInv'
  <2>1. size \in Nat
    BY PartsAssumption DEF Memory!ArenaAssumption
  <2>2. PICK n \in 0 .. size + 1 :
          \E i \in DOMAIN Memory!Extended(arenas, n) :
            /\ Memory!Fits(Memory!Extended(arenas, n)[i], size)
            /\ Memory!Take(Memory!Extended(arenas, n), i, size)
    BY <1>1 DEF Memory!arena_alloc
  <2>3. n \in Nat /\ arenas \in Chunks
    BY <2>1 DEF ArenaInv
  <2>4. PICK chunks \in Chunks : /\ chunks = Memory!Extended(arenas, n)
                             /\ \A j \in DOMAIN arenas : j \in DOMAIN chunks /\ chunks[j] = arenas[j]
    BY <2>3, ChunksAdded
  <2> QED BY <2>1, <2>2, <2>4, TakeKeeps
<1>2. CASE Memory!arena_deinit
  BY <1>2, FirstChunk DEF Memory!arena_deinit, ArenaInv, BlocksApart
<1>3. CASE UNCHANGED memoryVars
  BY <1>3 DEF memoryVars, ArenaInv, BlocksApart
<1> QED BY <1>1, <1>2, <1>3 DEF Memory!Next

(* ArenaOK: whatever sizes are asked for and however many chunks that takes, no byte
   that malloc returned to arena.c is in two blocks, a block ends at the cap of its
   chunk at the latest, and in the first chunk inside its memory.  In the others a
   block may end outside (arena.c:39). *)
THEOREM ArenaGivesOnce == Memory!Spec => []ArenaOK
<1>1. ASSUME ArenaInv PROVE Memory!NoByteTwice
  <2> SUFFICES ASSUME NEW g \in given, NEW h \in given, g # h,
                      NEW x \in Memory!BytesOf(g), x \in Memory!BytesOf(h)
               PROVE  FALSE
    BY DEF Memory!NoByteTwice
  <2>1. /\ g.at \in Nat /\ g.size \in Nat /\ h.at \in Nat /\ h.size \in Nat
    BY <1>1 DEF ArenaInv
  <2>2. /\ g.in = h.in /\ x[2] \in g.at .. g.at + g.size - 1
        /\ x[2] \in h.at .. h.at + h.size - 1
    BY DEF Memory!BytesOf
  <2>3. g.at + g.size <= h.at \/ h.at + h.size <= g.at
    BY <1>1, <2>2 DEF ArenaInv, BlocksApart
  <2> QED BY <2>1, <2>2, <2>3
<1>2. ASSUME ArenaInv PROVE Memory!WithinCap
  <2> SUFFICES ASSUME NEW g \in given
               PROVE  /\ g.at + g.size <= arenas[g.in].cap
                      /\ g.in = 1 => g.at + g.size <= arenas[g.in].elems
    BY DEF Memory!WithinCap
  <2>1. /\ g.in \in DOMAIN arenas /\ g.at \in Nat /\ g.size \in Nat
        /\ g.at + g.size <= arenas[g.in].len
    BY <1>2 DEF ArenaInv
  <2>2. Chunk(arenas[g.in], g.in)
    BY <1>2, <2>1 DEF ArenaInv, Chunks
  <2>3. arenas[g.in].len \in Nat /\ arenas[g.in].cap \in Nat
    BY <2>2 DEF Chunk, Memory!Arena
  <2> QED BY <2>1, <2>2, <2>3 DEF Chunk
<1>3. ArenaInv => ArenaOK
  BY <1>1, <1>2 DEF ArenaOK
<1> QED BY ArenaStarts, ArenaSteps, <1>3, PTL DEF Memory!Spec, memoryVars

(***************************************************************************)
(* The list of clients.                                                    *)
(***************************************************************************)
(* The links agree everywhere, a record is linked to older ones only, so never
   to itself, and those not allocated yet to none.  Nothing is ever on
   free_clients. *)
ListInv ==
  /\ List!TypeOK
  /\ free_clients = List!Null
  /\ clients \in 1 .. allocated
  /\ prev[clients] = List!Null
  /\ \A c \in List!Client : next[c] # List!Null => next[c] < c /\ prev[next[c]] = c
  /\ \A c \in List!Client : prev[c] # List!Null => next[prev[c]] = c
  /\ \A c \in List!Client : c > allocated => next[c] = List!Null /\ prev[c] = List!Null

(* No record is open at first. *)
LEMMA ListBegins ==
  ASSUME List!ClientListAssumption, List!Init
  PROVE  ListInv
<1>1. MaxClients \in Nat \ {0}
  BY DEF List!ClientListAssumption
<1>2. 1 \in 1 .. MaxClients
  BY <1>1
<1>3. \A c \in 1 .. MaxClients : next[c] = 0 /\ prev[c] = 0
  BY DEF List!Init, List!Client, List!Null
<1>4. next \in [1 .. MaxClients -> 0 .. MaxClients] /\ prev \in [1 .. MaxClients -> 0 .. MaxClients]
  BY <1>1 DEF List!Init, List!Client, List!Null
<1>5. (1 .. MaxClients) \cup {0} = 0 .. MaxClients
  BY <1>1
<1>6. List!TypeOK
  BY <1>1, <1>2, <1>4, <1>5 DEF List!TypeOK, List!Init, List!Client, List!Null, List!dummy
<1> QED BY <1>2, <1>3, <1>6 DEF ListInv, List!Init, List!Client, List!Null, List!dummy

(* A record is linked in at the front of the open ones. *)
LEMMA NewClientKeeps ==
  ASSUME List!ClientListAssumption, ListInv, List!NewClient
  PROVE  ListInv'
<1>1. PICK n : n = allocated + 1
  OBVIOUS
<1>2. MaxClients \in Nat /\ allocated \in 1 .. MaxClients
  BY DEF List!ClientListAssumption, ListInv, List!TypeOK, List!Client
<1>3. /\ n \in 1 .. MaxClients /\ allocated' = n /\ free_clients' = 0
      /\ clients' = n /\ open' = open \cup {n}
      /\ next' = [next EXCEPT ![n] = clients]
      /\ prev' = [c \in 1 .. MaxClients |-> IF c = n THEN 0 ELSE IF c = clients THEN n ELSE prev[c]]
  BY <1>1 DEF ListInv, List!NewClient, List!Client, List!Null
<1>4. /\ next \in [1 .. MaxClients -> 0 .. MaxClients]
      /\ prev \in [1 .. MaxClients -> 0 .. MaxClients]
      /\ open \subseteq 1 .. allocated /\ clients \in 1 .. allocated /\ prev[clients] = 0
  <2>1. (1 .. MaxClients) \cup {0} = 0 .. MaxClients
    BY <1>2
  <2> QED BY <2>1 DEF ListInv, List!TypeOK, List!Client, List!Null
<1>5. /\ \A c \in 1 .. MaxClients : next'[c] = IF c = n THEN clients ELSE next[c]
      /\ \A c \in 1 .. MaxClients : prev'[c] = IF c = n THEN 0
                                               ELSE IF c = clients THEN n ELSE prev[c]
  BY <1>3, <1>4
<1>6. /\ \A c \in 1 .. MaxClients : next[c] # 0 => next[c] < c /\ prev[next[c]] = c
      /\ \A c \in 1 .. MaxClients : prev[c] # 0 => next[prev[c]] = c
      /\ \A c \in 1 .. MaxClients : c > allocated => next[c] = 0 /\ prev[c] = 0
  BY DEF ListInv, List!Client, List!Null
<1>7. List!TypeOK'
  <2>1. next' \in [1 .. MaxClients -> 0 .. MaxClients] /\ prev' \in [1 .. MaxClients -> 0 .. MaxClients]
    BY <1>2, <1>3, <1>4
  <2>2. (1 .. MaxClients) \cup {0} = 0 .. MaxClients
    BY <1>2
  <2>3. open' \subseteq 1 .. n
    BY <1>1, <1>2, <1>3, <1>4
  <2> QED BY <2>1, <2>2, <2>3, <1>3 DEF List!TypeOK, List!Client, List!Null
<1>8. /\ n > allocated /\ clients < n /\ clients # n /\ clients \in 1 .. MaxClients
      /\ clients' \in 1 .. allocated'
      /\ \A c \in 1 .. MaxClients : c > allocated' => c # n /\ c # clients /\ c > allocated
  BY <1>1, <1>2, <1>3, <1>4
<1>9. prev'[clients'] = 0
  BY <1>3, <1>5
<1>10. \A c \in 1 .. MaxClients : next'[c] # 0 => next'[c] < c /\ prev'[next'[c]] = c
  <2> SUFFICES ASSUME NEW c \in 1 .. MaxClients, next'[c] # 0
               PROVE  next'[c] < c /\ prev'[next'[c]] = c
    OBVIOUS
  <2>1. CASE c = n
    BY <2>1, <1>5, <1>8
  <2>2. CASE c # n
    <3>1. next'[c] = next[c] /\ next[c] # 0 /\ next[c] < c /\ prev[next[c]] = c
      BY <2>2, <1>5, <1>6
    <3>2. next[c] \in 1 .. MaxClients
      BY <3>1, <1>2, <1>4
    <3>3. next[c] # clients
      BY <3>1, <1>4
    <3>4. next[c] # n
      <4>1. prev[n] = 0 /\ c # 0
        BY <1>3, <1>6, <1>8
      <4> QED BY <4>1, <3>1
    <3> QED BY <3>1, <3>2, <3>3, <3>4, <1>5
  <2> QED BY <2>1, <2>2
<1>11. \A c \in 1 .. MaxClients : prev'[c] # 0 => next'[prev'[c]] = c
  <2> SUFFICES ASSUME NEW c \in 1 .. MaxClients, prev'[c] # 0
               PROVE  next'[prev'[c]] = c
    OBVIOUS
  <2>1. CASE c = clients
    BY <2>1, <1>3, <1>5, <1>8
  <2>2. CASE c # clients
    <3>1. prev'[c] = prev[c] /\ prev[c] # 0 /\ next[prev[c]] = c
      BY <2>2, <1>5, <1>6
    <3>2. prev[c] \in 1 .. MaxClients
      BY <3>1, <1>2, <1>4
    <3>3. prev[c] # n
      BY <3>1, <3>2, <1>6, <1>8
    <3> QED BY <3>1, <3>2, <3>3, <1>5
  <2> QED BY <2>1, <2>2
<1>12. \A c \in 1 .. MaxClients : c > allocated' => next'[c] = 0 /\ prev'[c] = 0
  BY <1>5, <1>6, <1>8
<1> QED BY <1>3, <1>7, <1>8, <1>9, <1>10, <1>11, <1>12 DEF ListInv, List!Client, List!Null

(* Of the neighbours p and n of a record, p gets the link to n, and n to p. *)
LEMMA CloseClientKeeps ==
  ASSUME List!ClientListAssumption, ListInv, NEW x \in open, List!CloseClient(x)
  PROVE  ListInv'
<1>1. /\ MaxClients \in Nat /\ allocated \in 1 .. MaxClients /\ x \in 1 .. MaxClients
      /\ next \in [1 .. MaxClients -> 0 .. MaxClients]
      /\ prev \in [1 .. MaxClients -> 0 .. MaxClients]
      /\ open \subseteq 1 .. allocated /\ clients \in 1 .. allocated /\ prev[clients] = 0
  <2>1. MaxClients \in Nat
    BY DEF List!ClientListAssumption
  <2>2. (1 .. MaxClients) \cup {0} = 0 .. MaxClients
    BY <2>1
  <2>3. open \subseteq 1 .. allocated /\ allocated \in 1 .. MaxClients
    BY DEF ListInv, List!TypeOK, List!Client
  <2> QED BY <2>1, <2>2, <2>3 DEF ListInv, List!TypeOK, List!Client, List!Null
<1>2. /\ \A c \in 1 .. MaxClients : next[c] # 0 => next[c] < c /\ prev[next[c]] = c
      /\ \A c \in 1 .. MaxClients : prev[c] # 0 => next[prev[c]] = c
      /\ \A c \in 1 .. MaxClients : c > allocated => next[c] = 0 /\ prev[c] = 0
  BY DEF ListInv, List!Client, List!Null
<1>3. PICK p \in 0 .. MaxClients, n \in 0 .. MaxClients : p = prev[x] /\ n = next[x]
  BY <1>1
<1>4. /\ \A c \in 1 .. MaxClients :
           next'[c] = IF c = x THEN 0 ELSE IF c = p THEN n ELSE next[c]
      /\ \A c \in 1 .. MaxClients :
           prev'[c] = IF c = x THEN 0 ELSE IF c = n THEN p ELSE prev[c]
      /\ next' \in [1 .. MaxClients -> 0 .. MaxClients]
      /\ prev' \in [1 .. MaxClients -> 0 .. MaxClients]
      /\ open' = open \ {x}
      /\ clients' = clients /\ free_clients' = free_clients /\ allocated' = allocated
  <2>1. next' = [[c \in 1 .. MaxClients |-> IF c = p THEN n ELSE next[c]] EXCEPT ![x] = 0]
    BY <1>3 DEF List!CloseClient, List!Unlinked, List!Client, List!Null, ListInv
  <2>2. prev' = [[c \in 1 .. MaxClients |-> IF c = n THEN p ELSE prev[c]] EXCEPT ![x] = 0]
    BY <1>3 DEF List!CloseClient, List!Unlinked, List!Client, List!Null
  <2>3. \A c \in 1 .. MaxClients :
          next'[c] = IF c = x THEN 0 ELSE IF c = p THEN n ELSE next[c]
    BY <2>1
  <2>4. \A c \in 1 .. MaxClients :
          prev'[c] = IF c = x THEN 0 ELSE IF c = n THEN p ELSE prev[c]
    BY <2>2
  <2>5. next' \in [1 .. MaxClients -> 0 .. MaxClients]
    <3>1. [c \in 1 .. MaxClients |-> IF c = p THEN n ELSE next[c]]
            \in [1 .. MaxClients -> 0 .. MaxClients]
      BY <1>1
    <3>2. 0 \in 0 .. MaxClients
      BY <1>1
    <3> QED BY <2>1, <3>1, <3>2
  <2>6. prev' \in [1 .. MaxClients -> 0 .. MaxClients]
    <3>1. [c \in 1 .. MaxClients |-> IF c = n THEN p ELSE prev[c]]
            \in [1 .. MaxClients -> 0 .. MaxClients]
      BY <1>1
    <3>2. 0 \in 0 .. MaxClients
      BY <1>1
    <3> QED BY <2>2, <3>1, <3>2
  <2> QED BY <2>3, <2>4, <2>5, <2>6 DEF List!CloseClient
<1>5. /\ p # 0 => p \in 1 .. MaxClients /\ next[p] = x /\ x < p
      /\ n # 0 => n \in 1 .. MaxClients /\ prev[n] = x /\ n < x
  <2>1. p # 0 => p \in 1 .. MaxClients /\ next[p] = x
    BY <1>1, <1>2, <1>3
  <2>2. p # 0 => x < p
    BY <2>1, <1>1, <1>2, SMTT(30)
  <2>3. n # 0 => n \in 1 .. MaxClients /\ prev[n] = x /\ n < x
    BY <1>1, <1>2, <1>3
  <2> QED BY <2>1, <2>2, <2>3
<1>6. List!TypeOK'
  <2>1. (1 .. MaxClients) \cup {0} = 0 .. MaxClients
    BY <1>1
  <2>2. /\ open' \subseteq 1 .. allocated' /\ allocated' \in 1 .. MaxClients
        /\ clients' \in 0 .. MaxClients /\ free_clients' = 0
    BY <1>1, <1>4 DEF ListInv, List!Null
  <2>3. free_clients' \in 0 .. MaxClients
    BY <2>2, <1>1
  <2> QED BY <2>1, <2>2, <2>3, <1>4 DEF List!TypeOK, List!Client, List!Null
<1>7. prev'[clients] = 0
  <2>1. clients \in 1 .. MaxClients /\ x # 0
    BY <1>1
  <2>2. clients # n
    BY <2>1, <1>1, <1>5
  <2> QED BY <2>1, <2>2, <1>1, <1>4
<1>8. \A c \in 1 .. MaxClients : next'[c] # 0 => next'[c] < c /\ prev'[next'[c]] = c
  <2> SUFFICES ASSUME NEW c \in 1 .. MaxClients, next'[c] # 0
               PROVE  next'[c] < c /\ prev'[next'[c]] = c
    OBVIOUS
  <2>1. c # x
    BY <1>4
  <2>2. CASE c = p
    BY <2>1, <2>2, <1>1, <1>4, <1>5, SMTT(30)
  <2>3. CASE c # p
    <3>1. next'[c] = next[c] /\ next[c] # 0 /\ next[c] < c /\ prev[next[c]] = c
      BY <2>1, <2>3, <1>2, <1>4
    <3>2. next[c] \in 1 .. MaxClients
      BY <3>1, <1>1
    <3>3. next[c] # x /\ next[c] # n
      BY <3>1, <2>1, <2>3, <1>3, <1>5
    <3> QED BY <3>1, <3>2, <3>3, <1>4
  <2> QED BY <2>2, <2>3
<1>9. \A c \in 1 .. MaxClients : prev'[c] # 0 => next'[prev'[c]] = c
  <2> SUFFICES ASSUME NEW c \in 1 .. MaxClients, prev'[c] # 0
               PROVE  next'[prev'[c]] = c
    OBVIOUS
  <2>1. c # x
    BY <1>4
  <2>2. CASE c = n
    BY <2>1, <2>2, <1>1, <1>4, <1>5
  <2>3. CASE c # n
    <3>1. prev'[c] = prev[c] /\ prev[c] # 0 /\ next[prev[c]] = c
      BY <2>1, <2>3, <1>2, <1>4
    <3>2. prev[c] \in 1 .. MaxClients
      BY <3>1, <1>1
    <3>3. prev[c] # x /\ prev[c] # p
      BY <3>1, <2>1, <2>3, <1>3, <1>5
    <3> QED BY <3>1, <3>2, <3>3, <1>4
  <2> QED BY <2>2, <2>3
<1>10. \A c \in 1 .. MaxClients : c > allocated => next'[c] = 0 /\ prev'[c] = 0
  <2> SUFFICES ASSUME NEW c \in 1 .. MaxClients, c > allocated
               PROVE  next'[c] = 0 /\ prev'[c] = 0
    OBVIOUS
  <2>1. next[c] = 0 /\ prev[c] = 0 /\ x # 0
    BY <1>1, <1>2
  <2>2. c # p /\ c # n
    BY <2>1, <1>1, <1>5
  <2> QED BY <2>1, <2>2, <1>4
<1> QED BY <1>1, <1>4, <1>6, <1>7, <1>8, <1>9, <1>10 DEF ListInv, List!Client, List!Null

(* The assertions of server_new_client and server_close_client never fail, and
   the links of open records agree, for any number of records. *)
THEOREM ListLinked == List!Spec => []ListOK
<1> USE PartsAssumption
<1>1. List!Init => ListInv
  BY ListBegins
<1>2. ListInv /\ [List!Next]_List!list => ListInv'
  <2> SUFFICES ASSUME ListInv, [List!Next]_List!list PROVE ListInv'
    OBVIOUS
  <2>1. CASE List!NewClient
    BY <2>1, NewClientKeeps
  <2>2. ASSUME NEW c \in open, List!CloseClient(c) PROVE ListInv'
    BY <2>2, CloseClientKeeps
  <2>3. CASE UNCHANGED List!list
    BY <2>3 DEF List!list, ListInv, List!TypeOK, List!Client, List!Null
  <2> QED BY <2>1, <2>2, <2>3 DEF List!Next
<1>3. ListInv => ListOK
  <2> SUFFICES ASSUME ListInv PROVE ListOK
    OBVIOUS
  <2>1. open \subseteq List!Client
    BY DEF ListInv, List!TypeOK, List!Client, List!ClientListAssumption
  <2> QED BY <2>1 DEF ListInv, ListOK, List!ListOK, List!LinksAgree, List!AssertsHold
<1> QED BY <1>1, <1>2, <1>3, PTL DEF List!Spec

(***************************************************************************)
(* The packed arguments.                                                   *)
(***************************************************************************)
(* Every argument is at least one byte wide. *)
LEMMA Widths ==
  ASSUME NEW c \in Packed!Letter
  PROVE  Packed!Width[c] \in Nat /\ Packed!Width[c] > 0
BY DEF Packed!Letter, Packed!Width

(* ptr, argument by argument. *)
LEMMA Offsets ==
  ASSUME NEW fmt \in Seq(Packed!Letter)
  PROVE  /\ Packed!Offset(fmt, 0) = 8
         /\ \A k \in 0 .. Len(fmt) : Packed!Offset(fmt, k) \in Nat
         /\ \A k \in 1 .. Len(fmt) :
              Packed!Offset(fmt, k) = Packed!Offset(fmt, k - 1) + Packed!Width[fmt[k]]
<1> DEFINE width == [i \in Nat |-> IF i + 1 \in 1 .. Len(fmt) THEN Packed!Width[fmt[i + 1]] ELSE 0]
           step == [p \in Nat \X Nat |-> p[2] + width[p[1]]]
<1>0. Len(fmt) \in Nat /\ \A k \in 1 .. Len(fmt) : fmt[k] \in Packed!Letter
  BY ElementOfSeq
<1>1. \A i \in Nat : width[i] \in Nat
  BY <1>0, Widths
<1>2. PICK f \in [Nat -> Nat] : f[0] = 8 /\ \A i \in Nat : f[i + 1] = step[<<i, f[i]>>]
  <2> HIDE DEF width
  <2>1. step \in [Nat \X Nat -> Nat]
    BY <1>1
  <2> HIDE DEF step
  <2>2. \E f \in [Nat -> Nat] : Iterates(f, 8, step)
    BY <2>1, RunExists
  <2> QED BY <2>2 DEF Iterates
<1>3. ASSUME NEW k \in 1 .. Len(fmt) PROVE f[k] = f[k - 1] + Packed!Width[fmt[k]]
  <2>1. k - 1 \in Nat /\ (k - 1) + 1 = k
    OBVIOUS
  <2>2. width[k - 1] = Packed!Width[fmt[k]]
    BY <2>1
  <2> HIDE DEF width
  <2> QED BY <2>1, <2>2, <1>2
<1> HIDE DEF width, step
<1>4. ASSUME NEW k \in 0 .. Len(fmt) PROVE Packed!Offset(fmt, k) = f[k]
  <2> DEFINE IsPtr(g) == g = [i \in 0 .. k |-> IF i = 0 THEN Packed!Header
                                                        ELSE g[i - 1] + Packed!Width[fmt[i]]]
             ptr == CHOOSE g : IsPtr(g)
             T == {i \in Nat : i <= k => ptr[i] = f[i]}
  <2>1. Packed!Offset(fmt, k) = ptr[k]
    BY DEF Packed!Offset
  <2>2. \E g : IsPtr(g)
    <3> DEFINE g == [i \in 0 .. k |-> f[i]]
    <3>1. ASSUME NEW i \in 0 .. k, i # 0 PROVE g[i] = g[i - 1] + Packed!Width[fmt[i]]
      <4>1. i - 1 \in 0 .. k /\ i \in 1 .. Len(fmt)
        BY <3>1
      <4> QED BY <4>1, <1>3
    <3>2. IsPtr(g)
      BY <3>1, <1>2 DEF Packed!Header
    <3> QED BY <3>2
  <2>3. IsPtr(ptr)
    BY <2>2
  <2> HIDE DEF ptr
  <2>4. ptr[0] = 8 /\ \A i \in 1 .. k : ptr[i] = ptr[i - 1] + Packed!Width[fmt[i]]
    <3>1. 0 \in 0 .. k /\ \A i \in 1 .. k : i \in 0 .. k /\ i # 0
      OBVIOUS
    <3> QED BY <3>1, <2>3 DEF Packed!Header
  <2>5. 0 \in T
    BY <2>4, <1>2
  <2>6. ASSUME NEW i \in Nat, i \in T PROVE i + 1 \in T
    <3> SUFFICES ASSUME i + 1 <= k PROVE ptr[i + 1] = f[i + 1]
      OBVIOUS
    <3>1. i + 1 \in 1 .. k /\ i + 1 \in 1 .. Len(fmt) /\ (i + 1) - 1 = i /\ ptr[i] = f[i]
      BY <2>6
    <3> QED BY <3>1, <2>4, <1>3
  <2> HIDE DEF T
  <2>7. Nat \subseteq T
    BY <2>5, <2>6, SetInduction
  <2> QED BY <2>1, <2>7 DEF T
<1>5. \A k \in 1 .. Len(fmt) : k \in 0 .. Len(fmt) /\ k - 1 \in 0 .. Len(fmt)
  BY <1>0
<1>6. 0 \in 0 .. Len(fmt) /\ \A k \in 0 .. Len(fmt) : f[k] \in Nat
  BY <1>0
<1> QED BY <1>2, <1>3, <1>4, <1>5, <1>6

(* Every argument has bytes of its own. *)
LEMMA OffsetsGrow ==
  ASSUME NEW fmt \in Seq(Packed!Letter), NEW k \in 0 .. Len(fmt)
  PROVE  /\ Packed!Offset(fmt, k) >= 8
         /\ \A j \in 0 .. k : Packed!Offset(fmt, j) <= Packed!Offset(fmt, k)
         /\ \A j \in 0 .. k : j # k => Packed!Offset(fmt, j) < Packed!Offset(fmt, k)
<1> DEFINE Grows(i) == /\ Packed!Offset(fmt, i) >= 8
                       /\ \A j \in 0 .. i : j # i => Packed!Offset(fmt, j) < Packed!Offset(fmt, i)
           T == {i \in Nat : i <= Len(fmt) => Grows(i)}
<1>0. Len(fmt) \in Nat
  OBVIOUS
<1>1. 0 \in T
  BY Offsets
<1>2. ASSUME NEW i \in Nat, i \in T PROVE i + 1 \in T
  <2> SUFFICES ASSUME i + 1 <= Len(fmt) PROVE Grows(i + 1)
    OBVIOUS
  <2>1. i + 1 \in 1 .. Len(fmt) /\ (i + 1) - 1 = i /\ i \in 0 .. Len(fmt) /\ i + 1 \in 0 .. Len(fmt)
    BY <1>0
  <2>2. fmt[i + 1] \in Packed!Letter
    BY <2>1, ElementOfSeq
  <2>3. /\ Packed!Offset(fmt, i + 1) = Packed!Offset(fmt, i) + Packed!Width[fmt[i + 1]]
        /\ Packed!Offset(fmt, i) \in Nat /\ Packed!Offset(fmt, i + 1) \in Nat
    BY <2>1, Offsets
  <2>4. Packed!Offset(fmt, i) < Packed!Offset(fmt, i + 1)
    BY <2>2, <2>3, Widths
  <2>5. Grows(i)
    BY <1>2, <2>1
  <2>6. ASSUME NEW j \in 0 .. i + 1, j # i + 1 PROVE Packed!Offset(fmt, j) < Packed!Offset(fmt, i + 1)
    <3>1. j \in 0 .. i /\ j \in 0 .. Len(fmt)
      BY <2>1, <2>6
    <3>2. Packed!Offset(fmt, j) \in Nat
      BY <3>1, Offsets
    <3> QED BY <3>1, <3>2, <2>3, <2>4, <2>5
  <2> QED BY <2>3, <2>4, <2>5, <2>6
<1> HIDE DEF T
<1>3. Nat \subseteq T
  BY <1>1, <1>2, SetInduction
<1>4. Grows(k)
  BY <1>0, <1>3 DEF T
<1>5. \A j \in 0 .. k : Packed!Offset(fmt, j) \in Nat
  BY <1>0, Offsets
<1> QED BY <1>4, <1>5

(* The bytes of the arguments of a call: an argument and the number of its byte. *)
BytesOf(fmt, values) == {values[i] : i \in 1 .. Len(fmt)} \X Nat

(* The bytes that are copied, argument by argument. *)
LEMMA Copies ==
  ASSUME NEW fmt \in Seq(Packed!Letter), NEW values
  PROVE  /\ Packed!Copied(fmt, values, 0) = <<>>
         /\ \A k \in 1 .. Len(fmt) :
              Packed!Copied(fmt, values, k)
                = Packed!Copied(fmt, values, k - 1) \o Packed!Bytes(values[k], fmt[k])
         /\ \A k \in 0 .. Len(fmt) :
              Packed!Copied(fmt, values, k) \in Seq(BytesOf(fmt, values))
<1> DEFINE S == Seq(BytesOf(fmt, values))
           bytes == [i \in Nat |-> IF i + 1 \in 1 .. Len(fmt)
                                   THEN Packed!Bytes(values[i + 1], fmt[i + 1]) ELSE <<>>]
           step == [p \in Nat \X S |-> p[2] \o bytes[p[1]]]
<1>0. Len(fmt) \in Nat /\ \A k \in 1 .. Len(fmt) : fmt[k] \in Packed!Letter
  BY ElementOfSeq
<1>1. ASSUME NEW k \in 1 .. Len(fmt) PROVE Packed!Bytes(values[k], fmt[k]) \in S
  <2>1. Packed!Width[fmt[k]] \in Nat
    BY <1>0, Widths
  <2>2. \A b \in 1 .. Packed!Width[fmt[k]] : <<values[k], b>> \in BytesOf(fmt, values)
    BY <2>1 DEF BytesOf
  <2> QED BY <2>1, <2>2 DEF Packed!Bytes
<1>2. \A i \in Nat : bytes[i] \in S
  <2>1. <<>> \in S
    OBVIOUS
  <2> HIDE DEF S
  <2> QED BY <1>1, <2>1
<1>3. PICK f \in [Nat -> S] : f[0] = <<>> /\ \A i \in Nat : f[i + 1] = step[<<i, f[i]>>]
  <2> HIDE DEF bytes
  <2>0. \A s, t \in S : s \o t \in S
    BY ConcatProperties
  <2>2. <<>> \in S
    OBVIOUS
  <2> HIDE DEF S
  <2>1. step \in [Nat \X S -> S]
    BY <1>2, <2>0
  <2> HIDE DEF step, S
  <2>3. \E f \in [Nat -> S] : Iterates(f, <<>>, step)
    BY <2>1, <2>2, RunExists
  <2> QED BY <2>3 DEF Iterates
<1> HIDE DEF S
<1>4. ASSUME NEW k \in 1 .. Len(fmt)
      PROVE  f[k] = f[k - 1] \o Packed!Bytes(values[k], fmt[k])
  <2>1. k - 1 \in Nat /\ (k - 1) + 1 = k
    OBVIOUS
  <2>2. bytes[k - 1] = Packed!Bytes(values[k], fmt[k])
    BY <2>1
  <2> HIDE DEF bytes
  <2> QED BY <2>1, <2>2, <1>3
<1> HIDE DEF bytes, step
<1>5. ASSUME NEW k \in 0 .. Len(fmt) PROVE Packed!Copied(fmt, values, k) = f[k]
  <2> DEFINE IsData(g) == g = [i \in 0 .. k |-> IF i = 0 THEN <<>>
                                   ELSE g[i - 1] \o Packed!Bytes(values[i], fmt[i])]
             data == CHOOSE g : IsData(g)
             T == {i \in Nat : i <= k => data[i] = f[i]}
  <2>1. Packed!Copied(fmt, values, k) = data[k]
    BY DEF Packed!Copied
  <2>2. \E g : IsData(g)
    <3> DEFINE g == [i \in 0 .. k |-> f[i]]
    <3>1. ASSUME NEW i \in 0 .. k, i # 0
          PROVE  g[i] = g[i - 1] \o Packed!Bytes(values[i], fmt[i])
      <4>1. i - 1 \in 0 .. k /\ i \in 1 .. Len(fmt)
        BY <3>1
      <4> QED BY <4>1, <1>4
    <3>2. IsData(g)
      BY <3>1, <1>3
    <3> QED BY <3>2
  <2>3. IsData(data)
    BY <2>2
  <2> HIDE DEF data
  <2>4. data[0] = <<>> /\ \A i \in 1 .. k : data[i] = data[i - 1] \o Packed!Bytes(values[i], fmt[i])
    <3>1. 0 \in 0 .. k /\ \A i \in 1 .. k : i \in 0 .. k /\ i # 0
      OBVIOUS
    <3> QED BY <3>1, <2>3
  <2>5. 0 \in T
    BY <2>4, <1>3
  <2>6. ASSUME NEW i \in Nat, i \in T PROVE i + 1 \in T
    <3> SUFFICES ASSUME i + 1 <= k PROVE data[i + 1] = f[i + 1]
      OBVIOUS
    <3>1. i + 1 \in 1 .. k /\ i + 1 \in 1 .. Len(fmt) /\ (i + 1) - 1 = i /\ data[i] = f[i]
      BY <2>6
    <3>2. data[i + 1] = data[i] \o Packed!Bytes(values[i + 1], fmt[i + 1])
      BY <3>1, <2>4
    <3>3. f[i + 1] = f[i] \o Packed!Bytes(values[i + 1], fmt[i + 1])
      BY <3>1, <1>4
    <3> QED BY <3>1, <3>2, <3>3
  <2> HIDE DEF T
  <2>7. Nat \subseteq T
    BY <2>5, <2>6, SetInduction
  <2> QED BY <2>1, <2>7 DEF T
<1>6. \A k \in 1 .. Len(fmt) : k \in 0 .. Len(fmt) /\ k - 1 \in 0 .. Len(fmt)
  BY <1>0
<1>7. 0 \in 0 .. Len(fmt) /\ \A k \in 0 .. Len(fmt) : f[k] \in S
  BY <1>0
<1>8. \A k \in 1 .. Len(fmt) : Packed!Copied(fmt, values, k)
                = Packed!Copied(fmt, values, k - 1) \o Packed!Bytes(values[k], fmt[k])
  BY <1>4, <1>5, <1>6
<1> QED BY <1>3, <1>5, <1>7, <1>8 DEF S

(* Where an argument is found: behind those before it. *)
LEMMA PackedBytes ==
  ASSUME NEW fmt \in Seq(Packed!Letter), NEW values, NEW k \in 0 .. Len(fmt)
  PROVE  LET data == Packed!Copied(fmt, values, k)
         IN /\ Len(data) = Packed!Offset(fmt, k) - 8
            /\ \A j \in 1 .. k, b \in Nat :
                 b \in 1 .. Packed!Width[fmt[j]] => data[Packed!Offset(fmt, j - 1) - 8 + b] = <<values[j], b>>
<1> DEFINE data(i) == Packed!Copied(fmt, values, i)
           at(i) == Packed!Offset(fmt, i) - 8
           Holds(i) == /\ Len(data(i)) = at(i)
                       /\ \A j \in 1 .. i, b \in Nat : b \in 1 .. Packed!Width[fmt[j]] =>
                            data(i)[at(j - 1) + b] = <<values[j], b>>
           T == {i \in Nat : i <= Len(fmt) => Holds(i)}
           V == BytesOf(fmt, values)
<1>0. Len(fmt) \in Nat /\ \A j \in 1 .. Len(fmt) : fmt[j] \in Packed!Letter
  BY ElementOfSeq
<1>1. 0 \in T
  <2>1. Packed!Copied(fmt, values, 0) = <<>> /\ Packed!Offset(fmt, 0) = 8
    BY Copies, Offsets
  <2> QED BY <2>1
<1>2. ASSUME NEW i \in Nat, i \in T PROVE i + 1 \in T
  <2> SUFFICES ASSUME i + 1 <= Len(fmt) PROVE Holds(i + 1)
    OBVIOUS
  <2> DEFINE w == Packed!Width[fmt[i + 1]]
             more == Packed!Bytes(values[i + 1], fmt[i + 1])
  <2>1. i + 1 \in 1 .. Len(fmt) /\ (i + 1) - 1 = i /\ i \in 0 .. Len(fmt) /\ i + 1 \in 0 .. Len(fmt)
    BY <1>0
  <2>2. w \in Nat /\ w > 0
    BY <1>0, <2>1, Widths
  <2>3. data(i + 1) = data(i) \o more /\ data(i) \in Seq(V)
    <3>1. data(i) \in Seq(V)
      BY <2>1, Copies
    <3>2. Packed!Copied(fmt, values, i + 1) = Packed!Copied(fmt, values, (i + 1) - 1) \o more
      BY ONLY <2>1, Copies, fmt \in Seq(Packed!Letter)
    <3> QED BY <3>1, <3>2, <2>1
  <2>4. at(i + 1) = at(i) + w /\ at(i) \in Nat /\ at(i + 1) \in Nat
    <3>1. Packed!Offset(fmt, i + 1) = Packed!Offset(fmt, (i + 1) - 1) + w
      BY <2>1, Offsets
    <3>2. Packed!Offset(fmt, i) >= 8 /\ Packed!Offset(fmt, i) \in Nat
      BY <2>1, Offsets, OffsetsGrow
    <3> QED BY <3>1, <3>2, <2>1, <2>2
  <2>5. Holds(i)
    BY <1>2, <2>1
  <2>6. more \in Seq(V) /\ Len(more) = w /\ \A b \in 1 .. w : more[b] = <<values[i + 1], b>>
    <3>1. \A b \in 1 .. w : <<values[i + 1], b>> \in V
      BY <2>1, <2>2 DEF BytesOf
    <3>2. more = [b \in 1 .. w |-> <<values[i + 1], b>>]
      BY DEF Packed!Bytes
    <3> HIDE DEF V, w, more
    <3> QED BY <2>2, <3>1, <3>2
  <2>7. ASSUME NEW j \in 1 .. i
        PROVE  at(j - 1) \in Nat /\ Packed!Width[fmt[j]] \in Nat /\ at(j - 1) + Packed!Width[fmt[j]] <= at(i)
    <3>1. j \in 1 .. Len(fmt) /\ j \in 0 .. i /\ j - 1 \in 0 .. Len(fmt) /\ j \in 0 .. Len(fmt)
      BY <2>1
    <3>2. /\ Packed!Offset(fmt, j) <= Packed!Offset(fmt, i) /\ Packed!Offset(fmt, j - 1) >= 8
          /\ Packed!Offset(fmt, i) >= 8
      BY <2>1, <3>1, OffsetsGrow
    <3>3. /\ Packed!Offset(fmt, j) = Packed!Offset(fmt, j - 1) + Packed!Width[fmt[j]]
          /\ Packed!Offset(fmt, j - 1) \in Nat /\ Packed!Offset(fmt, i) \in Nat /\ Packed!Offset(fmt, j) \in Nat
      BY <2>1, <3>1, Offsets
    <3>4. Packed!Width[fmt[j]] \in Nat
      BY <1>0, <3>1, Widths
    <3> QED BY <3>2, <3>3, <3>4
  <2> HIDE DEF V, data, at, more
  <2>8. /\ Len(data(i) \o more) = Len(data(i)) + Len(more)
        /\ \A p \in 1 .. Len(data(i)) : (data(i) \o more)[p] = data(i)[p]
        /\ \A p \in 1 .. Len(more) : (data(i) \o more)[Len(data(i)) + p] = more[p]
    <3>1. \A s, t \in Seq(V) : /\ Len(s \o t) = Len(s) + Len(t)
                               /\ \A p \in 1 .. Len(s) : (s \o t)[p] = s[p]
                               /\ \A p \in 1 .. Len(t) : (s \o t)[Len(s) + p] = t[p]
      BY ONLY TRUE
    <3> QED BY <2>3, <2>6, <3>1
  <2>9. Len(data(i + 1)) = at(i + 1)
    BY <2>2, <2>3, <2>4, <2>5, <2>6, <2>8
  <2>10. ASSUME NEW j \in 1 .. i + 1, NEW b \in Nat, b \in 1 .. Packed!Width[fmt[j]]
         PROVE  data(i + 1)[at(j - 1) + b] = <<values[j], b>>
    <3>1. CASE j = i + 1
      <4>1. j - 1 = i /\ b \in 1 .. Len(more)
        BY <3>1, <2>6, <2>10
      <4>2. (data(i) \o more)[Len(data(i)) + b] = more[b] /\ more[b] = <<values[i + 1], b>>
        BY <4>1, <2>6, <2>8
      <4> QED BY <3>1, <4>1, <4>2, <2>3, <2>5
    <3>2. CASE j # i + 1
      <4>1. j \in 1 .. i
        BY <3>2
      <4>2. at(j - 1) + b \in 1 .. Len(data(i))
        <5>1. /\ at(j - 1) \in Nat /\ Packed!Width[fmt[j]] \in Nat
              /\ at(j - 1) + Packed!Width[fmt[j]] <= at(i)
          BY <4>1, <2>7
        <5>2. Len(data(i)) = at(i)
          BY <2>5
        <5> HIDE DEF Holds, w
        <5> QED BY <5>1, <5>2, <2>4, <2>10
      <4>3. data(i)[at(j - 1) + b] = <<values[j], b>>
        BY <4>1, <2>5, <2>10
      <4> QED BY <4>2, <4>3, <2>3, <2>8
    <3> QED BY <3>1, <3>2
  <2> QED BY <2>9, <2>10
<1> HIDE DEF T
<1>3. Nat \subseteq T
  BY <1>1, <1>2, SetInduction
<1>4. k \in T /\ k <= Len(fmt)
  BY <1>0, <1>3
<1>5. Holds(k)
  <2> HIDE DEF Holds
  <2> QED BY <1>4 DEF T
<1> QED BY <1>5

(* The loops get through a format of known letters, and stop at the first unknown. *)
LEMMA TakenIsAll ==
  ASSUME NEW fmt \in Seq(Packed!Letter)
  PROVE  /\ Packed!Taken(fmt) = Len(fmt)
         /\ Packed!Taken(Append(fmt, "unknown")) = Len(fmt)
<1> DEFINE longer == Append(fmt, "unknown")
           Stops(f, n) == /\ \A k \in 1 .. n : f[k] \in Packed!Letter
                          /\ n < Len(f) => f[n + 1] \notin Packed!Letter
<1>1. Len(fmt) \in Nat /\ \A k \in 1 .. Len(fmt) : fmt[k] \in Packed!Letter
  BY ElementOfSeq
<1>2. /\ Len(longer) = Len(fmt) + 1 /\ longer[Len(fmt) + 1] = "unknown"
      /\ \A k \in 1 .. Len(fmt) : longer[k] = fmt[k]
  BY <1>1
<1>3. "unknown" \notin Packed!Letter
  BY DEF Packed!Letter
<1> HIDE DEF longer
<1>4. Packed!Taken(fmt) = Len(fmt)
  <2>1. \A n \in 0 .. Len(fmt) : Stops(fmt, n) <=> n = Len(fmt)
    BY <1>1
  <2>2. Packed!Taken(fmt) = CHOOSE n \in 0 .. Len(fmt) : Stops(fmt, n)
    BY DEF Packed!Taken
  <2> HIDE DEF Stops
  <2> QED BY <2>1, <2>2, <1>1
<1>5. Packed!Taken(longer) = Len(fmt)
  <2>1. \A n \in 0 .. Len(longer) : Stops(longer, n) <=> n = Len(fmt)
    BY <1>1, <1>2, <1>3
  <2>2. Packed!Taken(longer) = CHOOSE n \in 0 .. Len(longer) : Stops(longer, n)
    BY DEF Packed!Taken
  <2> HIDE DEF Stops
  <2> QED BY <2>1, <2>2, <1>1, <1>2
<1> QED BY <1>4, <1>5 DEF longer

(* What is in a buffer where an argument was packed is that argument. *)
HoldsArgument(buffer, fmt, values, k) ==
  \A b \in 1 .. Packed!Width[fmt[k]] :
    buffer.data[Packed!Offset(fmt, k - 1) - Packed!Header + b] = <<values[k], b>>

LEMMA BytesArePacked ==
  ASSUME NEW fmt \in Seq(Packed!Letter), NEW buf, NEW size, NEW values, NEW k \in 1 .. Len(fmt)
  PROVE  HoldsArgument(Packed!pack(buf, size, fmt, values), fmt, values, k)
<1> DEFINE n == Len(fmt)
           data == Packed!Copied(fmt, values, n)
           from == Packed!Offset(fmt, k - 1) - Packed!Header
           w == Packed!Width[fmt[k]]
           packed == Packed!pack(buf, size, fmt, values).data
<1>1. n \in Nat /\ n \in 0 .. n /\ k \in 0 .. n /\ k - 1 \in 0 .. n /\ fmt[k] \in Packed!Letter
  BY ElementOfSeq
<1>2. w \in Nat
  BY <1>1, Widths
<1>3. data \in Seq(BytesOf(fmt, values))
  BY <1>1, Copies
<1>4. Len(data) = Packed!Offset(fmt, n) - 8 /\ \A b \in 1 .. w : data[from + b] = <<values[k], b>>
  <2>1. /\ Len(data) = Packed!Offset(fmt, n) - 8
        /\ \A j \in 1 .. n, b \in Nat : b \in 1 .. Packed!Width[fmt[j]] =>
             data[Packed!Offset(fmt, j - 1) - 8 + b] = <<values[j], b>>
    BY <1>1, PackedBytes
  <2> HIDE DEF data
  <2> QED BY <1>2, <2>1 DEF Packed!Header
<1>5. /\ Packed!Offset(fmt, k) = Packed!Offset(fmt, k - 1) + w
      /\ Packed!Offset(fmt, k - 1) \in Nat /\ Packed!Offset(fmt, k) \in Nat
      /\ Packed!Offset(fmt, n) \in Nat
  BY <1>1, Offsets
<1>6. Packed!Offset(fmt, k - 1) >= 8 /\ Packed!Offset(fmt, k) <= Packed!Offset(fmt, n)
  BY <1>1, OffsetsGrow
<1>7. from \in Nat /\ from + w <= Len(data) /\ Len(data) \in Nat
  <2>1. Len(data) = Packed!Offset(fmt, n) - 8
    BY <1>4
  <2> HIDE DEF data, w, n
  <2> QED BY <1>2, <1>5, <1>6, <2>1 DEF Packed!Header
<1>8. packed = Packed!Over(data, buf.data)
  BY TakenIsAll DEF Packed!pack
<1>9. DOMAIN data = 1 .. Len(data)
  BY <1>3
<1> HIDE DEF data, n, w, from, packed
<1>10. ASSUME NEW b \in 1 .. w PROVE packed[from + b] = <<values[k], b>>
  <2>1. from + b \in DOMAIN data
    BY <1>2, <1>7, <1>9
  <2>2. packed[from + b] = data[from + b]
    BY <1>8, <2>1 DEF Packed!Over
  <2> QED BY <1>4, <2>2
<1> QED BY <1>10 DEF w, from, packed, HoldsArgument

(* unpack succeeds when the lengths agree, and on nothing else. *)
LEMMA UnpackNeedsLength ==
  ASSUME NEW fmt \in Seq(Packed!Letter), NEW buf
  PROVE  Packed!UnpackSucceeds(buf, fmt) <=> buf.len = Packed!Offset(fmt, Len(fmt))
<1>1. Len(fmt) \in Nat /\ DOMAIN fmt = 1 .. Len(fmt)
  OBVIOUS
<1>2. ASSUME NEW k \in DOMAIN fmt
      PROVE  Packed!Offset(fmt, Len(fmt)) > Packed!Offset(fmt, k - 1)
  <2>1. Len(fmt) \in 0 .. Len(fmt) /\ k - 1 \in 0 .. Len(fmt) /\ k - 1 # Len(fmt)
    BY <1>1
  <2>2. Packed!Offset(fmt, k - 1) < Packed!Offset(fmt, Len(fmt))
    BY <2>1, OffsetsGrow
  <2>3. Packed!Offset(fmt, k - 1) \in Nat /\ Packed!Offset(fmt, Len(fmt)) \in Nat
    BY <2>1, Offsets
  <2> QED BY <2>2, <2>3
<1>3. Packed!Taken(fmt) = Len(fmt)
  BY TakenIsAll
<1> QED BY <1>2, <1>3 DEF Packed!UnpackSucceeds

(* Formats are sequences of letters. *)
LEMMA FormatsAreSequences ==
  ASSUME NEW fmt \in Packed!Formats
  PROVE  /\ fmt \in Seq(Packed!Letter) /\ Len(fmt) \in Nat /\ DOMAIN fmt = 1 .. Len(fmt)
         /\ 0 \in 0 .. Len(fmt) /\ Len(fmt) \in 0 .. Len(fmt)
         /\ \A k \in DOMAIN fmt : k \in 0 .. Len(fmt) /\ k - 1 \in 0 .. Len(fmt) /\ k # 0 /\ k \in Nat
<1>1. PICK n \in Nat : fmt \in [1 .. n -> Packed!Letter]
  <2>1. PICK fmts \in {[1 .. n -> Packed!Letter] : n \in 0 .. Packed!MaxItems} : fmt \in fmts
    BY DEF Packed!Formats
  <2>2. PICK n \in 0 .. Packed!MaxItems : fmts = [1 .. n -> Packed!Letter]
    BY <2>1
  <2>3. n \in Nat
    BY DEF Packed!MaxItems
  <2> QED BY <2>1, <2>2, <2>3
<1>2. fmt \in Seq(Packed!Letter) /\ Len(fmt) = n
  BY <1>1
<1> QED BY <1>1, <1>2

(* The offsets of a format's beginning are those of the format. *)
LEMMA OffsetsOfPrefix ==
  ASSUME NEW fmt \in Seq(Packed!Letter), NEW k \in 0 .. Len(fmt)
  PROVE  /\ SubSeq(fmt, 1, k) \in Seq(Packed!Letter) /\ Len(SubSeq(fmt, 1, k)) = k
         /\ \A m \in 0 .. k : Packed!Offset(SubSeq(fmt, 1, k), m) = Packed!Offset(fmt, m)
<1> DEFINE short == SubSeq(fmt, 1, k)
           T == {m \in Nat : m <= k => Packed!Offset(short, m) = Packed!Offset(fmt, m)}
<1>0. Len(fmt) \in Nat /\ k \in Nat /\ k <= Len(fmt)
  OBVIOUS
<1>1. short \in Seq(Packed!Letter) /\ Len(short) = k /\ \A m \in 1 .. k : short[m] = fmt[m]
  BY <1>0
<1> HIDE DEF short
<1>2. 0 \in T
  BY <1>1, Offsets
<1>3. ASSUME NEW m \in Nat, m \in T PROVE m + 1 \in T
  <2> SUFFICES ASSUME m + 1 <= k PROVE Packed!Offset(short, m + 1) = Packed!Offset(fmt, m + 1)
    OBVIOUS
  <2>1. m + 1 \in 1 .. k /\ m + 1 \in 1 .. Len(fmt) /\ (m + 1) - 1 = m /\ m + 1 \in 1 .. Len(short)
    BY <1>0, <1>1
  <2>2. Packed!Offset(short, m + 1) = Packed!Offset(short, (m + 1) - 1) + Packed!Width[short[m + 1]]
    BY <1>1, <2>1, Offsets
  <2>3. Packed!Offset(fmt, m + 1) = Packed!Offset(fmt, (m + 1) - 1) + Packed!Width[fmt[m + 1]]
    BY <2>1, Offsets
  <2>4. Packed!Offset(short, m) = Packed!Offset(fmt, m)
    BY <1>3, <2>1
  <2> QED BY <1>1, <2>1, <2>2, <2>3, <2>4
<1> HIDE DEF T
<1>4. Nat \subseteq T
  BY <1>2, <1>3, SetInduction
<1>5. \A m \in 0 .. k : Packed!Offset(short, m) = Packed!Offset(fmt, m)
  BY <1>0, <1>4 DEF T
<1> QED BY <1>1, <1>5 DEF short

(* What is packed, whatever the format, the values and the buffer it goes to, is
   unpacked by the same format, and every format of another total length fails an
   assertion of unpack (io.c). *)
THEOREM PackedArgsReturn ==
  ASSUME NEW fmt \in Seq(Packed!Letter), NEW buf, NEW size, NEW values
  PROVE  LET buffer == Packed!pack(buf, size, fmt, values)
         IN /\ Packed!UnpackSucceeds(buffer, fmt)
            /\ Packed!unpack(buffer, fmt) = [k \in DOMAIN fmt |-> Packed!Bytes(values[k], fmt[k])]
            /\ buffer.size = size
            /\ \A other \in Seq(Packed!Letter) :
                 Packed!UnpackSucceeds(buffer, other)
                   <=> Packed!Offset(other, Len(other)) = Packed!Offset(fmt, Len(fmt))
<1> DEFINE buffer == Packed!pack(buf, size, fmt, values)
<1>1. Packed!Taken(fmt) = Len(fmt) /\ DOMAIN fmt = 1 .. Len(fmt)
  BY TakenIsAll
<1>2. buffer.len = Packed!Offset(fmt, Len(fmt)) /\ buffer.size = size
  BY <1>1 DEF Packed!pack
<1>3. \A k \in 1 .. Len(fmt) :
        [b \in 1 .. Packed!Width[fmt[k]] |->
           buffer.data[Packed!Offset(fmt, k - 1) - Packed!Header + b]]
          = Packed!Bytes(values[k], fmt[k])
  <2> TAKE k \in 1 .. Len(fmt)
  <2>1. HoldsArgument(buffer, fmt, values, k)
    BY BytesArePacked
  <2> HIDE DEF buffer
  <2> QED BY <2>1 DEF Packed!Bytes, HoldsArgument
<1> HIDE DEF buffer
<1>4. Packed!unpack(buffer, fmt) = [k \in DOMAIN fmt |-> Packed!Bytes(values[k], fmt[k])]
  BY <1>1, <1>3 DEF Packed!unpack
<1> QED BY <1>2, <1>4, UnpackNeedsLength DEF buffer

(* What pack wrote for a format, unpack of that format reads. *)
LEMMA PackedIsUnpacked == Packed!RoundTrip
<1> SUFFICES ASSUME NEW buf \in Packed!Used, NEW fmt \in Packed!Formats,
                    NEW size \in Packed!BufferSizes, Packed!PackSucceeds(size, fmt)
             PROVE  /\ Packed!UnpackSucceeds(Packed!Numbered(buf, size, fmt), fmt)
                    /\ Packed!unpack(Packed!Numbered(buf, size, fmt), fmt)
                         = [k \in DOMAIN fmt |-> Packed!Bytes(k, fmt[k])]
                    /\ \A k \in DOMAIN fmt :
                         Packed!PackSucceeds(Packed!Numbered(buf, size, fmt).size,
                                             SubSeq(fmt, 1, k))
  BY DEF Packed!RoundTrip
<1> DEFINE values == [k \in DOMAIN fmt |-> k]
           buffer == Packed!pack(buf, size, fmt, values)
<1>1. Packed!Numbered(buf, size, fmt) = buffer
  BY DEF Packed!Numbered
<1>2. /\ fmt \in Seq(Packed!Letter) /\ DOMAIN fmt = 1 .. Len(fmt)
      /\ \A k \in DOMAIN fmt : k \in 0 .. Len(fmt)
  BY FormatsAreSequences
<1>3. \A k \in DOMAIN fmt : values[k] = k
  OBVIOUS
<1> HIDE DEF values
<1>4. /\ Packed!UnpackSucceeds(buffer, fmt) /\ buffer.size = size
      /\ Packed!unpack(buffer, fmt) = [k \in DOMAIN fmt |-> Packed!Bytes(values[k], fmt[k])]
  BY <1>2, PackedArgsReturn
<1> HIDE DEF buffer
<1>5. Packed!unpack(buffer, fmt) = [k \in DOMAIN fmt |-> Packed!Bytes(k, fmt[k])]
  BY <1>3, <1>4
<1>6. ASSUME NEW k \in DOMAIN fmt PROVE Packed!PackSucceeds(buffer.size, SubSeq(fmt, 1, k))
  <2>1. /\ SubSeq(fmt, 1, k) \in Seq(Packed!Letter) /\ Len(SubSeq(fmt, 1, k)) = k
        /\ \A m \in 0 .. k : Packed!Offset(SubSeq(fmt, 1, k), m) = Packed!Offset(fmt, m)
    BY <1>2, OffsetsOfPrefix
  <2>2. Packed!Taken(SubSeq(fmt, 1, k)) = k /\ Packed!Taken(fmt) = Len(fmt)
    BY <1>2, <2>1, TakenIsAll
  <2>3. k \in Nat /\ k <= Len(fmt) /\ Len(fmt) \in Nat
    BY <1>2
  <2>4. ASSUME NEW m \in 1 .. k PROVE size >= Packed!Offset(SubSeq(fmt, 1, k), m - 1)
    <3>1. m - 1 \in 0 .. k /\ m \in 1 .. Len(fmt)
      BY <2>3
    <3>2. size >= Packed!Offset(fmt, m - 1)
      BY <2>2, <3>1 DEF Packed!PackSucceeds
    <3> QED BY <2>1, <3>1, <3>2
  <2>5. size >= Packed!Header
    BY DEF Packed!PackSucceeds
  <2> QED BY <1>4, <2>2, <2>4, <2>5 DEF Packed!PackSucceeds
<1> QED BY <1>1, <1>4, <1>5, <1>6

(* unpack notices a buffer of another length than its own. *)
LEMMA OtherLengthsAreNoticed == Packed!LengthNoticed
<1> SUFFICES ASSUME NEW fmt \in Packed!Formats, NEW other \in Packed!Formats
             PROVE  Packed!UnpackSucceeds(Packed!Numbered(Packed!Zeroed, 0, fmt), other)
                      <=> Packed!Offset(other, Len(other)) = Packed!Offset(fmt, Len(fmt))
  BY DEF Packed!LengthNoticed
<1>1. fmt \in Seq(Packed!Letter) /\ other \in Seq(Packed!Letter)
  BY FormatsAreSequences
<1> QED BY <1>1, PackedArgsReturn DEF Packed!Numbered

(* The header of a new buffer stays zero if pack stops: nothing is that short. *)
LEMMA RefusalsAreNoticed == Packed!RefusalNoticed
<1> SUFFICES ASSUME NEW fmt \in Packed!Formats, NEW other \in Packed!Formats
             PROVE  ~Packed!UnpackSucceeds(
                       Packed!Numbered(Packed!Zeroed, 0, Append(fmt, "unknown")), other)
  BY DEF Packed!RefusalNoticed
<1> DEFINE buffer == Packed!Numbered(Packed!Zeroed, 0, Append(fmt, "unknown"))
<1>1. fmt \in Seq(Packed!Letter) /\ other \in Seq(Packed!Letter) /\ Len(fmt) \in Nat
  BY FormatsAreSequences
<1>2. Packed!Taken(Append(fmt, "unknown")) = Len(fmt)
  BY <1>1, TakenIsAll
<1>3. Len(Append(fmt, "unknown")) = Len(fmt) + 1
  BY <1>1
<1>4. Packed!Taken(Append(fmt, "unknown")) # Len(Append(fmt, "unknown"))
  BY <1>1, <1>2, <1>3
<1>5. buffer.len = 0
  BY <1>4 DEF Packed!Numbered, Packed!pack, Packed!Zeroed
<1> HIDE DEF buffer
<1>6. Packed!Offset(other, Len(other)) >= 8 /\ Packed!Offset(other, Len(other)) \in Nat
  <2>1. Len(other) \in 0 .. Len(other)
    BY <1>1
  <2> QED BY <1>1, <2>1, Offsets, OffsetsGrow
<1>7. Packed!UnpackSucceeds(buffer, other) <=> buffer.len = Packed!Offset(other, Len(other))
  BY <1>1, UnpackNeedsLength
<1>8. ~Packed!UnpackSucceeds(buffer, other)
  BY <1>5, <1>6, <1>7
<1> QED BY <1>8 DEF buffer

(* So buffers are what the calls rely on. *)
LEMMA BuffersOK == PackOK
BY PackedIsUnpacked, OtherLengthsAreNoticed, RefusalsAreNoticed DEF PackOK

(***************************************************************************)
(* The strings.                                                            *)
(***************************************************************************)
(* What a byte of a block can be. *)
Byte == Other \cup {Text!NUL, Text!Garbage}

(* A string: its block, its length and its capacity. *)
StringRecord == [block : Seq(Byte), len : Nat, cap : Nat]

(* s holds t: its characters and then a NUL. *)
StringIs(s, t) ==
  /\ s \in StringRecord
  /\ s.block \in Seq(Byte) /\ s.cap \in Nat /\ t \in Seq(Other) /\ s.len = Len(t)
  /\ s.cap <= Len(s.block) /\ (s.len < s.cap \/ s.len = 0)
  /\ \A i \in 1 .. s.len : s.block[i] = t[i]
  /\ s.cap > 0 => s.block[s.len + 1] = Text!NUL

(* realloc keeps what fits. *)
LEMMA Reallocates ==
  ASSUME NEW block \in Seq(Byte), NEW size \in Nat
  PROVE  LET new == Text!realloc(block, size)
         IN /\ new \in Seq(Byte) /\ Len(new) = size
            /\ \A i \in 1 .. size : i <= Len(block) => new[i] = block[i]
<1> DEFINE new == Text!realloc(block, size)
<1>1. new = [i \in 1 .. size |-> IF i \in DOMAIN block THEN block[i] ELSE Text!Garbage]
  BY DEF Text!realloc
<1>2. DOMAIN block = 1 .. Len(block) /\ Len(block) \in Nat /\ \A i \in 1 .. Len(block) : block[i] \in Byte
  BY LenProperties, ElementOfSeq
<1>3. Text!Garbage \in Byte
  BY DEF Byte
<1>4. \A i \in 1 .. size : new[i] \in Byte
  BY <1>1, <1>2, <1>3
<1> HIDE DEF new
<1>5. new \in Seq(Byte) /\ Len(new) = size
  BY <1>1, <1>4
<1>6. \A i \in 1 .. size : i <= Len(block) => new[i] = block[i]
  BY <1>1, <1>2
<1> QED BY <1>5, <1>6 DEF new

(* memcpy changes what it covers and nothing else. *)
LEMMA Overwrites ==
  ASSUME NEW block \in Seq(Byte), NEW at \in Nat, NEW bytes \in Seq(Byte)
  PROVE  LET new == Text!memcpy(block, at, bytes)
         IN /\ new \in Seq(Byte) /\ Len(new) = Len(block)
            /\ \A i \in 1 .. Len(block) :
                 new[i] = IF at < i /\ i <= at + Len(bytes) THEN bytes[i - at] ELSE block[i]
<1> DEFINE new == Text!memcpy(block, at, bytes)
<1>1. new = [i \in DOMAIN block |-> IF i \in at + 1 .. at + Len(bytes) THEN bytes[i - at]
                                    ELSE block[i]]
  BY DEF Text!memcpy
<1>2. DOMAIN block = 1 .. Len(block) /\ Len(block) \in Nat /\ \A i \in 1 .. Len(block) : block[i] \in Byte
  BY LenProperties, ElementOfSeq
<1>3. Len(bytes) \in Nat /\ \A i \in 1 .. Len(bytes) : bytes[i] \in Byte
  BY LenProperties, ElementOfSeq
<1>4. ASSUME NEW i \in 1 .. Len(block)
      PROVE  /\ new[i] = IF at < i /\ i <= at + Len(bytes) THEN bytes[i - at] ELSE block[i]
             /\ new[i] \in Byte
  <2>1. CASE i \in at + 1 .. at + Len(bytes)
    <3>1. i - at \in 1 .. Len(bytes) /\ at < i /\ i <= at + Len(bytes)
      BY <2>1, <1>2, <1>3
    <3>2. new[i] = bytes[i - at]
      BY <2>1, <1>1, <1>2
    <3> QED BY <3>1, <3>2, <1>3
  <2>2. CASE i \notin at + 1 .. at + Len(bytes)
    <3>1. ~(at < i /\ i <= at + Len(bytes))
      BY <2>2, <1>2, <1>3
    <3>2. new[i] = block[i]
      BY <2>2, <1>1, <1>2
    <3> QED BY <3>1, <3>2, <1>2
  <2> QED BY <2>1, <2>2
<1>5. new \in Seq(Byte) /\ Len(new) = Len(block)
  <2> HIDE DEF new
  <2> QED BY <1>1, <1>2, <1>4
<1> QED BY <1>4, <1>5

(* A capacity that grows gets past what is needed. *)
LEMMA CapacityGrows ==
  ASSUME NEW cap_ \in Nat, NEW least \in Nat
  PROVE  LET new == Text!Grown(cap_, least) IN new \in Nat /\ new > least /\ new >= cap_
<1> DEFINE Round(c) == IF least >= c THEN c * 2 + Extra ELSE c
           step == [p \in Nat \X Nat |-> Round(p[2])]
           IsCap(g) == g = [i \in 0 .. least + 1 |-> IF i = 0 THEN cap_
                              ELSE IF least >= g[i - 1] THEN g[i - 1] * 2 + Extra ELSE g[i - 1]]
           new_cap == CHOOSE g : IsCap(g)
           Good(i) == /\ new_cap[i] \in Nat /\ new_cap[i] >= cap_
                      /\ new_cap[i] > least \/ new_cap[i] >= i
           T == {i \in Nat : i <= least + 1 => Good(i)}
<1>0. Extra \in Nat /\ Extra > 0
  BY PartsAssumption DEF Text!StringsAssumption
<1>1. Text!Grown(cap_, least) = new_cap[least + 1]
  BY DEF Text!Grown
<1>2. \A c \in Nat : Round(c) \in Nat /\ Round(c) >= c /\ (least >= c => Round(c) >= c + 1)
  BY <1>0
<1>3. PICK f \in [Nat -> Nat] : f[0] = cap_ /\ \A i \in Nat : f[i + 1] = step[<<i, f[i]>>]
  <2> HIDE DEF Round
  <2>1. step \in [Nat \X Nat -> Nat]
    BY <1>2
  <2> HIDE DEF step
  <2>2. \E f \in [Nat -> Nat] : Iterates(f, cap_, step)
    BY <2>1, RunExists
  <2> QED BY <2>2 DEF Iterates
<1>4. ASSUME NEW i \in Nat PROVE f[i + 1] = Round(f[i])
  <2> HIDE DEF Round
  <2> QED BY <1>3
<1> HIDE DEF step
<1>5. \E g : IsCap(g)
  <2> DEFINE g == [i \in 0 .. least + 1 |-> f[i]]
  <2>1. ASSUME NEW i \in 0 .. least + 1, i # 0 PROVE g[i] = Round(g[i - 1])
    <3>1. i - 1 \in Nat /\ (i - 1) + 1 = i /\ i - 1 \in 0 .. least + 1
      BY <2>1
    <3> HIDE DEF Round
    <3> QED BY <3>1, <1>4
  <2>2. IsCap(g)
    BY <2>1, <1>3
  <2> QED BY <2>2
<1>6. IsCap(new_cap)
  BY <1>5
<1> HIDE DEF new_cap
<1>7. new_cap[0] = cap_ /\ \A i \in 1 .. least + 1 : new_cap[i] = Round(new_cap[i - 1])
  <2>1. 0 \in 0 .. least + 1 /\ \A i \in 1 .. least + 1 : i \in 0 .. least + 1 /\ i # 0
    OBVIOUS
  <2> QED BY <2>1, <1>6
<1>8. 0 \in T
  BY <1>7
<1>9. ASSUME NEW i \in Nat, i \in T PROVE i + 1 \in T
  <2> SUFFICES ASSUME i + 1 <= least + 1 PROVE Good(i + 1)
    OBVIOUS
  <2>1. i + 1 \in 1 .. least + 1 /\ (i + 1) - 1 = i
    OBVIOUS
  <2>2. Good(i) /\ new_cap[i + 1] = Round(new_cap[i])
    BY <2>1, <1>7, <1>9
  <2>3. /\ Round(new_cap[i]) \in Nat /\ Round(new_cap[i]) >= new_cap[i]
        /\ least >= new_cap[i] => Round(new_cap[i]) >= new_cap[i] + 1
    BY <1>2, <2>2
  <2> HIDE DEF Round
  <2> QED BY <2>2, <2>3
<1> HIDE DEF T
<1>10. Nat \subseteq T
  BY <1>8, <1>9, SetInduction
<1>11. Good(least + 1)
  <2> HIDE DEF Good
  <2> QED BY <1>10 DEF T
<1> QED BY <1>1, <1>11

(* More capacity: what was held stays. *)
LEMMA GrownHolds ==
  ASSUME NEW s, NEW t, StringIs(s, t), NEW new \in Nat, new >= s.cap, new > s.len
  PROVE  LET g == Text!GrownTo(s, new)
         IN /\ g \in StringRecord
            /\ g.block \in Seq(Byte) /\ g.len = s.len /\ g.cap = new /\ new <= Len(g.block)
            /\ \A i \in 1 .. s.len : g.block[i] = t[i]
<1> DEFINE g == Text!GrownTo(s, new)
<1>1. /\ s \in StringRecord
      /\ s.block \in Seq(Byte) /\ s.cap \in Nat /\ s.len \in Nat
      /\ s.cap <= Len(s.block) /\ (s.len < s.cap \/ s.len = 0)
      /\ \A i \in 1 .. s.len : s.block[i] = t[i]
  BY LenProperties DEF StringIs
<1>2. CASE new = s.cap
  <2>1. g = s
    BY <1>2 DEF Text!GrownTo
  <2> QED BY <1>1, <1>2, <2>1
<1>3. CASE new # s.cap
  <2> DEFINE b == Text!realloc(s.block, new)
  <2>1. g = [s EXCEPT !.block = b, !.cap = new]
    BY <1>1, <1>3 DEF Text!GrownTo
  <2>2. /\ b \in Seq(Byte) /\ Len(b) = new
        /\ \A i \in 1 .. new : i <= Len(s.block) => b[i] = s.block[i]
    BY <1>1, Reallocates
  <2> HIDE DEF b
  <2>3. g.block = b /\ g.len = s.len /\ g.cap = new /\ g \in StringRecord
    BY <1>1, <2>1, <2>2 DEF StringRecord
  <2> HIDE DEF g
  <2>4. ASSUME NEW i \in 1 .. s.len PROVE g.block[i] = t[i]
    <3>1. i \in 1 .. new /\ i <= Len(s.block)
      BY <1>1
    <3> QED BY <3>1, <1>1, <2>2, <2>3
  <2>5. new <= Len(g.block)
    BY <2>2, <2>3
  <2> QED BY <2>2, <2>3, <2>4, <2>5 DEF g
<1> QED BY <1>2, <1>3

(* More characters behind those there are, in enough capacity. *)
LEMMA ConcatHolds ==
  ASSUME NEW s, NEW t, StringIs(s, t), NEW w \in Seq(Other), NEW new \in Nat,
         new >= s.cap, new > s.len + Len(w)
  PROVE  StringIs(Text!Extended(s, w, new), t \o w)
<1> DEFINE g == Text!GrownTo(s, new)
           bytes == Append(w, Text!NUL)
           b == Text!memcpy(g.block, s.len, bytes)
           e == Text!Extended(s, w, new)
<1>1. /\ s.len \in Nat /\ t \in Seq(Other) /\ s.len = Len(t)
  BY LenProperties DEF StringIs
<1>2. Len(w) \in Nat /\ \A i \in 1 .. Len(w) : w[i] \in Other
  BY LenProperties, ElementOfSeq
<1>3. /\ g \in StringRecord
      /\ g.block \in Seq(Byte) /\ g.len = s.len /\ g.cap = new /\ new <= Len(g.block)
      /\ \A i \in 1 .. s.len : g.block[i] = t[i]
  BY <1>1, <1>2, GrownHolds
<1>4. /\ bytes \in Seq(Byte) /\ Len(bytes) = Len(w) + 1 /\ bytes[Len(w) + 1] = Text!NUL
      /\ \A i \in 1 .. Len(w) : bytes[i] = w[i]
  <2>1. w \in Seq(Byte) /\ Text!NUL \in Byte
    BY <1>2 DEF Byte
  <2> QED BY <2>1, AppendProperties
<1>5. e = [g EXCEPT !.block = Text!memcpy(@, s.len, bytes), !.len = @ + Len(w)]
  BY DEF Text!Extended
<1> HIDE DEF g, bytes
<1>6. /\ b \in Seq(Byte) /\ Len(b) = Len(g.block)
      /\ \A i \in 1 .. Len(g.block) :
           b[i] = IF s.len < i /\ i <= s.len + Len(bytes) THEN bytes[i - s.len] ELSE g.block[i]
  BY <1>1, <1>3, <1>4, Overwrites
<1> HIDE DEF b
<1>7. e.block = b /\ e.len = s.len + Len(w) /\ e.cap = new
      /\ e \in StringRecord
  <2>1. e = [g EXCEPT !.block = b, !.len = s.len + Len(w)]
    BY <1>3, <1>5 DEF b, StringRecord
  <2>2. s.len + Len(w) \in Nat
    BY <1>1, <1>2
  <2> HIDE DEF e
  <2> QED BY <1>3, <1>6, <2>1, <2>2 DEF StringRecord
<1> HIDE DEF e
<1>8. /\ t \o w \in Seq(Other) /\ Len(t \o w) = s.len + Len(w)
      /\ \A i \in 1 .. s.len + Len(w) : (t \o w)[i] = IF i <= s.len THEN t[i] ELSE w[i - s.len]
  BY <1>1, ConcatProperties
<1>9. Len(g.block) \in Nat
  BY <1>3, LenProperties
<1>10. ASSUME NEW i \in 1 .. s.len + Len(w) PROVE b[i] = (t \o w)[i]
  <2>1. i \in 1 .. Len(g.block) /\ i <= s.len + Len(bytes)
    BY <1>1, <1>2, <1>3, <1>4, <1>9
  <2>2. CASE i <= s.len
    <3>1. i \in 1 .. s.len /\ ~(s.len < i)
      BY <2>2, <1>1
    <3> QED BY <2>1, <3>1, <1>3, <1>6, <1>8
  <2>3. CASE ~(i <= s.len)
    <3>1. i - s.len \in 1 .. Len(w) /\ s.len < i
      BY <2>3, <1>1, <1>2
    <3>2. b[i] = bytes[i - s.len]
      BY <2>1, <3>1, <1>6
    <3> QED BY <2>3, <3>1, <3>2, <1>4, <1>8
  <2> QED BY <2>2, <2>3
<1>11. b[s.len + Len(w) + 1] = Text!NUL
  <2> DEFINE p == s.len + Len(w) + 1
  <2>1. p \in 1 .. Len(g.block) /\ s.len < p /\ p <= s.len + Len(bytes) /\ p - s.len = Len(w) + 1
    BY <1>1, <1>2, <1>3, <1>4, <1>9
  <2> HIDE DEF p
  <2>2. b[p] = bytes[Len(w) + 1]
    BY <2>1, <1>6
  <2> QED BY <2>2, <1>4 DEF p
<1>12. StringIs(e, t \o w)
  <2>1. e.len = Len(t \o w) /\ e.len < e.cap /\ e.cap <= Len(e.block)
    BY <1>1, <1>2, <1>3, <1>6, <1>7, <1>8
  <2>2. \A i \in 1 .. e.len : e.block[i] = (t \o w)[i]
    BY <1>7, <1>10
  <2> QED BY <1>6, <1>7, <1>8, <1>11, <2>1, <2>2 DEF StringIs
<1> QED BY <1>12 DEF e

(* What StringIs says, conjunct by conjunct. *)
LEMMA StringBasics ==
  ASSUME NEW s, NEW t, StringIs(s, t)
  PROVE  /\ s \in StringRecord
         /\ s.block \in Seq(Byte) /\ Len(s.block) \in Nat /\ s.cap \in Nat /\ s.len \in Nat
         /\ t \in Seq(Other) /\ s.len = Len(t) /\ s.len <= Len(s.block)
         /\ Text!string_ref(s) = t
<1>1. /\ s \in StringRecord
      /\ s.block \in Seq(Byte) /\ Len(s.block) \in Nat /\ s.cap \in Nat /\ s.len \in Nat
      /\ t \in Seq(Other) /\ s.len = Len(t) /\ s.len <= Len(s.block)
      /\ \A i \in 1 .. s.len : s.block[i] = t[i]
  BY LenProperties DEF StringIs
<1>2. Text!string_ref(s) = t
  <2>1. SubSeq(s.block, 1, s.len) = [i \in 1 .. s.len |-> s.block[i]]
    BY <1>1
  <2>2. t = [i \in 1 .. s.len |-> t[i]]
    BY <1>1
  <2>3. SubSeq(s.block, 1, s.len) = t
    BY <1>1, <2>1, <2>2
  <2> QED BY <2>3 DEF Text!string_ref
<1> QED BY <1>1, <1>2

(* string_init holds nothing. *)
LEMMA EmptyHolds == StringIs(Text!string_init, <<>>)
<1> DEFINE block == <<>>
<1>1. block \in Seq(Byte) /\ Len(block) = 0
  OBVIOUS
<1>2. Text!string_init = [block |-> block, len |-> 0, cap |-> 0] /\ <<>> \in Seq(Other) /\ Len(<<>>) = 0
  BY DEF Text!string_init
<1> HIDE DEF block
<1>3. /\ Text!string_init \in StringRecord /\ Text!string_init.block = block
      /\ Text!string_init.len = 0 /\ Text!string_init.cap = 0
  BY <1>1, <1>2 DEF StringRecord
<1> QED BY <1>1, <1>2, <1>3 DEF StringIs

(* string_append adds its character. *)
LEMMA AppendHolds ==
  ASSUME NEW s, NEW t, StringIs(s, t), NEW c \in Other
  PROVE  StringIs(Text!string_append(s, c), Append(t, c))
<1>1. s.len \in Nat /\ s.cap \in Nat /\ t \in Seq(Other)
  BY StringBasics
<1>2. Extra \in Nat /\ Extra >= 2
  BY PartsAssumption DEF Text!StringsAssumption
<1>3. Text!string_append(s, c)
        = Text!Extended(s, <<c>>, IF s.len + 2 >= s.cap THEN s.cap * 2 + Extra ELSE s.cap)
  BY DEF Text!string_append
<1>4. Append(t, c) = t \o <<c>>
  BY <1>1, AppendIsConcat
<1>5. s.len < s.cap \/ s.len = 0
  BY DEF StringIs
<1>6. <<c>> \in Seq(Other) /\ Len(<<c>>) = 1
  OBVIOUS
<1>7. CASE s.len + 2 >= s.cap
  <2> DEFINE new == s.cap * 2 + Extra
  <2>1. new \in Nat /\ new >= s.cap /\ new > s.len + 1
    BY <1>1, <1>2, <1>5
  <2>2. Text!string_append(s, c) = Text!Extended(s, <<c>>, new)
    BY <1>3, <1>7
  <2> HIDE DEF new
  <2>3. new > s.len + Len(<<c>>)
    BY <1>6, <2>1
  <2>4. StringIs(Text!Extended(s, <<c>>, new), t \o <<c>>)
    BY <1>6, <2>1, <2>3, ConcatHolds
  <2> QED BY <1>4, <2>2, <2>4
<1>8. CASE ~(s.len + 2 >= s.cap)
  <2>1. s.cap > s.len + 1
    BY <1>1, <1>8
  <2>2. Text!string_append(s, c) = Text!Extended(s, <<c>>, s.cap)
    BY <1>3, <1>8
  <2>3. s.cap > s.len + Len(<<c>>) /\ s.cap >= s.cap
    BY <1>1, <1>6, <2>1
  <2>4. StringIs(Text!Extended(s, <<c>>, s.cap), t \o <<c>>)
    BY <1>1, <1>6, <2>3, ConcatHolds
  <2> QED BY <1>4, <2>2, <2>4
<1> QED BY <1>7, <1>8

(* string_from_cstr holds the characters of the C string. *)
LEMMA FromCstrHolds ==
  ASSUME NEW s, NEW t, StringIs(s, t), NEW w \in Seq(Other)
  PROVE  StringIs(Text!string_from_cstr(s, w), w)
<1> DEFINE r == Text!realloc(s.block, Len(w) + 1)
           bytes == Append(w, Text!NUL)
           b == Text!memcpy(r, 0, bytes)
           e == [block |-> b, len |-> Len(w), cap |-> Len(w) + 1]
<1>1. s.block \in Seq(Byte) /\ Len(w) \in Nat /\ \A i \in 1 .. Len(w) : w[i] \in Other
  BY StringBasics, LenProperties, ElementOfSeq
<1>2. r \in Seq(Byte) /\ Len(r) = Len(w) + 1
  <2>1. s.block \in Seq(Byte) /\ Len(w) + 1 \in Nat
    BY <1>1
  <2> QED BY <2>1, Reallocates
<1>3. /\ bytes \in Seq(Byte) /\ Len(bytes) = Len(w) + 1 /\ bytes[Len(w) + 1] = Text!NUL
      /\ \A i \in 1 .. Len(w) : bytes[i] = w[i]
  <2>1. w \in Seq(Byte) /\ Text!NUL \in Byte
    BY <1>1 DEF Byte
  <2> QED BY <2>1, AppendProperties
<1> HIDE DEF r, bytes
<1>4. /\ b \in Seq(Byte) /\ Len(b) = Len(r)
      /\ \A i \in 1 .. Len(r) :
           b[i] = IF 0 < i /\ i <= 0 + Len(bytes) THEN bytes[i - 0] ELSE r[i]
  BY <1>2, <1>3, Overwrites
<1> HIDE DEF b
<1>5. \A i \in 1 .. Len(w) + 1 : b[i] = bytes[i]
  BY <1>1, <1>2, <1>3, <1>4
<1>6. e.block = b /\ e.len = Len(w) /\ e.cap = Len(w) + 1 /\ e \in StringRecord
  BY <1>1, <1>4 DEF StringRecord
<1>7. StringIs(e, w)
  <2>1. \A i \in 1 .. Len(w) : b[i] = w[i]
    BY <1>1, <1>3, <1>5
  <2>2. b[Len(w) + 1] = Text!NUL
    BY <1>1, <1>3, <1>5
  <2> QED BY <1>1, <1>2, <1>4, <1>6, <2>1, <2>2 DEF StringIs
<1>8. Text!string_from_cstr(s, w) = e
  BY DEF Text!string_from_cstr, b, r, bytes
<1> QED BY <1>7, <1>8

(* A NUL that cuts the string: string_clear, and string_resize to less. *)
Cut(s, n) ==
  [s EXCEPT !.len = n, !.block = IF s.cap = 0 THEN @ ELSE Text!memcpy(@, n, <<Text!NUL>>)]

(* A string that is cut holds the characters before the cut. *)
LEMMA CutHolds ==
  ASSUME NEW s, NEW t, StringIs(s, t), NEW n \in Nat, n <= s.len
  PROVE  StringIs(Cut(s, n), SubSeq(t, 1, n))
<1> DEFINE b == IF s.cap = 0 THEN s.block ELSE Text!memcpy(s.block, n, <<Text!NUL>>)
           e == [s EXCEPT !.len = n, !.block = b]
<1>1. /\ s \in StringRecord
      /\ s.block \in Seq(Byte) /\ Len(s.block) \in Nat /\ s.cap \in Nat /\ s.len \in Nat
      /\ t \in Seq(Other) /\ s.len = Len(t) /\ s.len <= Len(s.block)
  BY StringBasics
<1>2. /\ s.cap <= Len(s.block) /\ (s.len < s.cap \/ s.len = 0)
      /\ \A i \in 1 .. s.len : s.block[i] = t[i]
  BY DEF StringIs
<1>3. Cut(s, n) = e
  BY <1>1 DEF Cut, StringRecord
<1>4. /\ b \in Seq(Byte) /\ Len(b) = Len(s.block)
      /\ \A i \in 1 .. n : b[i] = t[i]
      /\ s.cap > 0 => b[n + 1] = Text!NUL
  <2>1. CASE s.cap = 0
    BY <2>1, <1>1, <1>2
  <2>2. CASE s.cap # 0
    <3> DEFINE m == Text!memcpy(s.block, n, <<Text!NUL>>)
    <3>1. <<Text!NUL>> \in Seq(Byte) /\ Len(<<Text!NUL>>) = 1
      BY DEF Byte
    <3>2. /\ m \in Seq(Byte) /\ Len(m) = Len(s.block)
          /\ \A i \in 1 .. Len(s.block) :
               m[i] = IF n < i /\ i <= n + Len(<<Text!NUL>>) THEN <<Text!NUL>>[i - n] ELSE s.block[i]
      BY <1>1, <3>1, Overwrites
    <3> HIDE DEF m
    <3>3. \A i \in 1 .. n : m[i] = t[i]
      <4>1. ASSUME NEW i \in 1 .. n PROVE m[i] = t[i]
        <5>1. i \in 1 .. Len(s.block) /\ i \in 1 .. s.len /\ ~(n < i)
          BY <1>1
        <5> QED BY <5>1, <3>2, <1>2
      <4> QED BY <4>1
    <3>4. m[n + 1] = Text!NUL
      <4>1. n + 1 \in 1 .. Len(s.block) /\ n < n + 1 /\ n + 1 <= n + Len(<<Text!NUL>>)
            /\ (n + 1) - n = 1
        BY <1>1, <1>2, <2>2, <3>1
      <4>2. m[n + 1] = <<Text!NUL>>[(n + 1) - n]
        BY <4>1, <3>2
      <4>3. <<Text!NUL>>[1] = Text!NUL
        OBVIOUS
      <4> QED BY <4>1, <4>2, <4>3
    <3>5. b = m
      BY <2>2 DEF m
    <3> QED BY <3>2, <3>3, <3>4, <3>5
  <2> QED BY <2>1, <2>2
<1> HIDE DEF b
<1>5. e \in StringRecord /\ e.block = b /\ e.len = n /\ e.cap = s.cap
  BY <1>1, <1>4 DEF StringRecord
<1>6. /\ SubSeq(t, 1, n) \in Seq(Other) /\ Len(SubSeq(t, 1, n)) = n
      /\ \A i \in 1 .. n : SubSeq(t, 1, n)[i] = t[i]
  BY <1>1
<1>7. StringIs(e, SubSeq(t, 1, n))
  <2> HIDE DEF e
  <2>1. s.cap <= Len(b) /\ (n < s.cap \/ n = 0)
    BY <1>1, <1>2, <1>4
  <2> QED BY <1>1, <1>4, <1>5, <1>6, <2>1 DEF StringIs
<1> QED BY <1>3, <1>7

(* string_ref_clone appends the reference, character by character. *)
LEMMA RefCloneHolds ==
  ASSUME NEW s, NEW t, StringIs(s, t), NEW ref \in Seq(Other)
  PROVE  StringIs(Text!string_ref_clone(s, ref), t \o ref)
<1> DEFINE n == Len(ref)
           Valid == {x \in StringRecord : \E u \in Seq(Other) : StringIs(x, u)}
           Round(i, x) == IF i + 1 \in 1 .. n THEN Text!string_append(x, ref[i + 1]) ELSE x
           step == [p \in Nat \X Valid |-> Round(p[1], p[2])]
           IsOut(g) == g = [i \in 0 .. n |-> IF i = 0 THEN s
                                             ELSE Text!string_append(g[i - 1], ref[i])]
           out == CHOOSE g : IsOut(g)
           T == {i \in Nat : i <= n => StringIs(out[i], t \o SubSeq(ref, 1, i))}
<1>0. n \in Nat /\ \A i \in 1 .. n : ref[i] \in Other
  BY LenProperties, ElementOfSeq
<1>1. Text!string_ref_clone(s, ref) = out[n]
  BY DEF Text!string_ref_clone
<1>2. ASSUME NEW x, NEW u, StringIs(x, u) PROVE x \in Valid
  <2>1. x \in StringRecord /\ u \in Seq(Other)
    BY <1>2 DEF StringIs
  <2> QED BY <1>2, <2>1
<1>3. ASSUME NEW i \in Nat, NEW x \in Valid PROVE Round(i, x) \in Valid
  <2>1. CASE i + 1 \in 1 .. n
    <3>1. PICK u \in Seq(Other) : StringIs(x, u)
      OBVIOUS
    <3>2. StringIs(Text!string_append(x, ref[i + 1]), Append(u, ref[i + 1]))
      BY <1>0, <2>1, <3>1, AppendHolds
    <3> HIDE DEF Valid
    <3> QED BY <2>1, <3>2, <1>2
  <2>2. CASE i + 1 \notin 1 .. n
    BY <2>2
  <2> QED BY <2>1, <2>2
<1>4. s \in Valid
  BY <1>2
<1> HIDE DEF Valid
<1>5. PICK f \in [Nat -> Valid] : f[0] = s /\ \A i \in Nat : f[i + 1] = step[<<i, f[i]>>]
  <2> HIDE DEF Round
  <2>1. step \in [Nat \X Valid -> Valid]
    BY <1>3
  <2> HIDE DEF step
  <2>2. \E f \in [Nat -> Valid] : Iterates(f, s, step)
    BY <2>1, <1>4, RunExists
  <2> QED BY <2>2 DEF Iterates
<1>6. ASSUME NEW i \in Nat PROVE f[i + 1] = Round(i, f[i])
  <2> HIDE DEF Round
  <2> QED BY <1>5
<1> HIDE DEF step
<1>7. \E g : IsOut(g)
  <2> DEFINE g == [i \in 0 .. n |-> f[i]]
  <2>1. ASSUME NEW i \in 0 .. n, i # 0 PROVE g[i] = Text!string_append(g[i - 1], ref[i])
    <3>1. i - 1 \in Nat /\ (i - 1) + 1 = i /\ i - 1 \in 0 .. n /\ i \in 1 .. n
      BY <1>0, <2>1
    <3>2. f[(i - 1) + 1] = Round(i - 1, f[i - 1])
      BY <3>1, <1>6
    <3>3. Round(i - 1, f[i - 1]) = Text!string_append(f[i - 1], ref[i])
      BY <3>1
    <3> HIDE DEF Round
    <3> QED BY <3>1, <3>2, <3>3
  <2>2. IsOut(g)
    BY <2>1, <1>5
  <2> QED BY <2>2
<1>8. IsOut(out)
  BY <1>7
<1> HIDE DEF out
<1>9. out[0] = s /\ \A i \in 1 .. n : out[i] = Text!string_append(out[i - 1], ref[i])
  <2>1. 0 \in 0 .. n /\ \A i \in 1 .. n : i \in 0 .. n /\ i # 0
    BY <1>0
  <2> QED BY <2>1, <1>8
<1>10. t \in Seq(Other)
  BY StringBasics
<1>11. 0 \in T
  <2>1. t \o SubSeq(ref, 1, 0) = t
    <3>1. SubSeq(ref, 1, 0) = <<>>
      OBVIOUS
    <3> QED BY <3>1, <1>10, ConcatEmptySeq
  <2> QED BY <1>9, <2>1
<1>12. ASSUME NEW i \in Nat, i \in T PROVE i + 1 \in T
  <2> SUFFICES ASSUME i + 1 <= n
               PROVE  StringIs(out[i + 1], t \o SubSeq(ref, 1, i + 1))
    OBVIOUS
  <2>1. i + 1 \in 1 .. n /\ (i + 1) - 1 = i /\ i <= n
    BY <1>0
  <2>2. StringIs(out[i], t \o SubSeq(ref, 1, i))
    BY <2>1, <1>12
  <2>3. out[i + 1] = Text!string_append(out[i], ref[i + 1])
    BY <2>1, <1>9
  <2>4. ref[i + 1] \in Other
    BY <2>1, <1>0
  <2>5. Append(t \o SubSeq(ref, 1, i), ref[i + 1]) = t \o SubSeq(ref, 1, i + 1)
    <3>1. SubSeq(ref, 1, i) \in Seq(Other)
      BY <1>0, <2>1
    <3>2. SubSeq(ref, 1, i + 1) = Append(SubSeq(ref, 1, i), ref[i + 1])
      BY <1>0, <2>1
    <3>3. t \o SubSeq(ref, 1, i) \in Seq(Other) /\ <<ref[i + 1]>> \in Seq(Other)
      BY <1>10, <2>4, <3>1, ConcatProperties
    <3>4. Append(t \o SubSeq(ref, 1, i), ref[i + 1]) = (t \o SubSeq(ref, 1, i)) \o <<ref[i + 1]>>
      BY <2>4, <3>3, AppendIsConcat
    <3>5. Append(SubSeq(ref, 1, i), ref[i + 1]) = SubSeq(ref, 1, i) \o <<ref[i + 1]>>
      BY <2>4, <3>1, AppendIsConcat
    <3>6. (t \o SubSeq(ref, 1, i)) \o <<ref[i + 1]>> = t \o (SubSeq(ref, 1, i) \o <<ref[i + 1]>>)
      <4> DEFINE a == SubSeq(ref, 1, i)
                 c == <<ref[i + 1]>>
      <4>1. a \in Seq(Other) /\ c \in Seq(Other)
        BY <3>1, <3>3
      <4> HIDE DEF a, c
      <4>2. (t \o a) \o c = t \o (a \o c)
        BY <1>10, <4>1, ConcatAssociative, SMTT(20)
      <4> QED BY <4>2 DEF a, c
    <3> QED BY <3>2, <3>4, <3>5, <3>6
  <2> QED BY <2>2, <2>3, <2>4, <2>5, AppendHolds
<1> HIDE DEF T
<1>13. Nat \subseteq T
  BY <1>11, <1>12, SetInduction
<1>14. StringIs(out[n], t \o SubSeq(ref, 1, n))
  <2>1. n \in T /\ n <= n
    BY <1>0, <1>13
  <2> QED BY <2>1 DEF T
<1>15. SubSeq(ref, 1, n) = ref
  OBVIOUS
<1> QED BY <1>1, <1>14, <1>15

(* string_clone holds what its source held. *)
LEMMA CloneHolds ==
  ASSUME NEW src, NEW ts, StringIs(src, ts), NEW dst, NEW td, StringIs(dst, td), src.cap > 0
  PROVE  StringIs(Text!string_clone(src, dst), ts)
<1> DEFINE new == Text!Grown(dst.cap, src.len + 2)
           g == Text!GrownTo(dst, new)
           bytes == SubSeq(src.block, 1, src.len + 1)
           b == Text!memcpy(g.block, 0, bytes)
           e == [g EXCEPT !.block = b, !.len = src.len]
<1>1. /\ src.block \in Seq(Byte) /\ Len(src.block) \in Nat /\ src.len \in Nat
      /\ ts \in Seq(Other) /\ src.len = Len(ts) /\ dst.cap \in Nat /\ dst.len \in Nat
  BY StringBasics
<1>2. /\ src.len + 1 <= Len(src.block) /\ src.block[src.len + 1] = Text!NUL
      /\ \A i \in 1 .. src.len : src.block[i] = ts[i]
  BY <1>1 DEF StringIs, StringRecord
<1>3. new \in Nat /\ new > src.len + 2 /\ new >= dst.cap
  <2>1. src.len + 2 \in Nat
    BY <1>1
  <2> QED BY <1>1, <2>1, CapacityGrows
<1> HIDE DEF new
<1>4. /\ g \in StringRecord /\ g.block \in Seq(Byte) /\ g.cap = new /\ new <= Len(g.block)
  <2>1. CASE new > dst.len
    BY <1>3, <2>1, GrownHolds
  <2>2. CASE ~(new > dst.len)
    <3>1. dst.len < dst.cap \/ dst.len = 0
      BY DEF StringIs
    <3> QED BY <1>1, <1>3, <2>2, <3>1
  <2> QED BY <2>1, <2>2
<1> HIDE DEF g
<1>5. /\ bytes \in Seq(Byte) /\ Len(bytes) = src.len + 1
      /\ \A i \in 1 .. src.len + 1 : bytes[i] = src.block[i]
  BY <1>1, <1>2
<1> HIDE DEF bytes
<1>6. /\ b \in Seq(Byte) /\ Len(b) = Len(g.block)
      /\ \A i \in 1 .. Len(g.block) :
           b[i] = IF 0 < i /\ i <= 0 + Len(bytes) THEN bytes[i - 0] ELSE g.block[i]
  BY <1>4, <1>5, Overwrites
<1>7. Text!string_clone(src, dst) = e
  BY <1>4 DEF Text!string_clone, g, bytes, new, StringRecord
<1> HIDE DEF b
<1>8. \A i \in 1 .. src.len + 1 : b[i] = src.block[i]
  <2>1. ASSUME NEW i \in 1 .. src.len + 1 PROVE b[i] = src.block[i]
    <3>1. i \in 1 .. Len(g.block) /\ 0 < i /\ i <= 0 + Len(bytes) /\ i - 0 = i
      BY <1>1, <1>3, <1>4, <1>5, LenProperties
    <3> QED BY <3>1, <1>5, <1>6
  <2> QED BY <2>1
<1>9. e \in StringRecord /\ e.block = b /\ e.len = src.len /\ e.cap = new
  BY <1>1, <1>4, <1>6 DEF StringRecord
<1> HIDE DEF e
<1>10. \A i \in 1 .. src.len : b[i] = ts[i]
  BY <1>1, <1>2, <1>8
<1>11. b[src.len + 1] = Text!NUL
  BY <1>1, <1>2, <1>8
<1>12. StringIs(e, ts)
  <2>1. src.len < new /\ new <= Len(b)
    BY <1>1, <1>3, <1>4, <1>6
  <2> QED BY <1>1, <1>3, <1>6, <1>9, <1>10, <1>11, <2>1 DEF StringIs
<1> QED BY <1>7, <1>12

(* string_reserve changes no character. *)
LEMMA ReserveHolds ==
  ASSUME NEW s, NEW t, StringIs(s, t), NEW size \in Nat
  PROVE  StringIs(Text!string_reserve(s, size), t)
<1> DEFINE b == Text!realloc(s.block, size + 1)
           e == [s EXCEPT !.block = b]
<1>1. /\ s \in StringRecord /\ s.block \in Seq(Byte) /\ Len(s.block) \in Nat /\ s.cap \in Nat
      /\ s.len \in Nat /\ t \in Seq(Other) /\ s.len = Len(t)
  BY StringBasics
<1>2. CASE s.cap >= size + 1
  BY <1>2 DEF Text!string_reserve
<1>3. CASE ~(s.cap >= size + 1)
  <2>1. /\ b \in Seq(Byte) /\ Len(b) = size + 1
        /\ \A i \in 1 .. size + 1 : i <= Len(s.block) => b[i] = s.block[i]
    <3>1. size + 1 \in Nat
      OBVIOUS
    <3> QED BY <1>1, <3>1, Reallocates
  <2>2. Text!string_reserve(s, size) = e
    BY <1>1, <1>3 DEF Text!string_reserve, StringRecord
  <2> HIDE DEF b
  <2>3. e \in StringRecord /\ e.block = b /\ e.len = s.len /\ e.cap = s.cap
    BY <1>1, <2>1 DEF StringRecord
  <2> HIDE DEF e
  <2>4. /\ s.cap <= Len(s.block) /\ (s.len < s.cap \/ s.len = 0)
        /\ \A i \in 1 .. s.len : s.block[i] = t[i]
        /\ s.cap > 0 => s.block[s.len + 1] = Text!NUL
    BY DEF StringIs
  <2>5. ASSUME NEW i \in 1 .. s.len PROVE b[i] = t[i]
    <3>1. i \in 1 .. size + 1 /\ i <= Len(s.block)
      BY <1>1, <1>3, <2>4
    <3> QED BY <3>1, <2>1, <2>4
  <2>6. s.cap > 0 => b[s.len + 1] = Text!NUL
    <3> SUFFICES ASSUME s.cap > 0 PROVE b[s.len + 1] = Text!NUL
      OBVIOUS
    <3>1. s.len + 1 \in 1 .. size + 1 /\ s.len + 1 <= Len(s.block)
      BY <1>1, <1>3, <2>4
    <3> QED BY <3>1, <2>1, <2>4
  <2>7. s.cap <= Len(b)
    BY <1>1, <1>3, <2>1
  <2>8. StringIs(e, t)
    BY <1>1, <2>1, <2>3, <2>4, <2>5, <2>6, <2>7 DEF StringIs
  <2> QED BY <2>2, <2>8
<1> QED BY <1>2, <1>3

(* An empty string that becomes longer. *)
LEMMA ResizeHolds ==
  ASSUME NEW s, NEW t, StringIs(s, t), s.len = 0, NEW size \in Nat, size > 0, NEW pad \in Other
  PROVE  StringIs(Text!string_resize(s, size, pad), [i \in 1 .. size |-> pad])
<1> DEFINE r == Text!realloc(s.block, size + 1)
           pads == [i \in 1 .. size + 1 |-> pad]
           m == Text!memcpy(r, 0, pads)
           b == Text!memcpy(m, size, <<Text!NUL>>)
           e == [block |-> b, len |-> size, cap |-> size + 1]
           new == [i \in 1 .. size |-> pad]
<1>1. s.block \in Seq(Byte) /\ s.len = 0
  BY StringBasics
<1>2. Text!string_resize(s, size, pad) = e
  BY <1>1 DEF Text!string_resize
<1>3. r \in Seq(Byte) /\ Len(r) = size + 1
  <2>1. size + 1 \in Nat
    OBVIOUS
  <2> QED BY <1>1, <2>1, Reallocates
<1>4. pads \in Seq(Byte) /\ Len(pads) = size + 1 /\ \A i \in 1 .. size + 1 : pads[i] = pad
  BY DEF Byte
<1> HIDE DEF r, pads
<1>5. /\ m \in Seq(Byte) /\ Len(m) = Len(r)
      /\ \A i \in 1 .. Len(r) : m[i] = IF 0 < i /\ i <= 0 + Len(pads) THEN pads[i - 0] ELSE r[i]
  BY <1>3, <1>4, Overwrites
<1>6. \A i \in 1 .. size : m[i] = pad
  BY <1>3, <1>4, <1>5
<1> HIDE DEF m
<1>7. <<Text!NUL>> \in Seq(Byte) /\ Len(<<Text!NUL>>) = 1 /\ <<Text!NUL>>[1] = Text!NUL
  BY DEF Byte
<1>8. /\ b \in Seq(Byte) /\ Len(b) = Len(m)
      /\ \A i \in 1 .. Len(m) :
           b[i] = IF size < i /\ i <= size + Len(<<Text!NUL>>) THEN <<Text!NUL>>[i - size] ELSE m[i]
  BY <1>5, <1>7, Overwrites
<1> HIDE DEF b
<1>9. \A i \in 1 .. size : b[i] = pad
  <2>1. ASSUME NEW i \in 1 .. size PROVE b[i] = pad
    <3>1. i \in 1 .. Len(m) /\ ~(size < i)
      BY <1>3, <1>5
    <3> QED BY <3>1, <1>6, <1>8
  <2> QED BY <2>1
<1>10. b[size + 1] = Text!NUL
  <2>1. size + 1 \in 1 .. Len(m) /\ size < size + 1 /\ size + 1 <= size + Len(<<Text!NUL>>)
        /\ (size + 1) - size = 1
    BY <1>3, <1>5, <1>7
  <2> QED BY <2>1, <1>7, <1>8
<1>11. e \in StringRecord /\ e.block = b /\ e.len = size /\ e.cap = size + 1
  BY <1>8 DEF StringRecord
<1> HIDE DEF e
<1>12. new \in Seq(Other) /\ Len(new) = size /\ \A i \in 1 .. size : new[i] = pad
  OBVIOUS
<1> HIDE DEF new
<1>13. StringIs(e, new)
  <2>1. size + 1 <= Len(b) /\ size < size + 1
    BY <1>3, <1>5, <1>8
  <2> QED BY <1>8, <1>9, <1>10, <1>11, <1>12, <2>1 DEF StringIs
<1> QED BY <1>2, <1>13 DEF new

(* The invariant: each string holds its text. *)
StringsInv ==
  /\ str = [n \in Elem |-> str[n]] /\ text = [n \in Elem |-> text[n]]
  /\ \A n \in Elem : StringIs(str[n], text[n])

(* The strings start empty. *)
LEMMA StringsStart == Text!Init => StringsInv
<1> SUFFICES ASSUME Text!Init PROVE StringsInv
  OBVIOUS
<1>1. /\ str = [n \in Elem |-> str[n]] /\ text = [n \in Elem |-> text[n]]
      /\ \A n \in Elem : str[n] = Text!string_init /\ text[n] = <<>>
  BY DEF Text!Init
<1>2. StringIs(Text!string_init, <<>>)
  BY EmptyHolds
<1> QED BY <1>1, <1>2 DEF StringsInv

(* A call that makes string n hold t keeps the invariant. *)
LEMMA BecomesHolds ==
  ASSUME StringsInv, NEW n \in Elem, NEW s, NEW t, StringIs(s, t), Text!Becomes(n, s, t)
  PROVE  StringsInv'
<1>1. str' = [str EXCEPT ![n] = s] /\ text' = [text EXCEPT ![n] = t]
  BY DEF Text!Becomes
<1>2. /\ str' = [m \in Elem |-> str'[m]] /\ text' = [m \in Elem |-> text'[m]]
      /\ str'[n] = s /\ text'[n] = t
      /\ \A m \in Elem : m # n => str'[m] = str[m] /\ text'[m] = text[m]
  BY <1>1 DEF StringsInv
<1>3. ASSUME NEW m \in Elem PROVE StringIs(str'[m], text'[m])
  BY <1>2 DEF StringsInv
<1> QED BY <1>2, <1>3 DEF StringsInv

(* What the calls add is a sequence of characters. *)
LEMMA WordsAreSequences ==
  ASSUME NEW w \in Text!Words
  PROVE  w \in Seq(Other)
<1>1. PICK words \in {[1 .. k -> Other] : k \in 0 .. 2} : w \in words
  BY DEF Text!Words
<1>2. PICK k \in 0 .. 2 : words = [1 .. k -> Other]
  BY <1>1
<1> QED BY <1>1, <1>2

(* string_concat, with the characters of another string or others. *)
LEMMA ConcatGrows ==
  ASSUME NEW s, NEW t, StringIs(s, t), NEW w \in Seq(Other)
  PROVE  StringIs(Text!string_concat(s, w), t \o w)
<1> DEFINE least == s.len + 1 + Len(w) + 1
           new == Text!Grown(s.cap, least)
<1>1. s.cap \in Nat /\ s.len \in Nat /\ Len(w) \in Nat
  BY StringBasics, LenProperties
<1>2. new \in Nat /\ new > least /\ new >= s.cap
  <2>1. least \in Nat
    BY <1>1
  <2> HIDE DEF least
  <2> QED BY <1>1, <2>1, CapacityGrows
<1>3. Text!string_concat(s, w) = Text!Extended(s, w, new)
  BY DEF Text!string_concat
<1> HIDE DEF new
<1>4. new > s.len + Len(w)
  BY <1>1, <1>2
<1>5. StringIs(Text!Extended(s, w, new), t \o w)
  BY <1>2, <1>4, ConcatHolds
<1> QED BY <1>3, <1>5

(* The calls on one string, but for string_resize ... *)
LEMMA StringCallsHold ==
  ASSUME StringsInv, NEW n \in Elem
  PROVE  /\ Text!DeInit(n) => StringsInv'
         /\ Text!AppendChar(n) => StringsInv'
         /\ Text!FromCstr(n) => StringsInv'
         /\ Text!Clear(n) => StringsInv'
         /\ Text!Concat(n) => StringsInv'
         /\ Text!Reserve(n) => StringsInv'
<1>1. StringIs(str[n], text[n])
  BY DEF StringsInv
<1>2. /\ str[n].len \in Nat /\ text[n] \in Seq(Other) /\ str[n].len = Len(text[n])
  BY <1>1, StringBasics
<1>3. ASSUME Text!DeInit(n) PROVE StringsInv'
  <2>1. StringIs(Text!string_init, <<>>)
    BY EmptyHolds
  <2> QED BY <1>3, <2>1, BecomesHolds DEF Text!DeInit
<1>4. ASSUME Text!AppendChar(n) PROVE StringsInv'
  <2>1. PICK c \in Other : Text!Becomes(n, Text!string_append(str[n], c), Append(text[n], c))
    BY <1>4 DEF Text!AppendChar
  <2>2. StringIs(Text!string_append(str[n], c), Append(text[n], c))
    BY <1>1, AppendHolds
  <2> QED BY <2>1, <2>2, BecomesHolds
<1>5. ASSUME Text!FromCstr(n) PROVE StringsInv'
  <2>1. PICK w \in Text!Words : Text!Becomes(n, Text!string_from_cstr(str[n], w), w)
    BY <1>5 DEF Text!FromCstr
  <2>2. StringIs(Text!string_from_cstr(str[n], w), w)
    BY <1>1, WordsAreSequences, FromCstrHolds
  <2> QED BY <2>1, <2>2, BecomesHolds
<1>6. ASSUME Text!Clear(n) PROVE StringsInv'
  <2> DEFINE e == Cut(str[n], 0)
  <2>1. StringIs(e, SubSeq(text[n], 1, 0))
    <3>1. 0 <= str[n].len
      BY <1>2
    <3> QED BY <1>1, <3>1, CutHolds
  <2>2. SubSeq(text[n], 1, 0) = <<>>
    BY <1>2
  <2>3. Text!string_clear(str[n]) = e
    BY DEF Text!string_clear, Cut
  <2>4. Text!Becomes(n, Text!string_clear(str[n]), <<>>)
    BY <1>6 DEF Text!Clear
  <2> HIDE DEF e
  <2> QED BY <2>1, <2>2, <2>3, <2>4, BecomesHolds
<1>7. ASSUME Text!Concat(n) PROVE StringsInv'
  <2>1. PICK w \in Text!Words : Text!Becomes(n, Text!string_concat(str[n], w), text[n] \o w)
    BY <1>7 DEF Text!Concat
  <2>2. StringIs(Text!string_concat(str[n], w), text[n] \o w)
    BY <1>1, WordsAreSequences, ConcatGrows
  <2> QED BY <2>1, <2>2, BecomesHolds
<1>8. ASSUME Text!Reserve(n) PROVE StringsInv'
  <2>1. PICK size \in 0 .. MaxLen : Text!Becomes(n, Text!string_reserve(str[n], size), text[n])
    BY <1>8 DEF Text!Reserve
  <2>2. size \in Nat
    BY PartsAssumption DEF Text!StringsAssumption
  <2>3. StringIs(Text!string_reserve(str[n], size), text[n])
    BY <1>1, <2>2, ReserveHolds
  <2> QED BY <2>1, <2>3, BecomesHolds
<1> QED BY <1>3, <1>4, <1>5, <1>6, <1>7, <1>8

(* ... string_resize, whose new characters may be anything ... *)
LEMMA ResizeCallHolds ==
  ASSUME StringsInv, NEW n \in Elem, Text!Resize(n)
  PROVE  StringsInv'
<1> DEFINE s == str[n]
           t == text[n]
<1>1. StringIs(s, t)
  BY DEF StringsInv
<1>2. s.len \in Nat /\ t \in Seq(Other) /\ s.len = Len(t) /\ DOMAIN t = 1 .. s.len
  BY <1>1, StringBasics, LenProperties
<1>3. PICK size \in 0 .. MaxLen, pad \in Other :
        /\ size > s.len => s.len = 0
        /\ Text!Becomes(n, Text!string_resize(s, size, pad),
                        [i \in 1 .. size |-> IF i \in DOMAIN t THEN t[i] ELSE pad])
  BY DEF Text!Resize
<1> DEFINE new == [i \in 1 .. size |-> IF i \in DOMAIN t THEN t[i] ELSE pad]
<1>4. size \in Nat
  BY PartsAssumption DEF Text!StringsAssumption
<1> HIDE DEF s, t
<1>5. CASE size = s.len
  <2>1. Text!string_resize(s, size, pad) = s
    BY <1>5 DEF Text!string_resize
  <2>2. new = t
    <3>1. t = [i \in 1 .. size |-> t[i]]
      BY <1>2, <1>5
    <3>2. \A i \in 1 .. size : i \in DOMAIN t
      BY <1>2, <1>5
    <3> QED BY <3>1, <3>2
  <2> HIDE DEF new
  <2>3. Text!Becomes(n, s, t)
    BY <1>3, <2>1, <2>2 DEF new
  <2> QED BY <1>1, <2>3, BecomesHolds
<1>6. CASE size < s.len
  <2> DEFINE e == Cut(s, size)
  <2>1. Text!string_resize(s, size, pad) = e
    <3>0. s.len \in Nat
      BY <1>2
    <3>1. size # s.len
      BY <3>0, <1>4, <1>6
    <3> QED BY <1>6, <3>1 DEF Text!string_resize, Cut
  <2>2. StringIs(e, SubSeq(t, 1, size))
    BY <1>1, <1>2, <1>4, <1>6, CutHolds
  <2>3. new = SubSeq(t, 1, size)
    <3>1. SubSeq(t, 1, size) = [i \in 1 .. size |-> t[i]]
      BY <1>2, <1>4, <1>6
    <3>2. \A i \in 1 .. size : i \in DOMAIN t
      BY <1>2, <1>4, <1>6
    <3> QED BY <3>1, <3>2
  <2> HIDE DEF e
  <2>4. Text!Becomes(n, e, new)
    BY <1>3, <2>1
  <2> HIDE DEF new
  <2> QED BY <2>2, <2>3, <2>4, BecomesHolds
<1>7. CASE size > s.len
  <2>1. s.len = 0 /\ size > 0
    BY <1>2, <1>3, <1>4, <1>7
  <2>2. StringIs(Text!string_resize(s, size, pad), [i \in 1 .. size |-> pad])
    BY <1>1, <1>4, <2>1, ResizeHolds
  <2>3. new = [i \in 1 .. size |-> pad]
    <3>1. \A i \in 1 .. size : i \notin DOMAIN t
      BY <1>2, <2>1
    <3> QED BY <3>1
  <2>4. Text!Becomes(n, Text!string_resize(s, size, pad), new)
    BY <1>3
  <2> HIDE DEF new
  <2>5. StringIs(Text!string_resize(s, size, pad), new)
    BY <2>2, <2>3
  <2> QED BY <2>4, <2>5, BecomesHolds
<1>8. size = s.len \/ size < s.len \/ size > s.len
  <2>1. s.len \in Nat
    BY <1>2
  <2> QED BY <2>1, <1>4
<1> QED BY <1>5, <1>6, <1>7, <1>8

(* ... and those on two. *)
LEMMA TwoStringsHold ==
  ASSUME StringsInv, NEW n \in Elem, NEW m \in Elem
  PROVE  /\ Text!ConcatRef(n, m) => StringsInv'
         /\ Text!Clone(m, n) => StringsInv'
<1>1. StringIs(str[n], text[n]) /\ StringIs(str[m], text[m])
  BY DEF StringsInv
<1>2. text[m] \in Seq(Other) /\ Text!string_ref(str[m]) = text[m]
  BY <1>1, StringBasics
<1>3. ASSUME Text!ConcatRef(n, m) PROVE StringsInv'
  <2>1. PICK s \in {Text!string_concat(str[n], text[m]), Text!string_ref_clone(str[n], text[m])} :
          Text!Becomes(n, s, text[n] \o text[m])
    BY <1>2, <1>3 DEF Text!ConcatRef
  <2>2. StringIs(s, text[n] \o text[m])
    BY <1>1, <1>2, <2>1, ConcatGrows, RefCloneHolds
  <2> QED BY <2>1, <2>2, BecomesHolds
<1>4. ASSUME Text!Clone(m, n) PROVE StringsInv'
  <2>1. str[m].cap > 0 /\ Text!Becomes(n, Text!string_clone(str[m], str[n]), text[m])
    BY <1>4 DEF Text!Clone
  <2>2. StringIs(Text!string_clone(str[m], str[n]), text[m])
    BY <1>1, <2>1, CloneHolds
  <2> QED BY <2>1, <2>2, BecomesHolds
<1> QED BY <1>3, <1>4

(* Every string always holds its text. *)
LEMMA StringsKept == Text!Spec => []StringsInv
<1>1. StringsInv /\ [Text!Next]_(Text!vars) => StringsInv'
  <2> SUFFICES ASSUME StringsInv, [Text!Next]_(Text!vars) PROVE StringsInv'
    OBVIOUS
  <2>1. CASE UNCHANGED Text!vars
    BY <2>1 DEF StringsInv, Text!vars
  <2>2. ASSUME NEW n \in Elem,
               \/ Text!DeInit(n) \/ Text!AppendChar(n) \/ Text!FromCstr(n) \/ Text!Clear(n)
               \/ Text!Concat(n) \/ Text!Reserve(n) \/ Text!Resize(n)
        PROVE  StringsInv'
    BY <2>2, StringCallsHold, ResizeCallHolds
  <2>3. ASSUME NEW n \in Elem, NEW m \in Elem, Text!ConcatRef(n, m) \/ Text!Clone(m, n)
        PROVE  StringsInv'
    BY <2>3, TwoStringsHold
  <2> QED BY <2>1, <2>2, <2>3 DEF Text!Next
<1> QED BY <1>1, StringsStart, PTL DEF Text!Spec

(* Strings that hold their text are what HoldsText and CapacityOK ask for. *)
LEMMA HeldByStrings == StringsInv => Text!HoldsText /\ Text!CapacityOK
<1> SUFFICES ASSUME StringsInv, NEW n \in Elem
             PROVE  /\ SubSeq(str[n].block, 1, str[n].len) = text[n]
                    /\ str[n].cap > 0 => str[n].block[str[n].len + 1] = Text!NUL
                    /\ str[n].cap <= Len(str[n].block) /\ str[n].len = Len(text[n])
                    /\ str[n].len < str[n].cap \/ str[n].len = 0
  BY DEF Text!HoldsText, Text!CapacityOK
<1>1. StringIs(str[n], text[n])
  BY DEF StringsInv
<1>2. SubSeq(str[n].block, 1, str[n].len) = text[n]
  BY <1>1, StringBasics DEF Text!string_ref
<1> QED BY <1>1, <1>2 DEF StringIs

(***************************************************************************)
(* String references.                                                      *)
(***************************************************************************)
(* Where a run ends: at the end of the string or before what is not in it. *)
LEMMA RunEnds ==
  ASSUME NEW S, NEW ref \in Seq(S), NEW i \in 0 .. Len(ref), NEW run
  PROVE  LET k == References!RunEnd(ref, i, run)
         IN /\ k \in i .. Len(ref) /\ k \in Nat
            /\ k = Len(ref) \/ ref[k + 1] \notin run
            /\ \A j \in i + 1 .. k : ref[j] \in run
<1> DEFINE Stops == {k \in i .. Len(ref) : k = Len(ref) \/ ref[k + 1] \notin run}
           k == CHOOSE x \in Stops : \A y \in Stops : x <= y
<1>0. Len(ref) \in Nat /\ i \in Nat
  BY LenProperties
<1>1. References!RunEnd(ref, i, run) = k
  BY DEF References!RunEnd, References!Sets!Min
<1>2. Len(ref) \in Stops /\ Stops \subseteq Nat
  BY <1>0
<1>3. k \in Stops /\ \A y \in Stops : k <= y
  <2>1. \E x \in Stops : \A y \in Stops : x <= y
    <3> HIDE DEF Stops
    <3> QED BY <1>2, LeastElement
  <2> HIDE DEF Stops
  <2> QED BY <2>1
<1> HIDE DEF k
<1>4. ASSUME NEW j \in i + 1 .. k PROVE ref[j] \in run
  <2>1. j - 1 \in i .. Len(ref) /\ ~(k <= j - 1) /\ j - 1 # Len(ref) /\ (j - 1) + 1 = j
    BY <1>0, <1>3
  <2> QED BY <2>1, <1>3
<1> QED BY <1>0, <1>1, <1>3, <1>4

(* What is left behind the first n characters. *)
LEMMA Dropped ==
  ASSUME NEW S, NEW ref \in Seq(S), NEW n \in 0 .. Len(ref)
  PROVE  LET rest == References!Drop(ref, n)
         IN /\ rest \in Seq(S) /\ Len(rest) = Len(ref) - n
            /\ \A k \in 1 .. Len(ref) - n : rest[k] = ref[n + k]
<1>1. Len(ref) \in Nat /\ n \in Nat
  BY LenProperties
<1>2. References!Drop(ref, n) = SubSeq(ref, n + 1, Len(ref))
  BY DEF References!Drop
<1> QED BY <1>1, <1>2

(* One round of the trimming loop. *)
LEMMA TrimsBoth ==
  ASSUME NEW S, NEW ref \in Seq(S), NEW c, NEW d
  PROVE  LET n == References!TrimBoth(ref, c, d)
         IN /\ n \in 0 .. Len(ref)
            /\ \A k \in 1 .. n : ref[k] \in {c, d}
            /\ n = 0 => Len(ref) = 0 \/ ref[1] \notin {c, d}
<1> DEFINE a == References!string_ref_trim_left(ref, c)
           rest == References!Drop(ref, a)
           b == References!string_ref_trim_left(rest, d)
<1>0. Len(ref) \in Nat /\ 0 \in 0 .. Len(ref)
  BY LenProperties
<1>1. References!TrimBoth(ref, c, d) = a + b
  BY DEF References!TrimBoth
<1>2. /\ a \in 0 .. Len(ref) /\ a \in Nat /\ (a = Len(ref) \/ ref[a + 1] \notin {c})
      /\ \A j \in 0 + 1 .. a : ref[j] \in {c}
  BY <1>0, RunEnds DEF References!string_ref_trim_left
<1> HIDE DEF a
<1>3. /\ rest \in Seq(S) /\ Len(rest) = Len(ref) - a
      /\ \A k \in 1 .. Len(ref) - a : rest[k] = ref[a + k]
  BY <1>2, Dropped
<1> HIDE DEF rest
<1>4. /\ b \in 0 .. Len(rest) /\ b \in Nat /\ (b = Len(rest) \/ rest[b + 1] \notin {d})
      /\ \A j \in 0 + 1 .. b : rest[j] \in {d}
  <2>1. 0 \in 0 .. Len(rest)
    BY <1>0, <1>2, <1>3
  <2> QED BY <1>3, <2>1, RunEnds DEF References!string_ref_trim_left
<1> HIDE DEF b
<1>5. a + b \in 0 .. Len(ref)
  BY <1>0, <1>2, <1>3, <1>4
<1>6. ASSUME NEW k \in 1 .. a + b PROVE ref[k] \in {c, d}
  <2>1. CASE k <= a
    <3>1. k \in 0 + 1 .. a
      BY <1>2, <1>4, <2>1
    <3> QED BY <3>1, <1>2
  <2>2. CASE ~(k <= a)
    <3>1. k - a \in 0 + 1 .. b /\ k - a \in 1 .. Len(ref) - a /\ a + (k - a) = k
      BY <1>0, <1>2, <1>3, <1>4, <2>2
    <3>2. rest[k - a] = ref[k] /\ rest[k - a] \in {d}
      BY <3>1, <1>3, <1>4
    <3> QED BY <3>2
  <2> QED BY <2>1, <2>2
<1>7. ASSUME a + b = 0, Len(ref) # 0 PROVE ref[1] \notin {c, d}
  <2>1. a = 0 /\ b = 0 /\ Len(rest) = Len(ref) /\ 1 \in 1 .. Len(ref) - a /\ a + 1 = 1
    BY <1>0, <1>2, <1>3, <1>4, <1>7
  <2>2. ref[1] \notin {c}
    BY <1>2, <1>7, <2>1
  <2>3. rest[1] = ref[1]
    BY <1>3, <2>1
  <2>4. rest[1] \notin {d}
    BY <1>4, <1>7, <2>1
  <2> QED BY <2>2, <2>3, <2>4
<1> QED BY <1>1, <1>5, <1>6, <1>7

(* Texts are sequences of characters. *)
LEMMA TextsAreSequences ==
  ASSUME NEW ref \in References!Texts
  PROVE  ref \in Seq(References!Char) /\ Len(ref) \in Nat /\ DOMAIN ref = 1 .. Len(ref)
<1>1. PICK refs \in {[1 .. n -> References!Char] : n \in 0 .. 6} : ref \in refs
  BY DEF References!Texts
<1>2. PICK n \in 0 .. 6 : refs = [1 .. n -> References!Char]
  BY <1>1
<1> QED BY <1>1, <1>2

(* All blanks and tabs are trimmed: after as many rounds as there are characters, the
   loop is at the end or before something else. *)
LEMMA TrimsAll ==
  ASSUME NEW S, NEW ref \in Seq(S), NEW c, NEW d
  PROVE  LET n == References!string_ref_trim_left_ws(ref, c, d)
         IN /\ n \in 0 .. Len(ref)
            /\ \A k \in 1 .. n : ref[k] \in {c, d}
            /\ n < Len(ref) => ref[n + 1] \notin {c, d}
<1> DEFINE L == Len(ref)
           More(p) == References!TrimBoth(References!Drop(ref, p), c, d)
           Stuck(p) == p = L \/ ref[p + 1] \notin {c, d}
           step == [q \in Nat \X (0 .. L) |-> q[2] + More(q[2])]
           IsSum(g) == g = [i \in 0 .. L |-> IF i = 0 THEN 0 ELSE g[i - 1] + More(g[i - 1])]
           sum == CHOOSE g : IsSum(g)
           Good(i) == /\ sum[i] \in 0 .. L
                      /\ \A k \in 1 .. sum[i] : ref[k] \in {c, d}
                      /\ sum[i] >= i \/ Stuck(sum[i])
           T == {i \in Nat : i <= L => Good(i)}
<1>0. L \in Nat /\ 0 \in 0 .. L
  BY LenProperties
<1>1. References!string_ref_trim_left_ws(ref, c, d) = sum[L]
  BY DEF References!string_ref_trim_left_ws
<1>2. ASSUME NEW p \in 0 .. L
      PROVE  /\ p + More(p) \in 0 .. L /\ More(p) \in Nat
             /\ \A k \in p + 1 .. p + More(p) : ref[k] \in {c, d}
             /\ More(p) = 0 => Stuck(p)
             /\ Stuck(p) => More(p) = 0
  <2> DEFINE rest == References!Drop(ref, p)
             n == References!TrimBoth(rest, c, d)
  <2>1. rest \in Seq(S) /\ Len(rest) = L - p /\ \A k \in 1 .. L - p : rest[k] = ref[p + k]
    BY Dropped
  <2> HIDE DEF rest
  <2>2. /\ n \in 0 .. Len(rest) /\ \A k \in 1 .. n : rest[k] \in {c, d}
        /\ n = 0 => Len(rest) = 0 \/ rest[1] \notin {c, d}
    BY <2>1, TrimsBoth
  <2> HIDE DEF n, L
  <2>3. p + n \in 0 .. L /\ n \in Nat /\ p \in Nat
    BY <1>0, <2>1, <2>2
  <2>4. ASSUME NEW k \in p + 1 .. p + n PROVE ref[k] \in {c, d}
    <3>1. k - p \in 1 .. n /\ k - p \in 1 .. L - p /\ p + (k - p) = k
      BY <1>0, <2>3
    <3>2. rest[k - p] = ref[k] /\ rest[k - p] \in {c, d}
      BY <2>1, <2>2, <3>1
    <3> QED BY <3>2
  <2>5. n = 0 => Stuck(p)
    <3> SUFFICES ASSUME n = 0, p # L PROVE ref[p + 1] \notin {c, d}
      OBVIOUS
    <3>1. 1 \in 1 .. L - p /\ Len(rest) # 0
      BY <1>0, <2>1, <2>3
    <3>2. rest[1] = ref[p + 1]
      BY <2>1, <3>1
    <3>3. rest[1] \notin {c, d}
      BY <2>2, <3>1
    <3> QED BY <3>2, <3>3
  <2>6. Stuck(p) => n = 0
    <3> SUFFICES ASSUME Stuck(p), n # 0 PROVE FALSE
      OBVIOUS
    <3>1. p + 1 \in p + 1 .. p + n /\ p # L
      BY <1>0, <2>3
    <3> QED BY <2>4, <3>1
  <2> QED BY <2>3, <2>4, <2>5, <2>6 DEF n, rest
<1> HIDE DEF More
<1>3. PICK f \in [Nat -> 0 .. L] : f[0] = 0 /\ \A i \in Nat : f[i + 1] = step[<<i, f[i]>>]
  <2>1. step \in [Nat \X (0 .. L) -> 0 .. L]
    BY <1>2
  <2> HIDE DEF step, L
  <2>2. \E f \in [Nat -> 0 .. L] : Iterates(f, 0, step)
    BY <1>0, <2>1, RunExists
  <2> QED BY <2>2 DEF Iterates
<1>4. ASSUME NEW i \in Nat PROVE f[i + 1] = f[i] + More(f[i])
  BY <1>3
<1> HIDE DEF step, L
<1>5. \E g : IsSum(g)
  <2> DEFINE g == [i \in 0 .. L |-> f[i]]
  <2>1. ASSUME NEW i \in 0 .. L, i # 0 PROVE g[i] = g[i - 1] + More(g[i - 1])
    <3>1. i - 1 \in Nat /\ (i - 1) + 1 = i /\ i - 1 \in 0 .. L
      BY <1>0, <2>1
    <3> QED BY <3>1, <1>4
  <2>2. IsSum(g)
    BY <2>1, <1>3
  <2> QED BY <2>2
<1>6. IsSum(sum)
  BY <1>5
<1> HIDE DEF sum
<1>7. sum[0] = 0 /\ \A i \in 1 .. L : sum[i] = sum[i - 1] + More(sum[i - 1])
  <2>1. \A i \in 1 .. L : i \in 0 .. L /\ i # 0
    BY <1>0
  <2> QED BY <1>0, <2>1, <1>6
<1>8. 0 \in T
  <2>1. Good(0)
    BY <1>0, <1>7
  <2> HIDE DEF Good
  <2> QED BY <2>1
<1>9. ASSUME NEW i \in Nat, i \in T PROVE i + 1 \in T
  <2> SUFFICES ASSUME i + 1 <= L PROVE Good(i + 1)
    <3> HIDE DEF Good
    <3> QED OBVIOUS
  <2>1. i + 1 \in 1 .. L /\ (i + 1) - 1 = i /\ i <= L
    BY <1>0
  <2>2. /\ Good(i) /\ sum[i + 1] = sum[i] + More(sum[i])
    BY <2>1, <1>7, <1>9
  <2> DEFINE p == sum[i]
             m == More(p)
  <2>3. /\ p \in 0 .. L /\ \A k \in 1 .. p : ref[k] \in {c, d}
        /\ p >= i \/ Stuck(p)
    BY <2>2
  <2>4. /\ p + m \in 0 .. L /\ m \in Nat
        /\ \A k \in p + 1 .. p + m : ref[k] \in {c, d}
        /\ m = 0 <=> Stuck(p)
    <3> HIDE DEF p, Stuck
    <3> QED BY <1>2, <2>3
  <2>5. sum[i + 1] = p + m
    BY <2>2
  <2> HIDE DEF p, m, Good
  <2>6. p \in Nat
    BY <1>0, <2>3
  <2>7. ASSUME NEW k \in 1 .. p + m PROVE ref[k] \in {c, d}
    <3>1. k \in 1 .. p \/ k \in p + 1 .. p + m
      BY <2>4, <2>6
    <3> QED BY <3>1, <2>3, <2>4
  <2>8. p + m >= i + 1 \/ Stuck(p + m)
    <3>1. CASE Stuck(p)
      <4>1. p + m = p
        <5> HIDE DEF Stuck
        <5> QED BY <2>4, <2>6, <3>1
      <4> QED BY <3>1, <4>1
    <3>2. CASE ~Stuck(p)
      <4> HIDE DEF Stuck
      <4>1. p >= i /\ m >= 1
        BY <2>3, <2>4, <3>2
      <4> QED BY <4>1, <2>4, <2>6
    <3> QED BY <3>1, <3>2
  <2> QED BY <2>4, <2>5, <2>7, <2>8 DEF Good
<1> HIDE DEF T
<1>10. Nat \subseteq T
  BY <1>8, <1>9, SetInduction
<1>11. Good(L)
  <2>1. L \in T /\ L <= L
    BY <1>0, <1>10
  <2> HIDE DEF Good
  <2> QED BY <2>1 DEF T
<1>12. sum[L] < L => ref[sum[L] + 1] \notin {c, d}
  <2> DEFINE p == sum[L]
  <2>1. p \in 0 .. L /\ (p >= L \/ p = L \/ ref[p + 1] \notin {c, d})
    BY <1>11
  <2> HIDE DEF p
  <2>2. p < L => ref[p + 1] \notin {c, d}
    BY <1>0, <2>1
  <2> QED BY <2>2 DEF p
<1> QED BY <1>1, <1>11, <1>12 DEF L

(* string_ref_trim_left_ws leaves no leading blank or tab. *)
LEMMA BlanksAreTrimmed == References!TrimsBlanks
<1> SUFFICES ASSUME NEW ref \in References!Texts,
                    NEW order \in {<<"blank", "tab">>, <<"tab", "blank">>}
             PROVE  LET n == References!string_ref_trim_left_ws(ref, order[1], order[2])
                    IN /\ \A k \in 1 .. n : ref[k] \in {"blank", "tab"}
                       /\ n < Len(ref) => ref[n + 1] \notin {"blank", "tab"}
  BY DEF References!TrimsBlanks
<1>1. \/ order[1] = "blank" /\ order[2] = "tab"
      \/ order[1] = "tab" /\ order[2] = "blank"
  <2>1. \A a, b : <<a, b>>[1] = a /\ <<a, b>>[2] = b
    OBVIOUS
  <2> QED BY <2>1
<1> DEFINE c == order[1]
           d == order[2]
           n == References!string_ref_trim_left_ws(ref, c, d)
<1>2. ref \in Seq(References!Char)
  BY TextsAreSequences
<1>3. (\A k \in 1 .. n : ref[k] \in {c, d}) /\ (n < Len(ref) => ref[n + 1] \notin {c, d})
  <2> HIDE DEF c, d
  <2> QED BY <1>2, TrimsAll
<1>4. \A x : x \in {c, d} <=> x \in {"blank", "tab"}
  BY <1>1
<1> HIDE DEF n, c, d
<1>5. (\A k \in 1 .. n : ref[k] \in {"blank", "tab"}) /\ (n < Len(ref) => ref[n + 1] \notin {"blank", "tab"})
  BY <1>3, <1>4
<1> QED BY <1>5 DEF n, c, d

(* A part of a sequence, position by position. *)
LEMMA SubSeqIs ==
  ASSUME NEW S, NEW ref \in Seq(S), NEW m \in Nat, NEW n \in Nat, m <= n, n <= Len(ref)
  PROVE  SubSeq(ref, m + 1, n) = [i \in 1 .. n - m |-> ref[m + i]]
<1>0. Len(ref) \in Nat
  BY LenProperties
<1>1. /\ SubSeq(ref, m + 1, n) \in Seq(S)
      /\ Len(SubSeq(ref, m + 1, n)) = n - m
      /\ \A i \in 1 .. n - m : SubSeq(ref, m + 1, n)[i] = ref[m + i]
  BY <1>0
<1> DEFINE sub == SubSeq(ref, m + 1, n)
<1>2. DOMAIN sub = 1 .. n - m /\ sub = [i \in DOMAIN sub |-> sub[i]]
  <2> HIDE DEF sub
  <2>1. sub \in Seq(S) /\ Len(sub) = n - m
    BY <1>1 DEF sub
  <2> QED BY <2>1
<1> HIDE DEF sub
<1>3. sub = [i \in 1 .. n - m |-> ref[m + i]]
  BY <1>1, <1>2 DEF sub
<1> QED BY <1>3 DEF sub

(* Splitting off a word: the spaces before it go, and it ends at the end or before a
   space. *)
LEMMA SplitsOnce ==
  ASSUME NEW ref \in Seq(References!Char), NEW p \in 0 .. Len(ref)
  PROVE  LET once == References!string_ref_split_ws_once(References!Drop(ref, p))
         IN \E a, b \in p .. Len(ref) :
              /\ a <= b /\ once.found = (a # b)
              /\ once.token = SubSeq(ref, a + 1, b) /\ once.rest = References!Drop(ref, b)
              /\ \A k \in p + 1 .. a : ref[k] \in References!isspace
              /\ \A k \in a + 1 .. b : ref[k] \notin References!isspace
              /\ b = Len(ref) \/ ref[b + 1] \in References!isspace
              /\ a = b => b = Len(ref)
<1> DEFINE S == References!Char
           space == References!isspace
           L == Len(ref)
           old == References!Drop(ref, p)
           s == References!RunEnd(old, 0, space)
           e == References!RunEnd(old, s, S \ space)
           once == References!string_ref_split_ws_once(old)
<1>0. L \in Nat /\ p \in Nat /\ p <= L
  BY LenProperties
<1>1. old \in Seq(S) /\ Len(old) = L - p /\ \A k \in 1 .. L - p : old[k] = ref[p + k]
  BY Dropped
<1>2. \A k \in 1 .. L : ref[k] \in S
  BY ElementOfSeq
<1>3. once = [token |-> SubSeq(old, s + 1, e), rest |-> References!Drop(old, e), found |-> e # s]
  BY DEF References!string_ref_split_ws_once
<1>4. 0 \in 0 .. Len(old) /\ Len(old) \in Nat
  BY <1>0, <1>1
<1> HIDE DEF S, space, old, once
<1>5. /\ s \in 0 .. Len(old) /\ s \in Nat
      /\ s = Len(old) \/ old[s + 1] \notin space
      /\ \A j \in 0 + 1 .. s : old[j] \in space
  BY <1>1, <1>4, RunEnds
<1> HIDE DEF s
<1>6. /\ e \in s .. Len(old) /\ e \in Nat
      /\ e = Len(old) \/ old[e + 1] \notin S \ space
      /\ \A j \in s + 1 .. e : old[j] \in S \ space
  BY <1>1, <1>4, <1>5, RunEnds
<1> HIDE DEF e, L
<1> DEFINE a == p + s
           b == p + e
<1>7. a \in p .. L /\ b \in p .. L /\ a <= b /\ (a = b <=> e = s)
  <2>1. /\ s \in Nat /\ e \in Nat /\ s <= e /\ e <= L - p
    BY <1>0, <1>1, <1>5, <1>6
  <2> QED BY <1>0, <2>1
<1>8. \A k \in p + 1 .. L : k - p \in 1 .. L - p /\ old[k - p] = ref[k] /\ ref[k] \in S
  <2>1. ASSUME NEW k \in p + 1 .. L
        PROVE  k - p \in 1 .. L - p /\ k \in 1 .. L /\ p + (k - p) = k
    BY <1>0
  <2> QED BY <2>1, <1>1, <1>2
<1>9. ASSUME NEW k \in p + 1 .. a PROVE ref[k] \in space
  <2>1. k \in p + 1 .. L /\ k - p \in 0 + 1 .. s
    BY <1>0, <1>5, <1>7
  <2> QED BY <2>1, <1>5, <1>8
<1>10. ASSUME NEW k \in a + 1 .. b PROVE ref[k] \notin space
  <2>1. k \in p + 1 .. L /\ k - p \in s + 1 .. e
    BY <1>0, <1>5, <1>6, <1>7
  <2> QED BY <2>1, <1>6, <1>8
<1>11. b = L \/ ref[b + 1] \in space
  <2> SUFFICES ASSUME b # L PROVE ref[b + 1] \in space
    OBVIOUS
  <2>1. e # Len(old) /\ b + 1 \in p + 1 .. L /\ (b + 1) - p = e + 1
    BY <1>0, <1>1, <1>6, <1>7
  <2> QED BY <2>1, <1>6, <1>8
<1>12. ASSUME a = b PROVE b = L
  <2> SUFFICES ASSUME b # L PROVE FALSE
    OBVIOUS
  <2>1. e = s /\ s # Len(old) /\ a + 1 \in p + 1 .. L /\ (a + 1) - p = s + 1
    BY <1>0, <1>1, <1>5, <1>6, <1>7, <1>12
  <2>2. ref[a + 1] \in space
    BY <1>11, <1>12
  <2>3. ref[a + 1] \notin space
    BY <2>1, <1>5, <1>8
  <2> QED BY <2>2, <2>3
<1>13. SubSeq(old, s + 1, e) = SubSeq(ref, a + 1, b) /\ References!Drop(old, e) = References!Drop(ref, b)
  <2>1. /\ L - p = Len(old) /\ s + 1 \in Nat /\ e \in Nat /\ s + 1 >= 1 /\ e <= Len(old)
        /\ a + 1 >= 1 /\ b <= L /\ a + 1 \in Nat /\ b \in Nat /\ s <= e
    BY <1>0, <1>1, <1>5, <1>6, <1>7
  <2>2. SubSeq(old, s + 1, e) = SubSeq(ref, a + 1, b)
    <3>1. SubSeq(old, s + 1, e) = [i \in 1 .. e - s |-> old[s + i]]
      <4>1. s \in Nat /\ e \in Nat /\ s <= e /\ e <= Len(old)
        BY <1>5, <2>1
      <4> HIDE DEF old, s, e
      <4> QED BY <1>1, <4>1, SubSeqIs
    <3>2. SubSeq(ref, a + 1, b) = [i \in 1 .. b - a |-> ref[a + i]]
      <4>1. a \in Nat /\ b \in Nat /\ a <= b /\ b <= Len(ref)
        BY <1>0, <1>5, <1>7, <2>1 DEF L
      <4> HIDE DEF a, b
      <4> QED BY <4>1, SubSeqIs
    <3>4. b - a = e - s
      BY <1>0, <1>5, <1>6
    <3>3. \A i \in 1 .. e - s : old[s + i] = ref[a + i]
      <4>1. ASSUME NEW i \in 1 .. e - s PROVE a + i \in p + 1 .. L /\ (a + i) - p = s + i
        BY <1>0, <1>1, <1>5, <1>6, <2>1
      <4> QED BY <4>1, <1>8
    <3> QED BY <3>1, <3>2, <3>3, <3>4
  <2>3. References!Drop(old, e) = References!Drop(ref, b)
    <3>1. SubSeq(old, e + 1, Len(old)) = [i \in 1 .. Len(old) - e |-> old[e + i]]
      BY <1>1, <2>1
    <3>2. SubSeq(ref, b + 1, L) = [i \in 1 .. Len(old) - e |-> ref[b + i]]
      BY <1>0, <2>1 DEF L
    <3>3. \A i \in 1 .. Len(old) - e : old[e + i] = ref[b + i]
      <4>1. ASSUME NEW i \in 1 .. Len(old) - e PROVE b + i \in p + 1 .. L /\ (b + i) - p = e + i
        BY <1>0, <1>1, <1>5, <1>6, <2>1
      <4> QED BY <4>1, <1>8
    <3> QED BY <3>1, <3>2, <3>3 DEF References!Drop, L
  <2> QED BY <2>2, <2>3
<1>14. /\ once.found = (a # b) /\ once.token = SubSeq(ref, a + 1, b)
       /\ once.rest = References!Drop(ref, b)
  BY <1>3, <1>7, <1>13
<1> HIDE DEF a, b
<1>15. \E x, y \in p .. L :
         /\ x <= y /\ once.found = (x # y)
         /\ once.token = SubSeq(ref, x + 1, y) /\ once.rest = References!Drop(ref, y)
         /\ \A k \in p + 1 .. x : ref[k] \in space
         /\ \A k \in x + 1 .. y : ref[k] \notin space
         /\ y = L \/ ref[y + 1] \in space
         /\ x = y => y = L
  BY <1>7, <1>9, <1>10, <1>11, <1>12, <1>14
<1> QED BY <1>15 DEF once, old, space, L

(* Splitting off a word from any reference gives a word and a reference. *)
LEMMA SplitOffStays ==
  ASSUME NEW words \in Seq(Seq(References!Char)), NEW rest \in Seq(References!Char)
  PROVE  References!SplitOff(words, rest)
           \in Seq(Seq(References!Char)) \X Seq(References!Char)
<1> DEFINE once == References!string_ref_split_ws_once(References!Drop(rest, 0))
<1>0. Len(rest) \in Nat /\ 0 \in 0 .. Len(rest)
  BY LenProperties
<1>1. References!Drop(rest, 0) = rest
  BY <1>0, SubSeqIs, LenProperties DEF References!Drop
<1>2. PICK a, b \in 0 .. Len(rest) :
        /\ a <= b
        /\ once.token = SubSeq(rest, a + 1, b) /\ once.rest = References!Drop(rest, b)
  BY <1>0, SplitsOnce
<1>3. once.token \in Seq(References!Char) /\ once.rest \in Seq(References!Char)
  <2>1. SubSeq(rest, a + 1, b) \in Seq(References!Char)
    BY <1>0, <1>2
  <2>2. References!Drop(rest, b) \in Seq(References!Char)
    BY Dropped
  <2> QED BY <1>2, <2>1, <2>2
<1> HIDE DEF once
<1>4. References!SplitOff(words, rest)
        = <<IF once.found THEN Append(words, once.token) ELSE words, once.rest>>
  BY <1>1 DEF References!SplitOff, once
<1>5. Append(words, once.token) \in Seq(Seq(References!Char))
  BY <1>3, AppendProperties
<1>6. /\ once.found => References!SplitOff(words, rest) = <<Append(words, once.token), once.rest>>
      /\ ~once.found => References!SplitOff(words, rest) = <<words, once.rest>>
  BY <1>4
<1> DEFINE W == Seq(Seq(References!Char))
           R == Seq(References!Char)
<1>7. words \in W /\ Append(words, once.token) \in W /\ once.rest \in R
  BY <1>3, <1>5
<1> HIDE DEF W, R
<1>8. \A x \in W : <<x, once.rest>> \in W \X R
  BY <1>7
<1>9. References!SplitOff(words, rest) \in W \X R
  BY <1>6, <1>7, <1>8
<1> QED BY <1>9 DEF W, R

(* The word that starts at k goes on to the end or to the next space. *)
LEMMA WordEnds ==
  ASSUME NEW ref \in Seq(References!Char), NEW k \in 1 .. Len(ref), NEW b \in k .. Len(ref),
         \A i \in k .. b : ref[i] \notin References!isspace,
         b = Len(ref) \/ ref[b + 1] \in References!isspace
  PROVE  References!WordFrom(ref, k) = SubSeq(ref, k, b)
<1> DEFINE Reach == {j \in k .. Len(ref) : \A i \in k .. j : ref[i] \notin References!isspace}
           top == CHOOSE x \in Reach : \A y \in Reach : x >= y
<1>0. Len(ref) \in Nat /\ k \in Nat /\ b \in Nat /\ k <= b /\ b <= Len(ref)
  BY LenProperties
<1>1. b \in Reach
  OBVIOUS
<1>2. ASSUME NEW j \in Reach PROVE j <= b
  <2> SUFFICES ASSUME ~(j <= b) PROVE FALSE
    OBVIOUS
  <2>1. j \in Nat /\ b + 1 \in k .. j /\ b # Len(ref)
    BY <1>0
  <2> QED BY <2>1
<1>3. top \in Reach /\ \A y \in Reach : top >= y
  <2>1. \A y \in Reach : b >= y
    BY <1>0, <1>2
  <2> HIDE DEF Reach
  <2> QED BY <1>1, <2>1
<1> HIDE DEF top
<1>4. top = b
  <2>1. top \in Nat /\ top <= b /\ top >= b
    BY <1>0, <1>1, <1>2, <1>3
  <2> QED BY <1>0, <2>1
<1>5. References!WordFrom(ref, k) = SubSeq(ref, k, top)
  BY DEF References!WordFrom, References!Sets!Max, top
<1> QED BY <1>4, <1>5

(* The words that start at position p or before. *)
WordsUpTo(ref, p) == {k \in References!WordStarts(ref) : k <= p}

(* Cut before position p + 1, ref has given its words up to there. *)
CutAt(ref, words, p) ==
  /\ words \in Seq(Seq(References!Char)) /\ p \in 0 .. Len(ref)
  /\ p = 0 \/ p = Len(ref) \/ ref[p + 1] \in References!isspace
  /\ Len(words) = Cardinality(WordsUpTo(ref, p))
  /\ \A k \in WordsUpTo(ref, p) :
       words[Cardinality(WordsUpTo(ref, k))] = References!WordFrom(ref, k)

(* These words can be counted. *)
LEMMA WordsAreFinite ==
  ASSUME NEW ref \in Seq(References!Char), NEW p \in 0 .. Len(ref)
  PROVE  /\ IsFiniteSet(WordsUpTo(ref, p)) /\ Cardinality(WordsUpTo(ref, p)) \in Nat
         /\ WordsUpTo(ref, p) \subseteq 1 .. Len(ref)
         /\ \A k \in WordsUpTo(ref, p) :
              /\ WordsUpTo(ref, k) \subseteq WordsUpTo(ref, p) /\ k \in WordsUpTo(ref, k)
              /\ Cardinality(WordsUpTo(ref, k)) \in 1 .. Cardinality(WordsUpTo(ref, p))
<1>0. Len(ref) \in Nat /\ DOMAIN ref = 1 .. Len(ref)
  BY LenProperties
<1>1. ASSUME NEW m \in Nat
      PROVE  /\ WordsUpTo(ref, m) \subseteq 1 .. Len(ref) /\ IsFiniteSet(WordsUpTo(ref, m))
             /\ Cardinality(WordsUpTo(ref, m)) \in Nat
  <2>1. IsFiniteSet(1 .. Len(ref))
    BY <1>0, FS_Interval
  <2>2. WordsUpTo(ref, m) \subseteq 1 .. Len(ref)
    BY <1>0 DEF WordsUpTo, References!WordStarts
  <2>3. IsFiniteSet(WordsUpTo(ref, m))
    BY <2>1, <2>2, FS_Subset
  <2> QED BY <2>2, <2>3, FS_CardinalityType
<1>2. ASSUME NEW k \in WordsUpTo(ref, p)
      PROVE  /\ WordsUpTo(ref, k) \subseteq WordsUpTo(ref, p) /\ k \in WordsUpTo(ref, k)
             /\ Cardinality(WordsUpTo(ref, k)) \in 1 .. Cardinality(WordsUpTo(ref, p))
  <2>1. k \in Nat /\ p \in Nat /\ k <= p
    <3>1. p \in Nat
      BY <1>0
    <3>2. k \in 1 .. Len(ref)
      BY <3>1, <1>1
    <3>3. k <= p
      BY DEF WordsUpTo
    <3> QED BY <1>0, <3>1, <3>2, <3>3
  <2>2. WordsUpTo(ref, k) \subseteq WordsUpTo(ref, p) /\ k \in WordsUpTo(ref, k)
    <3>1. k \in References!WordStarts(ref)
      BY DEF WordsUpTo
    <3>2. \A j \in References!WordStarts(ref) : j \in Nat
      BY <1>0 DEF References!WordStarts
    <3>3. ASSUME NEW j \in References!WordStarts(ref), j <= k PROVE j <= p
      BY <2>1, <3>2, <3>3
    <3>4. k <= k
      BY <2>1
    <3> QED BY <3>1, <3>3, <3>4 DEF WordsUpTo
  <2>3. Cardinality(WordsUpTo(ref, k)) <= Cardinality(WordsUpTo(ref, p))
    BY <2>1, <2>2, <1>1, FS_Subset
  <2>4. Cardinality(WordsUpTo(ref, k)) # 0
    BY <2>1, <2>2, <1>1, FS_EmptySet
  <2>5. Cardinality(WordsUpTo(ref, k)) \in Nat /\ Cardinality(WordsUpTo(ref, p)) \in Nat
    BY <2>1, <1>1
  <2>6. Cardinality(WordsUpTo(ref, k)) \in 1 .. Cardinality(WordsUpTo(ref, p))
    <3> DEFINE few == Cardinality(WordsUpTo(ref, k))
               many == Cardinality(WordsUpTo(ref, p))
    <3> HIDE DEF few, many
    <3>1. few \in Nat /\ many \in Nat /\ few # 0 /\ few <= many
      BY <2>3, <2>4, <2>5 DEF few, many
    <3>2. few \in 1 .. many
      BY <3>1
    <3> QED BY <3>2 DEF few, many
  <2> QED BY <2>2, <2>6
<1>3. /\ IsFiniteSet(WordsUpTo(ref, p)) /\ Cardinality(WordsUpTo(ref, p)) \in Nat
      /\ WordsUpTo(ref, p) \subseteq 1 .. Len(ref)
  BY <1>0, <1>1
<1> QED BY <1>2, <1>3

(* A round that splits off a word leaves the reference cut at a later place, or at its end. *)
LEMMA CutsOnce ==
  ASSUME NEW ref \in Seq(References!Char), NEW words, NEW p \in 0 .. Len(ref)
  PROVE  LET cut == References!SplitOff(words, References!Drop(ref, p))
         IN CutAt(ref, words, p) =>
            \E q \in p .. Len(ref) : /\ cut[2] = References!Drop(ref, q) /\ CutAt(ref, cut[1], q)
                                     /\ q > p \/ q = Len(ref)
<1> DEFINE space == References!isspace
           Starts == References!WordStarts(ref)
           old == References!Drop(ref, p)
           once == References!string_ref_split_ws_once(old)
           cut == References!SplitOff(words, old)
           Card(m) == Cardinality(WordsUpTo(ref, m))
           Cuts(q) == cut[2] = References!Drop(ref, q) /\ CutAt(ref, cut[1], q)
<1>a. SUFFICES ASSUME CutAt(ref, words, p)
              PROVE  \E q \in p .. Len(ref) : Cuts(q) /\ (q > p \/ q = Len(ref))
  BY DEF cut, old
<1>0. Len(ref) \in Nat /\ p \in Nat /\ p <= Len(ref)
  BY LenProperties
<1>1. PICK a, b \in p .. Len(ref) :
        /\ a <= b /\ once.found = (a # b)
        /\ once.token = SubSeq(ref, a + 1, b) /\ once.rest = References!Drop(ref, b)
        /\ \A k \in p + 1 .. a : ref[k] \in space
        /\ \A k \in a + 1 .. b : ref[k] \notin space
        /\ b = Len(ref) \/ ref[b + 1] \in space
        /\ a = b => b = Len(ref)
  BY <1>0, SplitsOnce
<1>2. cut = <<IF a # b THEN Append(words, once.token) ELSE words, References!Drop(ref, b)>>
  BY <1>1 DEF References!SplitOff
<1> HIDE DEF once, old, Starts, space, cut
<1>3. /\ a \in Nat /\ b \in Nat /\ p <= a /\ a <= b /\ b <= Len(ref) /\ b \in 0 .. Len(ref)
      /\ (b > p \/ b = Len(ref))
  <2>1. a \in p .. Len(ref) /\ b \in p .. Len(ref) /\ a <= b /\ (a = b => b = Len(ref))
    BY <1>1
  <2> QED BY <1>0, <2>1
<1>4. words \in Seq(Seq(References!Char)) /\ Len(words) = Card(p) /\ Card(p) \in Nat
  BY <1>a, <1>0, WordsAreFinite DEF CutAt
<1>5. \A k \in Starts : k \in 1 .. Len(ref) /\ ref[k] \notin space /\ (k = 1 \/ ref[k - 1] \in space)
  BY LenProperties DEF References!WordStarts, Starts, space
<1>6. CASE a = b
  <2>1. WordsUpTo(ref, b) = WordsUpTo(ref, p)
    <3>1. ASSUME NEW k \in Starts PROVE k <= b <=> k <= p
      <4>1. k \notin p + 1 .. a
        BY <1>1, <1>5
      <4> QED BY <4>1, <1>0, <1>3, <1>5, <1>6
    <3> QED BY <3>1 DEF WordsUpTo, Starts
  <2>2. b = Len(ref)
    BY <1>1, <1>6
  <2>3. CutAt(ref, words, b)
    BY <1>a, <1>3, <2>1, <2>2 DEF CutAt
  <2>4. cut[1] = words /\ cut[2] = References!Drop(ref, b)
    BY <1>2, <1>6
  <2> QED BY <1>3, <2>3, <2>4
<1>7. CASE a # b
  <2> DEFINE k0 == a + 1
             new == Append(words, SubSeq(ref, a + 1, b))
  <2>1. k0 \in 1 .. Len(ref) /\ k0 \in Nat /\ p < k0 /\ k0 <= b /\ b \in k0 .. Len(ref)
    BY <1>0, <1>3, <1>7
  <2>2. k0 \in Starts
    <3>1. ref[k0] \notin space
      <4>1. k0 \in a + 1 .. b
        BY <1>3, <2>1
      <4> QED BY <4>1, <1>1
    <3>2. k0 = 1 \/ ref[k0 - 1] \in space
      <4>1. CASE a = p
        <5>1. CASE p = 0
          BY <4>1, <5>1
        <5>2. CASE p # 0
          <6>1. ref[p + 1] \in space
            <7>1. p # Len(ref)
              BY <1>0, <1>3, <1>7, <4>1
            <7> QED BY <1>a, <5>2, <7>1 DEF CutAt, space
          <6> QED BY <6>1, <3>1, <4>1
        <5> QED BY <5>1, <5>2
      <4>2. CASE a # p
        <5>1. k0 - 1 \in p + 1 .. a
          BY <1>0, <1>3, <4>2
        <5> QED BY <5>1, <1>1
      <4> QED BY <4>1, <4>2
    <3> QED BY <2>1, <3>1, <3>2, LenProperties DEF Starts, References!WordStarts, space
  <2>3. ASSUME NEW k \in Starts, k <= b, ~(k <= p) PROVE k = k0
    <3>1. k \notin p + 1 .. a
      BY <1>1, <1>5
    <3>2. k \in a + 1 .. b
      BY <3>1, <2>3, <1>0, <1>3, <1>5
    <3>3. k # k0 => k - 1 \in a + 1 .. b /\ k # 1
      BY <3>2, <1>3
    <3>4. k # 1 => ref[k - 1] \in space
      BY <1>5
    <3> QED BY <3>3, <3>4, <1>1
  <2>4. ASSUME NEW m \in Nat, k0 <= m, m <= b
        PROVE  WordsUpTo(ref, m) = WordsUpTo(ref, p) \cup {k0}
    <3>1. ASSUME NEW k \in Starts PROVE k <= m <=> k <= p \/ k = k0
      <4>1. k \in Nat
        BY <1>5
      <4> QED BY <4>1, <2>1, <2>3, <2>4, <1>0, <1>3
    <3> QED BY <3>1, <2>2 DEF WordsUpTo, Starts
  <2>5. Card(b) = Card(p) + 1 /\ Card(k0) = Card(p) + 1
    <3>1. k0 \notin WordsUpTo(ref, p) /\ IsFiniteSet(WordsUpTo(ref, p))
      BY <2>1, <1>0, WordsAreFinite DEF WordsUpTo
    <3>2. Cardinality(WordsUpTo(ref, p) \cup {k0}) = Card(p) + 1
      BY <3>1, FS_AddElement
    <3>3. WordsUpTo(ref, b) = WordsUpTo(ref, p) \cup {k0}
      BY <2>1, <2>4, <1>3
    <3>4. WordsUpTo(ref, k0) = WordsUpTo(ref, p) \cup {k0}
      <4>1. k0 <= k0
        BY <2>1
      <4> QED BY <4>1, <2>1, <2>4
    <3> QED BY <3>2, <3>3, <3>4
  <2>6. SubSeq(ref, a + 1, b) \in Seq(References!Char)
    BY <1>0, <1>3
  <2>7. /\ new \in Seq(Seq(References!Char)) /\ Len(new) = Card(p) + 1
        /\ new[Card(p) + 1] = SubSeq(ref, a + 1, b)
        /\ \A i \in 1 .. Card(p) : new[i] = words[i]
    BY <1>4, <2>6, AppendProperties
  <2>8. References!WordFrom(ref, k0) = SubSeq(ref, a + 1, b)
    BY <1>1, <2>1, WordEnds DEF space
  <2> HIDE DEF new
  <2>9. ASSUME NEW k \in WordsUpTo(ref, b) PROVE new[Card(k)] = References!WordFrom(ref, k)
    <3>1. k \in WordsUpTo(ref, p) \/ k = k0
      BY <2>1, <2>4, <2>9, <1>3
    <3>2. CASE k \in WordsUpTo(ref, p)
      <4>1. Card(k) \in 1 .. Card(p)
        BY <3>2, <1>0, WordsAreFinite
      <4>2. words[Card(k)] = References!WordFrom(ref, k)
        BY <1>a, <3>2 DEF CutAt
      <4> QED BY <4>1, <4>2, <2>7
    <3>3. CASE k = k0
      BY <3>3, <2>5, <2>7, <2>8
    <3> QED BY <3>1, <3>2, <3>3
  <2>10. CutAt(ref, new, b)
    BY <1>1, <1>3, <2>5, <2>7, <2>9 DEF CutAt, space
  <2>11. cut[1] = new /\ cut[2] = References!Drop(ref, b)
    BY <1>1, <1>2, <1>7 DEF new
  <2> QED BY <1>3, <2>10, <2>11
<1> QED BY <1>6, <1>7

(* Splitting goes on until the end of the string: after as many rounds as there are
   characters, every word has been split off. *)
LEMMA CutsAll ==
  ASSUME NEW ref \in Seq(References!Char)
  PROVE  CutAt(ref, References!Split(ref), Len(ref))
<1> DEFINE L == Len(ref)
           S == Seq(Seq(References!Char)) \X Seq(References!Char)
           first == << <<>>, ref>>
           step == [q \in Nat \X S |-> References!SplitOff(q[2][1], q[2][2])]
           IsCut(g) == g = [i \in 0 .. L |->
                              IF i = 0 THEN first ELSE References!SplitOff(g[i - 1][1], g[i - 1][2])]
           cut == CHOOSE g : IsCut(g)
           At(x, p) == x[2] = References!Drop(ref, p) /\ CutAt(ref, x[1], p)
           Good(i) == \E p \in i .. L : At(cut[i], p)
           T == {i \in Nat : i <= L => Good(i)}
<1>0. L \in Nat /\ 0 \in 0 .. L
  BY LenProperties
<1>1. References!Split(ref) = cut[L][1]
  BY DEF References!Split
<1>2. step \in [Nat \X S -> S]
  <2>1. ASSUME NEW words \in Seq(Seq(References!Char)), NEW rest \in Seq(References!Char)
        PROVE  References!SplitOff(words, rest) \in S
    BY <2>1, SplitOffStays
  <2>2. \A q \in Nat \X S : /\ q[2][1] \in Seq(Seq(References!Char))
                             /\ q[2][2] \in Seq(References!Char)
    OBVIOUS
  <2> HIDE DEF S
  <2> QED BY <2>1, <2>2
<1>3. first \in S
  <2>1. <<>> \in Seq(Seq(References!Char))
    BY EmptySeq
  <2> QED BY <2>1
<1> HIDE DEF S
<1>4. PICK f \in [Nat -> S] : f[0] = first /\ \A i \in Nat : f[i + 1] = step[<<i, f[i]>>]
  <2> HIDE DEF step, first
  <2>1. \E f \in [Nat -> S] : Iterates(f, first, step)
    BY <1>2, <1>3, RunExists
  <2> QED BY <2>1 DEF Iterates
<1>5. ASSUME NEW i \in Nat PROVE f[i + 1] = References!SplitOff(f[i][1], f[i][2])
  <2>1. <<i, f[i]>> \in Nat \X S
    OBVIOUS
  <2> QED BY <2>1, <1>4
<1> HIDE DEF step, L, first
<1>6. \E g : IsCut(g)
  <2> DEFINE g == [i \in 0 .. L |-> f[i]]
  <2>1. ASSUME NEW i \in 0 .. L, i # 0
        PROVE  g[i] = References!SplitOff(g[i - 1][1], g[i - 1][2])
    <3>1. i - 1 \in Nat /\ (i - 1) + 1 = i /\ i - 1 \in 0 .. L
      BY <1>0, <2>1
    <3> QED BY <3>1, <1>5
  <2>2. IsCut(g)
    BY <2>1, <1>4
  <2> QED BY <2>2
<1>7. IsCut(cut)
  BY <1>6
<1> HIDE DEF cut
<1>8. cut[0] = first /\ \A i \in 1 .. L : cut[i] = References!SplitOff(cut[i - 1][1], cut[i - 1][2])
  <2>1. \A i \in 1 .. L : i \in 0 .. L /\ i # 0
    BY <1>0
  <2> QED BY <1>0, <2>1, <1>7
<1>9. 0 \in T
  <2>1. first[1] = <<>> /\ first[2] = ref
    BY DEF first
  <2>2. References!Drop(ref, 0) = ref
    BY SubSeqIs, LenProperties DEF References!Drop
  <2>3. WordsUpTo(ref, 0) = {}
    <3>1. ASSUME NEW k \in WordsUpTo(ref, 0) PROVE FALSE
      BY LenProperties DEF WordsUpTo, References!WordStarts
    <3> QED BY <3>1
  <2>4. Cardinality({}) = 0
    BY FS_EmptySet
  <2>5. CutAt(ref, <<>>, 0)
    <3>1. <<>> \in Seq(Seq(References!Char)) /\ Len(<<>>) = 0
      BY EmptySeq
    <3> QED BY <1>0, <2>3, <2>4, <3>1 DEF CutAt, L
  <2>6. At(cut[0], 0)
    BY <1>8, <2>1, <2>2, <2>5
  <2> HIDE DEF At
  <2>7. Good(0)
    BY <1>0, <2>6
  <2> QED BY <2>7
<1>10. ASSUME NEW i \in Nat, i \in T PROVE i + 1 \in T
  <2> SUFFICES ASSUME i + 1 <= L PROVE Good(i + 1)
    <3> HIDE DEF Good
    <3> QED OBVIOUS
  <2>1. i + 1 \in 1 .. L /\ (i + 1) - 1 = i /\ i <= L
    BY <1>0
  <2>2. PICK p \in i .. L : At(cut[i], p)
    BY <2>1, <1>10
  <2>3. cut[i + 1] = References!SplitOff(cut[i][1], References!Drop(ref, p))
    BY <1>8, <2>1, <2>2
  <2>4. CutAt(ref, cut[i][1], p)
    BY <2>2
  <2>5. PICK q \in p .. L : /\ cut[i + 1][2] = References!Drop(ref, q) /\ CutAt(ref, cut[i + 1][1], q)
                            /\ q > p \/ q = L
    <3> DEFINE words == cut[i][1]
    <3> HIDE DEF words
    <3>0. p \in 0 .. Len(ref)
      BY <1>0 DEF L
    <3>1. \E q \in p .. Len(ref) :
            /\ References!SplitOff(words, References!Drop(ref, p))[2] = References!Drop(ref, q)
            /\ CutAt(ref, References!SplitOff(words, References!Drop(ref, p))[1], q)
            /\ q > p \/ q = Len(ref)
      BY <3>0, <2>4, CutsOnce DEF words
    <3> QED BY <2>3, <3>1 DEF words, L
  <2>6. q \in i + 1 .. L
    <3>1. q \in p .. L /\ (q > p \/ q = L)
      BY <2>5
    <3>2. p \in i .. L
      BY <2>2
    <3> QED BY <1>0, <2>1, <3>1, <3>2
  <2>7. At(cut[i + 1], q)
    BY <2>5
  <2> HIDE DEF At
  <2> QED BY <2>6, <2>7
<1> HIDE DEF T
<1>11. Nat \subseteq T
  BY <1>9, <1>10, SetInduction
<1>12. Good(L)
  <2>1. L \in T /\ L <= L
    BY <1>0, <1>11
  <2> HIDE DEF Good
  <2> QED BY <2>1 DEF T
<1>13. CutAt(ref, cut[L][1], L)
  <2>1. PICK p \in L .. L : CutAt(ref, cut[L][1], p)
    BY <1>12
  <2>2. p = L
    BY <1>0
  <2> QED BY <2>1, <2>2
<1> QED BY <1>1, <1>13 DEF L

(* StringRefs counts with the same operator as this module. *)
LEMMA CountsTheSame ==
  ASSUME NEW S PROVE References!Cardinality(S) = Cardinality(S)
BY DEF References!Cardinality, Cardinality

(* string_ref_split_ws_once cuts every text into its words. *)
LEMMA TextsAreSplit == References!SplitsWords
<1> DEFINE Starts(ref) == References!WordStarts(ref)
           Splits(ref) ==
             /\ Len(References!Split(ref)) = Cardinality(Starts(ref))
             /\ \A k \in Starts(ref) :
                  References!Split(ref)[Cardinality({j \in Starts(ref) : j <= k})]
                    = References!WordFrom(ref, k)
<1>1. ASSUME NEW ref \in References!Texts PROVE Splits(ref)
  <2>1. ref \in Seq(References!Char) /\ Len(ref) \in Nat /\ DOMAIN ref = 1 .. Len(ref)
    BY TextsAreSequences
  <2>2. CutAt(ref, References!Split(ref), Len(ref))
    BY <2>1, CutsAll
  <2>3. WordsUpTo(ref, Len(ref)) = Starts(ref)
    <3>1. ASSUME NEW k \in Starts(ref) PROVE k <= Len(ref)
      BY <2>1 DEF References!WordStarts
    <3> QED BY <3>1 DEF WordsUpTo
  <2>4. Len(References!Split(ref)) = Cardinality(Starts(ref))
    BY <2>2, <2>3 DEF CutAt
  <2>5. ASSUME NEW k \in Starts(ref)
        PROVE  References!Split(ref)[Cardinality(WordsUpTo(ref, k))] = References!WordFrom(ref, k)
    BY <2>2, <2>3 DEF CutAt
  <2>6. \A k : WordsUpTo(ref, k) = {j \in Starts(ref) : j <= k}
    BY DEF WordsUpTo
  <2>7. ASSUME NEW k \in Starts(ref)
        PROVE  References!Split(ref)[Cardinality({j \in Starts(ref) : j <= k})]
                 = References!WordFrom(ref, k)
    BY <2>5, <2>6
  <2> QED BY <2>4, <2>7
<1>2. ASSUME NEW ref \in References!Texts
      PROVE  /\ Len(References!Split(ref)) = References!Cardinality(Starts(ref))
             /\ \A k \in Starts(ref) :
                  References!Split(ref)[References!Cardinality({j \in Starts(ref) : j <= k})]
                    = References!WordFrom(ref, k)
  BY <1>1, CountsTheSame, Zenon
<1> QED BY <1>2, Zenon DEF References!SplitsWords

(***************************************************************************)
(* The theorem.                                                            *)
(***************************************************************************)

(***************************************************************************)
(* The strings with their references, and the parts together.              *)
(***************************************************************************)
(* The strings of str.c hold what was put into them, within their capacity, and what
   is trimmed and split off their references is what the definitions say. *)
THEOREM StringsHold == Text!Spec => []StringsOK
<1>1. StringsInv => StringsOK
  BY HeldByStrings, BlanksAreTrimmed, TextsAreSplit DEF StringsOK
<1> QED BY <1>1, StringsKept, PTL

(* The parts share no state: what one does, it does alone. *)
THEOREM EachPartAlone ==
  PartsSpec => /\ Spec /\ Ring!Spec /\ Table!Spec /\ Memory!Spec
               /\ List!Spec /\ Text!Spec
<1>1. PartsInit => /\ Init /\ Ring!Init /\ Table!Init /\ Memory!Init
                   /\ List!Init /\ Text!Init
  BY DEF PartsInit
<1>2. [PartsNext]_allVars =>
        /\ [Next]_schedulerVars /\ [Ring!Next]_ringVars /\ [Table!Next]_tableVars
        /\ [Memory!Next]_memoryVars /\ [List!Next]_listVars /\ [Text!Next]_textVars
  BY DEF PartsNext, allVars, RingStep, TableStep, MemoryStep, ListStep, TextStep, SchedulerStep
<1> QED BY <1>1, <1>2, PTL
    DEF PartsSpec, Spec, Ring!Spec, Table!Spec, Memory!Spec, List!Spec, Text!Spec,
        Ring!vars, Table!vars, List!list, Text!vars, ringVars, tableVars,
        memoryVars, listVars, textVars, schedulerVars

(* So whatever part a behaviour exercises, every part is correct. *)
THEOREM PartsAreCorrect ==
  PartsSpec => /\ [](RingOK /\ TableOK /\ ArenaOK /\ ListOK /\ StringsOK /\ PackOK)
               /\ ImplementsDeque /\ ImplementsMap
BY EachPartAlone, RingCorrect, RingImplementsDeque, TableCorrect, TableImplementsMap,
   ArenaGivesOnce, ListLinked, StringsHold, BuffersOK, PTL
==============================================================================
