------------------------------ MODULE RingQueue ------------------------------
(***************************************************************************)
(* The circular queue of storage.h (the queue_* macros), on which both     *)
(* schedulers keep their runnable coroutines.                              *)
(*                                                                         *)
(* elems is the realloc'ed array, start and end are the indices the macros *)
(* move, and one cell is always left unused: start = end means empty.  The *)
(* cells that realloc adds are uninitialised, which is the value Junk; a   *)
(* popped cell keeps what it held.                                         *)
(*                                                                         *)
(* A definition marked "mutant" is a plausible mistake in the definition   *)
(* that follows it.  Nothing uses it: it is there to see that a property   *)
(* fails when it replaces the right one.                                   *)
(***************************************************************************)
EXTENDS Integers, Sequences

CONSTANTS
  Elem,      \* the values pushed
  Junk,      \* the content of an uninitialised cell
  Growth,    \* the constant 10 of "new_cap = cap * 2 + 10"
  MaxCap     \* bound: no push is modelled that would make cap exceed it

RingAssumption ==
  /\ Junk \notin Elem
  /\ Growth \in Nat \ {0, 1}
  /\ MaxCap \in Nat

VARIABLES elems, start, end, cap
vars == <<elems, start, end, cap>>

(* The queue with its array and its three indices as a value, so that a push
   can expand it first. *)
Queue == [elems |-> elems, start |-> start, end |-> end, cap |-> cap]

WellFormed(q) ==
  /\ q.cap \in Nat
  /\ q.elems \in [0 .. q.cap - 1 -> Elem \cup {Junk}]
  /\ IF q.cap = 0 THEN q.start = 0 /\ q.end = 0
                  ELSE q.start \in 0 .. q.cap - 1 /\ q.end \in 0 .. q.cap - 1

TypeOK == WellFormed(Queue)

Init == cap = 0 /\ start = 0 /\ end = 0 /\ elems = [i \in 0 .. -1 |-> Junk]

------------------------------------------------------------------------------
(* __queue_next and __queue_prev *)
QueueNextUnwrapped(x, c) == x + 1                                \* mutant
QueueNext(x, c) == (x + 1) % c
QueuePrev(x, c) == IF x = 0 THEN c - 1 ELSE x - 1

(* __queue_expand: realloc keeps the old cells; when the contents wrap around
   the end of the array, the part at its beginning is moved behind the old
   capacity. *)
ExpandWithoutMove(q) ==                                          \* mutant
  [elems |-> [i \in 0 .. q.cap * 2 + Growth - 1 |->
                IF i < q.cap THEN q.elems[i] ELSE Junk],
   start |-> q.start,
   end   |-> IF q.end < q.start THEN q.cap + q.end ELSE q.end,
   cap   |-> q.cap * 2 + Growth]

Expand(q) ==
  LET newCap == q.cap * 2 + Growth
      wraps  == q.end < q.start
  IN [elems |-> [i \in 0 .. newCap - 1 |->
                   IF i < q.cap THEN q.elems[i]
                   ELSE IF wraps /\ i < q.cap + q.end THEN q.elems[i - q.cap]
                   ELSE Junk],
      start |-> q.start,
      end   |-> IF wraps THEN (q.cap + q.end) % newCap ELSE q.end,
      cap   |-> newCap]

(* The first statement of both pushes. *)
Allocated(q) == IF q.cap = 0 THEN Expand(q) ELSE q

RoomAtBack(q) ==
  IF QueueNext(q.end, q.cap) = q.start THEN Expand(q) ELSE q

NoCheckAtFront(q) == q                                           \* mutant
RoomAtFront(q) ==
  IF QueuePrev(q.start, q.cap) = q.end THEN Expand(q) ELSE q

(* The last two statements of the pushes. *)
StoredAtBack(q, e) ==
  [elems |-> [q.elems EXCEPT ![q.end] = e],
   start |-> q.start, end |-> QueueNext(q.end, q.cap), cap |-> q.cap]

StoredAtFront(q, e) ==
  LET s == QueuePrev(q.start, q.cap)
  IN [elems |-> [q.elems EXCEPT ![s] = e],
      start |-> s, end |-> q.end, cap |-> q.cap]

Become(q) ==
  /\ q.cap <= MaxCap
  /\ elems' = q.elems /\ start' = q.start /\ end' = q.end /\ cap' = q.cap

PushBack(e)  == Become(StoredAtBack(RoomAtBack(Allocated(Queue)), e))
PushFront(e) == Become(StoredAtFront(RoomAtFront(Allocated(Queue)), e))

(* The pops assert start # end ("Underflow"); an abort is no step. *)
PopFront ==
  /\ start # end
  /\ start' = QueueNext(start, cap)
  /\ UNCHANGED <<elems, end, cap>>

PopBack ==
  /\ start # end
  /\ end' = QueuePrev(end, cap)
  /\ UNCHANGED <<elems, start, cap>>

Next == \/ \E e \in Elem : PushBack(e) \/ PushFront(e)
        \/ PopFront
        \/ PopBack

Spec == Init /\ [][Next]_vars

------------------------------------------------------------------------------
(* The number of elements, the cell of the i-th of them (1 is the front), and
   the elements in order. *)
Count(q)   == IF q.end >= q.start THEN q.end - q.start ELSE q.end - q.start + q.cap
Cell(q, i) == IF q.start + i - 1 < q.cap THEN q.start + i - 1
                                         ELSE q.start + i - 1 - q.cap
Contents(q) == [i \in 1 .. Count(q) |-> q.elems[Cell(q, i)]]

(* The ring is a double-ended queue: every push adds the element at its end
   and keeps the others in order, also when it grows the array or wraps, and
   every pop removes the element at its end. *)
Abstract == INSTANCE Deque WITH deque <- Contents(Queue)
ImplementsDeque == Abstract!Spec

(* No element of the queue is ever a cell nobody wrote: what peek and pop
   read was pushed. *)
NoJunkInside == \A i \in 1 .. Count(Queue) : Contents(Queue)[i] \in Elem

(* verify_queue of graph_scheduler.c, compiled under DEBUG, asserts that the
   start index never passes the end index: "q->start <= q->end". *)
VerifyQueueOrdered == start <= end
==============================================================================
