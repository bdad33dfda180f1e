-------------------------------- MODULE Deque --------------------------------
(***************************************************************************)
(* What the queue macros of storage.h promise to their users: a            *)
(* double-ended queue.  Nothing here is translated from the code; RingQueue *)
(* is, and is shown to implement this module.                              *)
(***************************************************************************)
EXTENDS Sequences, Integers

CONSTANT Elem          \* the values a queue holds (Handle or Node * in C)

VARIABLE deque         \* the contents, front first

Init == deque = <<>>

PushBack(e)  == deque' = Append(deque, e)
PushFront(e) == deque' = <<e>> \o deque
PopFront     == deque # <<>> /\ deque' = Tail(deque)
PopBack      == deque # <<>> /\ deque' = SubSeq(deque, 1, Len(deque) - 1)

Next == \/ \E e \in Elem : PushBack(e) \/ PushFront(e)
        \/ PopFront
        \/ PopBack

Spec == Init /\ [][Next]_deque
==============================================================================
