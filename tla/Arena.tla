------------------------------- MODULE Arena --------------------------------
(***************************************************************************)
(* The arena allocator of arena.c: a chain of chunks, each with a capacity *)
(* of twice that of the one before, allocated from in the first that has   *)
(* room.  The chunks after the first claim twice the memory they get.      *)
(***************************************************************************)
EXTENDS Integers, Sequences, FiniteSets

CONSTANTS
  FirstCap,      \* 64
  Sizes,         \* the sizes asked for, elem_cnt * elem_size
  MaxAllocs      \* bound

ArenaAssumption == FirstCap \in Nat \ {0} /\ Sizes \subseteq Nat /\ MaxAllocs \in Nat

VARIABLES
  arenas,     \* the chunks: len, cap and the size of what elems points to
  given       \* the allocations, with their chunk and their place in it

Init == /\ arenas = <<[len |-> 0, cap |-> FirstCap, elems |-> FirstCap]>>
        /\ given = {}

Arena == [len : Nat, cap : Nat, elems : Nat]
NewArena(last) == [len |-> 0, cap |-> last.cap * 2, elems |-> last.cap]

Fits(a, size) == a.len + size < a.cap

(* The chunks after arena_alloc has added one, and after it has added n. *)
Longer(chunks) == Append(chunks, NewArena(chunks[Len(chunks)]))

Extended(chunks, n) ==
  LET after[m \in 0 .. n] ==
        IF m = 0 THEN chunks ELSE Longer(after[m - 1])
  IN after[n]

FromStart(chunks, i, size) ==                                        \* mutant
  /\ arenas' = [chunks EXCEPT ![i].len = IF @ > size THEN @ ELSE size]
  /\ given' = given \cup {[in |-> i, at |-> 0, size |-> size]}
Take(chunks, i, size) ==
  /\ arenas' = [chunks EXCEPT ![i].len = @ + size]
  /\ given' = given \cup {[in |-> i, at |-> chunks[i].len, size |-> size]}

(* The loop goes to the first chunk with room, and adds chunks at the end until one
   has it; their capacities double, so the loop adds no more than size + 1. *)
arena_alloc(size) ==
  \E n \in 0 .. size + 1 :
    LET chunks == Extended(arenas, n) IN
    \E i \in DOMAIN chunks :
      /\ n > 0 => i = Len(chunks)
      /\ Fits(chunks[i], size) /\ \A j \in 1 .. i - 1 : ~Fits(chunks[j], size)
      /\ Take(chunks, i, size)

arena_deinit ==
  /\ arenas' = <<[len |-> 0, cap |-> FirstCap, elems |-> FirstCap]>> /\ given' = {}

Next == \/ \E size \in Sizes : Cardinality(given) < MaxAllocs /\ arena_alloc(size)
        \/ arena_deinit

Spec == Init /\ [][Next]_<<arenas, given>>

------------------------------------------------------------------------------
(* The bytes of a block in the memory of its chunk: chunk and offset are an address
   up to the size malloc was asked for, and mean nothing behind it. *)
BytesOf(g) == {g.in} \X {b \in g.at .. g.at + g.size - 1 : b < arenas[g.in].elems}

(* No byte of the arena's memory is given out twice. *)
NoByteTwice == \A g, h \in given : g # h => BytesOf(g) \cap BytesOf(h) = {}

(* A block ends where its chunk's cap says, at the latest, which in the first chunk
   is the end of its memory. *)
WithinCap ==
  \A g \in given : /\ g.at + g.size <= arenas[g.in].cap
                   /\ g.in = 1 => g.at + g.size <= arenas[g.in].elems
==============================================================================
