------------------------------- MODULE HashMap -------------------------------
(***************************************************************************)
(* The hash map of hashmap.c, in which the graph scheduler keeps the node  *)
(* of each handle.  A cell heads a chain of nodes; a chain is a sequence   *)
(* here, first node first.  The keys and their hash are the handles        *)
(* themselves (int_hash_fn and int_eql_fn of graph_scheduler.c).           *)
(*                                                                         *)
(* The table grows with node_max, the number of nodes ever allocated, and  *)
(* is rehashed in place: a node moved to a cell the loop has not visited   *)
(* yet is met again there.                                                 *)
(***************************************************************************)
EXTENDS Integers, Sequences

Seqs == INSTANCE SequencesExt

CONSTANTS
  Key,       \* the handles in use
  Value,     \* the nodes stored, each under one key
  NULL,      \* no value stored yet
  Growth,    \* the constant 10 of "new_cap = cap * 2 + 10"
  Load,      \* the constant 5 of "node_max >= cap * 5"
  MaxNodes   \* bound: nodes allocated, removed ones included

MapAssumption ==
  /\ Key \subseteq Nat /\ NULL \notin Value
  /\ Growth \in Nat \ {0} /\ Load \in Nat \ {0} /\ MaxNodes \in Nat

VARIABLES
  cells, cap, free, node_max,
  call        \* history: the last call, as in FiniteMap
vars == <<cells, cap, free, node_max, call>>

Node == [key : Key, val : Value]

TypeOK ==
  /\ cap \in Nat /\ node_max \in 0 .. MaxNodes
  /\ cells \in [0 .. cap - 1 -> Seq(Node)]
  /\ free \in Seq(Node)
  /\ call \in {<<>>} \cup {<<k>> : k \in Key} \cup Key \X Value

Init == call = <<>> /\ cap = 0 /\ cells = [c \in 0 .. -1 |-> <<>>] /\ free = <<>> /\ node_max = 0

------------------------------------------------------------------------------
CellOf(k, capacity) == k % capacity

(* One round of the outer loop of hash_map_expand: the nodes of cell c are taken
   one by one; those that belong to another cell are pushed on its chain. *)
Moved(cs, c, n, newCap) ==
  LET t == CellOf(n.key, newCap)
  IN [cs EXCEPT ![t] = IF t = c THEN Append(@, n) ELSE <<n>> \o @]

NothingMoves(cs, c, newCap) == cs                                \* mutant
Rehashed(cs, c, newCap) ==
  LET after[i \in 0 .. Len(cs[c])] ==
        IF i = 0 THEN [cs EXCEPT ![c] = <<>>]
        ELSE Moved(after[i - 1], c, cs[c][i], newCap)
  IN after[Len(cs[c])]

Expanded(cs, oldCap) ==
  LET newCap == oldCap * 2 + Growth
      larger == [c \in 0 .. newCap - 1 |-> IF c < oldCap THEN cs[c] ELSE <<>>]
      rounds[c \in 0 .. oldCap] ==
        IF c = 0 THEN larger ELSE Rehashed(rounds[c - 1], c - 1, newCap)
  IN rounds[oldCap]

(* hash_map_find: the first node of the chain with the key, 0 if there is none. *)
Place(chain, k) == Seqs!SelectInSeq(chain, LAMBDA n : n.key = k)

Find(k) ==
  IF cap = 0 THEN NULL
  ELSE LET chain == cells[CellOf(k, cap)]
       IN IF Place(chain, k) = 0 THEN NULL ELSE chain[Place(chain, k)].val

(* hash_map_insert expands before it looks for the key. *)
Full == node_max >= cap * Load

(* The caller, graph_register_task, stores its value in a node that has none;
   one from the list of free nodes would still have that of its former entry. *)
NewNode(k, v) == [key |-> k, val |-> IF free = <<>> THEN v ELSE Head(free).val]

Insert(k, v) ==
  LET newCap == IF Full THEN cap * 2 + Growth ELSE cap
      table  == IF Full THEN Expanded(cells, cap) ELSE cells
      cell   == CellOf(k, newCap)
  IN /\ call' = <<k, v>>
     /\ cap' = newCap
     /\ IF Place(table[cell], k) # 0
        THEN cells' = table /\ UNCHANGED <<free, node_max>>
        ELSE /\ cells' = [table EXCEPT ![cell] = <<NewNode(k, v)>> \o @]
             /\ IF free = <<>>
                THEN node_max < MaxNodes /\ node_max' = node_max + 1 /\ UNCHANGED free
                ELSE free' = Tail(free) /\ UNCHANGED node_max

(* The last statements of hash_map_remove are "n->next = h->free;
   h->free = n->next;": the list of free nodes stays what it was. *)
FreedInOrder(n) == <<n>> \o free                                 \* mutant
Freed(n) == free

Unlinked(chain, i) == Seqs!RemoveAt(chain, i)

Remove(k) ==
  /\ call' = <<k>>
  /\ IF Find(k) = NULL THEN UNCHANGED <<cells, free>>
     ELSE LET cell  == CellOf(k, cap)
              place == Place(cells[cell], k)
          IN /\ cells' = [cells EXCEPT ![cell] = Unlinked(@, place)]
             /\ free' = Freed(cells[cell][place])
  /\ UNCHANGED <<cap, node_max>>

Next == \E k \in Key : Remove(k) \/ \E v \in Value : Insert(k, v)

Spec == Init /\ [][Next]_vars

------------------------------------------------------------------------------
(* The table is a finite map: neither an expansion nor the removal of a
   neighbour in a chain changes what hash_map_find finds for any key, and a new
   entry has the value its caller stored, not that of a former entry. *)
Abstract == INSTANCE FiniteMap
              WITH map <- [k \in {j \in Key : Find(j) # NULL} |-> Find(k)]
ImplementsMap == Abstract!Spec

(* Each node is in the chain that hash_map_find searches for its key, and no
   key has two nodes: no entry is lost in a cell nobody looks into. *)
ChainsOK ==
  \A c, d \in DOMAIN cells : \A i \in DOMAIN cells[c], j \in DOMAIN cells[d] :
    /\ CellOf(cells[c][i].key, cap) = c
    /\ cells[c][i].key = cells[d][j].key => c = d /\ i = j

(* The chains are at most Load long on average: hash_map_insert expands in time,
   also at the boundary. *)
LoadOK == node_max <= cap * Load
==============================================================================
