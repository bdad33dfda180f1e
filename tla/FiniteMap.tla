------------------------------ MODULE FiniteMap ------------------------------
(***************************************************************************)
(* What the hash map promises to its user: a finite function from keys to  *)
(* values.  Nothing here is translated from the code; HashMap is, and is   *)
(* checked to implement this module.                                       *)
(***************************************************************************)
CONSTANTS Key, Value

VARIABLES
  map,    \* the function
  call    \* the last call, so that each call is tied to what it does

Init == map = [k \in {} |-> k] /\ call = <<>>

(* A key that has a value keeps it. *)
Insert(k, v) ==
  /\ call' = <<k, v>>
  /\ map' = [j \in DOMAIN map \cup {k} |-> IF j \in DOMAIN map THEN map[j] ELSE v]
Remove(k)    == call' = <<k>> /\ map' = [j \in DOMAIN map \ {k} |-> map[j]]

Next == \E k \in Key : Remove(k) \/ \E v \in Value : Insert(k, v)

Spec == Init /\ [][Next]_<<map, call>>
==============================================================================
