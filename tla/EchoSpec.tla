------------------------------ MODULE EchoSpec -------------------------------
(***************************************************************************)
(* What an echo server promises: each client is sent exactly the bytes it  *)
(* has written, in their order, and keeps its connection for as long as it *)
(* wants it.  Nothing here is translated from the code; EchoAsync and      *)
(* EchoEpoll are, and are checked to implement this module.                *)
(***************************************************************************)
EXTENDS Sequences, Naturals

CONSTANTS Client, Byte

VARIABLES
  here,     \* the clients that are connected, or connecting
  gone,     \* those that have left
  owed,     \* for each client what it has written and not read back
  coming    \* for each client what is on its way back

Init == /\ here = {} /\ gone = {}
        /\ owed = [c \in Client |-> <<>>] /\ coming = [c \in Client |-> <<>>]

Joins(c) == /\ c \notin here \cup gone /\ here' = here \cup {c}
            /\ UNCHANGED <<gone, owed, coming>>

Writes(c) == /\ c \in here
             /\ Len(owed'[c]) > Len(owed[c])
             /\ owed' = [owed EXCEPT ![c] = @ \o SubSeq(owed'[c], Len(@) + 1, Len(owed'[c]))]
             /\ UNCHANGED <<here, gone, coming>>

(* The server sends back some of what it owes, and closes a connection only
   after the client has left it. *)
Echoes(c) == /\ c \in here
             /\ \E n \in Len(coming[c]) + 1 .. Len(owed[c]) :
                  coming' = [coming EXCEPT ![c] = SubSeq(owed[c], 1, n)]
             /\ UNCHANGED <<here, gone, owed>>

Reads(c) == /\ c \in here /\ coming[c] # <<>>
            /\ owed' = [owed EXCEPT ![c] = Tail(@)]
            /\ coming' = [coming EXCEPT ![c] = Tail(@)]
            /\ UNCHANGED <<here, gone>>

Leaves(c) == /\ c \in here /\ here' = here \ {c} /\ gone' = gone \cup {c}
             /\ owed' = [owed EXCEPT ![c] = <<>>]
             /\ coming' = [coming EXCEPT ![c] = <<>>]

Closes(c) == /\ c \in gone /\ gone' = gone \ {c}
             /\ UNCHANGED <<here, owed, coming>>

Next == \E c \in Client : \/ Joins(c) \/ Writes(c) \/ Reads(c) \/ Leaves(c)
                          \/ Echoes(c) \/ Closes(c)

Spec == Init /\ [][Next]_<<here, gone, owed, coming>>
==============================================================================
