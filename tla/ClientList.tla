----------------------------- MODULE ClientList ------------------------------
(***************************************************************************)
(* The doubly linked list of client records of examples/echo_epoll.c.      *)
(* server_close_client moves neither server->clients nor                   *)
(* server->free_clients: when the head is closed, the list goes on from a  *)
(* record that is closed, and no record is ever used again.                *)
(***************************************************************************)
EXTENDS Naturals

CONSTANT MaxClients     \* bound: records the run allocates

ClientListAssumption == MaxClients \in Nat \ {0}

VARIABLES next, prev, open, clients, free_clients, allocated

list == <<next, prev, open, clients, free_clients, allocated>>

Null == 0
Client == 1 .. MaxClients
dummy == 1              \* the record start_server makes for the accepting socket

TypeOK ==
  /\ {next, prev} \subseteq [Client -> Client \cup {Null}]
  /\ open \subseteq 1 .. allocated /\ allocated \in Client
  /\ {clients, free_clients} \subseteq Client \cup {Null}

Init ==
  /\ next = [c \in Client |-> Null] /\ prev = [c \in Client |-> Null]
  /\ open = {dummy} /\ clients = dummy
  /\ free_clients = Null /\ allocated = 1

NewClient ==
  LET fresh  == free_clients = Null
      client == IF fresh THEN allocated + 1 ELSE free_clients
  IN /\ client \in Client
     /\ allocated' = IF fresh THEN client ELSE allocated
     /\ free_clients' = IF fresh THEN Null ELSE next[free_clients]
     /\ open' = open \cup {client}
     /\ clients' = client
     /\ next' = [next EXCEPT ![client] = clients]
     /\ prev' = [c \in Client |-> IF c = client THEN Null
                                  ELSE IF c = clients THEN client ELSE prev[c]]

(* Of its two neighbours each gets the other one. *)
Unlinked(link, client, back) ==
  [c \in Client |-> IF c = back[client] THEN link[client] ELSE link[c]]

NextKept(client) ==                                              \* mutant
  /\ open' = open \ {client}
  /\ next' = [Unlinked(next, client, prev) EXCEPT ![client] = free_clients]
  /\ prev' = [prev EXCEPT ![client] = Null]
  /\ UNCHANGED <<clients, free_clients, allocated>>

CloseClient(client) ==
  /\ open' = open \ {client}
  /\ next' = [Unlinked(next, client, prev) EXCEPT ![client] = free_clients]
  /\ prev' = [Unlinked(prev, client, next) EXCEPT ![client] = Null]
  /\ UNCHANGED <<clients, free_clients, allocated>>

Next == NewClient \/ \E c \in open \ {dummy} : CloseClient(c)

Spec == Init /\ [][Next]_list

------------------------------------------------------------------------------
(* Each record is linked from at most one other, forward and backward links agree
   wherever they leave an open record, and so closing one client never unlinks a
   neighbour of another. *)
LinksAgree ==
  \A c \in open : /\ next[c] # Null => prev[next[c]] = c
                  /\ prev[c] # Null => next[prev[c]] = c

(* assert(next->prev == Null) and assert(client->prev == Null) hold, though the
   record clients points to may be closed. *)
AssertsHold == /\ clients # Null => prev[clients] = Null
               /\ free_clients # Null => prev[free_clients] = Null

(* The list as a whole, at every moment the server could use it. *)
ListOK == TypeOK /\ LinksAgree /\ AssertsHold
==============================================================================
