------------------------------- MODULE Sockets -------------------------------
(***************************************************************************)
(* The surroundings of the two echo servers: stream sockets and the        *)
(* clients of examples/echo_client*.py at their other ends.                *)
(*                                                                         *)
(* A message is its size, big-endian, and its bytes.  The kernel delivers  *)
(* the bytes of a connection in order but in pieces: recv may return any   *)
(* non-empty prefix of what is written, or find that nothing has arrived;  *)
(* send takes what there is room for.  A client may leave at any point,    *)
(* with a message half sent or an echo half read.                          *)
(***************************************************************************)
EXTENDS Integers, Sequences, FiniteSets

CONSTANTS
  Client,    \* the clients; each may come back after it has left
  Message,   \* the messages they send, sequences of Byte
  Ahead,     \* how many bytes of its earlier messages may still have to come
             \* back when a client writes again (none in all of the scripts)
  Room,      \* bytes the kernel buffers towards a client
  BufSize    \* BUF_SIZE

Base == 2                      \* bound: 256 values of a byte
Byte == 0 .. Base - 1
SizeBytes == 2                 \* bound: 4 bytes of a size

ASSUME SocketAssumption ==
  /\ Message \subseteq Seq(Byte) /\ \A m \in Message : Len(m) < Base * Base
  /\ Ahead \in [Client -> Nat] /\ Room \in Nat \ {0} /\ BufSize \in Nat \ {0}

VARIABLES
  peer,       \* "out", "in", or "left" while the server has not noticed yet
  conn,       \* the server's side: "none", "pending" until it is accepted,
              \* "open", or "leaked" if the server forgot it
  inbox,      \* bytes written by the client and not received
  outbox,     \* bytes sent by the server and not read
  expected    \* bytes the client has written and not read back

sockets == <<peer, conn, inbox, outbox, expected>>

SocketsTypeOK ==
  /\ peer \in [Client -> {"out", "in", "left"}]
  /\ conn \in [Client -> {"none", "pending", "open", "leaked"}]
  /\ {inbox, outbox, expected} \subseteq [Client -> Seq(Byte)]

SocketsInit ==
  /\ peer = [c \in Client |-> "out"] /\ conn = [c \in Client |-> "none"]
  /\ inbox = [c \in Client |-> <<>>] /\ outbox = [c \in Client |-> <<>>]
  /\ expected = [c \in Client |-> <<>>]

------------------------------------------------------------------------------
Drop(s, n) == SubSeq(s, n + 1, Len(s))
Take(s, n) == SubSeq(s, 1, n)
Least(m, n) == IF m < n THEN m ELSE n

(* len_bytes + msg_bytes of echo_round, and ntohl of the servers *)
Framed(m) == <<Len(m) \div Base, Len(m) % Base>> \o m
ntohl(size) == size[1] * Base + size[2]

(* The client: connect, then rounds of writing a message and reading its echo. *)
Connects(c) ==
  /\ peer[c] = "out" /\ conn[c] = "none"
  /\ peer' = [peer EXCEPT ![c] = "in"] /\ conn' = [conn EXCEPT ![c] = "pending"]
  /\ UNCHANGED <<inbox, outbox, expected>>

Writes(c) ==
  /\ peer[c] = "in" /\ Len(expected[c]) <= Ahead[c]
  /\ \E m \in Message : /\ inbox' = [inbox EXCEPT ![c] = @ \o Framed(m)]
                        /\ expected' = [expected EXCEPT ![c] = @ \o Framed(m)]
  /\ UNCHANGED <<peer, conn, outbox>>

Reads(c) ==
  /\ peer[c] = "in" /\ outbox[c] # <<>>
  /\ outbox' = [outbox EXCEPT ![c] = Tail(@)]
  /\ expected' = [expected EXCEPT ![c] = Tail(@)]
  /\ UNCHANGED <<peer, conn, inbox>>

Leaves(c) ==
  /\ peer[c] = "in"
  /\ peer' = [peer EXCEPT ![c] = "left"]
  /\ outbox' = [outbox EXCEPT ![c] = <<>>] /\ expected' = [expected EXCEPT ![c] = <<>>]
  /\ UNCHANGED <<conn, inbox>>

Peers == \E c \in Client : Connects(c) \/ Writes(c) \/ Reads(c) \/ Leaves(c)

------------------------------------------------------------------------------
(* What the system calls of the servers may do and return. *)
Pending == {c \in Client : conn[c] = "pending"}
Accepted(c, as) == conn' = [conn EXCEPT ![c] = as] /\ UNCHANGED <<peer, inbox, outbox, expected>>

NothingYet(c)  == peer[c] = "in"                       \* EAGAIN, or not readable
EndOfStream(c) == peer[c] = "left" /\ inbox[c] = <<>>  \* recv returns 0
Reset(c)       == peer[c] = "left"                     \* recv or send fails

Received(c, n) ==
  /\ n \in 1 .. Least(BufSize, Len(inbox[c]))
  /\ inbox' = [inbox EXCEPT ![c] = Drop(@, n)]
  /\ UNCHANGED <<peer, conn, outbox, expected>>

(* What is sent to a client that has left is taken by the kernel and lost. *)
Space(c) == Room - Len(outbox[c])
Sent(c, bytes) ==
  /\ Len(bytes) \in 1 .. Space(c)
  /\ outbox' = IF peer[c] = "in" THEN [outbox EXCEPT ![c] = @ \o bytes] ELSE outbox
  /\ UNCHANGED <<peer, conn, inbox, expected>>

Closed(c) ==
  /\ conn' = [conn EXCEPT ![c] = "none"]
  /\ peer' = [peer EXCEPT ![c] = IF @ = "left" THEN "out" ELSE @]
  /\ inbox' = [inbox EXCEPT ![c] = <<>>]
  /\ outbox' = [outbox EXCEPT ![c] = <<>>]
  /\ expected' = [expected EXCEPT ![c] = <<>>]

Echo == INSTANCE EchoSpec WITH
          here <- {c \in Client : peer[c] = "in" /\ conn[c] # "none"},
          gone <- {c \in Client : peer[c] = "left"},
          owed <- expected, coming <- outbox
==============================================================================
