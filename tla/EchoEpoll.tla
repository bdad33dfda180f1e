------------------------------ MODULE EchoEpoll ------------------------------
(***************************************************************************)
(* The echo server of examples/echo_epoll.c: one loop around epoll_wait    *)
(* and a state machine per client.  epoll_wait returns a batch of events,  *)
(* which the loop handles one after the other while the clients go on; an  *)
(* action is the handling of one event.  The sockets of clients block: a   *)
(* send for which there is no room stops the server inside                 *)
(* client_on_update until the client has read, and is an action per piece. *)
(***************************************************************************)
EXTENDS Sockets

CONSTANTS
  EVENTS_CNT,
  Faults,      \* calls that may fail: "setup", "accept", "epoll_ctl"
  MaxCount     \* bound: accept fails only while current_client_cnt is less

ASSUME EpollAssumption ==
  /\ {EVENTS_CNT, MaxCount} \subseteq Nat /\ EVENTS_CNT > 0
  /\ Faults \subseteq {"setup", "accept", "epoll_ctl"}
  /\ IsFiniteSet(Client) /\ {"accept", "none"} \cap Client = {}

VARIABLES
  client,               \* the record of each open connection
  epoll_events,         \* the events of the batch that are not handled yet
  in_send,              \* the client whose send has not returned, or "none"
  current_client_cnt,
  server                \* "starting", "running", "exited"

local == <<client, epoll_events, in_send, current_client_cnt, server>>
vars == <<sockets, local>>

(* size, msg: what has been read of them, all of it when Writing; sent: size_ptr
   and msg_ptr when Writing, added; buf: read_buffer from read_ptr to read_end;
   begun: read_ptr # 0. *)
Record == [mode : {"Reading", "Writing"}, size : Seq(Byte), msg : Seq(Byte), sent : Nat,
           buf : Seq(Byte), begun : BOOLEAN]

Fresh == [mode |-> "Reading", size |-> <<>>, msg |-> <<>>, sent |-> 0, buf |-> <<>>,
          begun |-> FALSE]

Event == [of : Client \cup {"accept"}, events : SUBSET {"IN", "OUT", "HUP"}]

TypeOK ==
  /\ SocketsTypeOK
  /\ client \in [Client -> Record]
  /\ epoll_events \subseteq Event /\ Cardinality(epoll_events) <= EVENTS_CNT
  /\ in_send \in Client \cup {"none"}
  /\ current_client_cnt \in 0 .. MaxCount + Cardinality(Client)
  /\ server \in {"starting", "running", "exited"}

Init ==
  /\ SocketsInit
  /\ client = [c \in Client |-> Fresh]
  /\ epoll_events = {} /\ in_send = "none"
  /\ current_client_cnt = 0 /\ server = "starting"

StartServer ==
  /\ server = "starting"
  /\ \/ server' = "running"
     \/ "setup" \in Faults /\ server' = "exited"
  /\ UNCHANGED <<sockets, client, epoll_events, in_send, current_client_cnt>>

------------------------------------------------------------------------------
(* epoll_wait, level-triggered: of the descriptors that are ready some, each
   once; after TIMEOUT maybe none.  What a client has written may not have
   arrived; an error is reported only for a connection the other end has left. *)
Ready(e) ==
  IF e.of = "accept"
  THEN e.events = {"IN"} /\ Pending # {}
  ELSE LET c == e.of IN
       /\ conn[c] = "open" /\ e.events # {}
       /\ "IN" \in e.events => inbox[c] # <<>> \/ peer[c] = "left"
       /\ "OUT" \in e.events <=> Space(c) > 0
       /\ "HUP" \in e.events => peer[c] = "left"

EpollWait ==
  /\ server = "running" /\ epoll_events = {} /\ in_send = "none"
  /\ epoll_events' \in {es \in SUBSET {e \in Event : Ready(e)} :
                          /\ Cardinality(es) <= EVENTS_CNT
                          /\ \A d, e \in es : d.of = e.of => d = e}
  /\ UNCHANGED <<sockets, client, in_send, current_client_cnt, server>>

Handling(e) == /\ e \in epoll_events /\ in_send = "none"
               /\ epoll_events' = epoll_events \ {e}

------------------------------------------------------------------------------
(* accept; the count goes up before anything can fail. *)
AcceptEvent ==
  \E e \in epoll_events :
    /\ e.of = "accept" /\ Handling(e)
    /\ current_client_cnt' = current_client_cnt + 1
    /\ UNCHANGED <<in_send, server>>

AcceptSucceeds(c) ==
  /\ AcceptEvent
  /\ c \in Pending
  /\ \/ Accepted(c, "open")
     \/ "epoll_ctl" \in Faults /\ Accepted(c, "leaked")
  /\ client' = [client EXCEPT ![c] = Fresh]

AcceptFails ==
  /\ AcceptEvent /\ "accept" \in Faults /\ current_client_cnt < MaxCount
  /\ UNCHANGED <<sockets, client>>

------------------------------------------------------------------------------
(* The two loops of client_on_update that take bytes out of read_buffer; out of
   bytes, they clear it for the next recv. *)
NotCleared(r) == [r EXCEPT !.buf = <<>>]                             \* mutant
Cleared(r) == [r EXCEPT !.buf = <<>>, !.begun = FALSE]

Copied(r, part, n) ==
  LET amt == Least(n - Len(r[part]), Len(r.buf))
  IN [r EXCEPT ![part] = @ \o Take(r.buf, amt), !.buf = Drop(@, amt)]

Filled(r) ==
  LET s == Copied(r, "size", SizeBytes)
      m == Copied(s, "msg", ntohl(s.size))
  IN IF Len(s.size) < SizeBytes THEN Cleared(s)
     ELSE IF Len(m.msg) < ntohl(s.size) THEN Cleared(m)
     ELSE [m EXCEPT !.mode = "Writing", !.sent = 0]

(* What one call sends: the rest of the size, or else of the message. *)
ToSend(r) == IF r.sent < SizeBytes THEN Drop(r.size, r.sent)
             ELSE Drop(r.msg, r.sent - SizeBytes)

AllSent(r) == [r EXCEPT !.mode = "Reading"]                      \* mutant
EchoDone(r) == [r EXCEPT !.mode = "Reading", !.size = <<>>, !.msg = <<>>, !.sent = 0]

(* The second half of client_on_update, with r what the first half left. *)
WritePart(c, r, events) ==
  IF r.mode = "Writing" /\ "OUT" \in events
  THEN IF ToSend(r) = <<>>
       THEN client' = [client EXCEPT ![c] = EchoDone(r)] /\ UNCHANGED in_send
       ELSE client' = [client EXCEPT ![c] = r] /\ in_send' = c
  ELSE client' = [client EXCEPT ![c] = r] /\ UNCHANGED in_send

Recvs(c, events) == client[c].mode = "Reading" /\ "IN" \in events /\ ~client[c].begun

Update(c) ==
  \E e \in epoll_events :
    /\ e.of = c /\ "HUP" \notin e.events /\ Handling(e)
    /\ \/ /\ Recvs(c, e.events)
          /\ \E n \in 1 .. BufSize :
               /\ Received(c, n)
               /\ WritePart(c, Filled([client[c] EXCEPT !.buf = Take(inbox[c], n),
                                                        !.begun = TRUE]), e.events)
       \/ /\ ~Recvs(c, e.events) /\ UNCHANGED sockets
          /\ WritePart(c, IF client[c].mode = "Reading" /\ "IN" \in e.events
                          THEN Filled(client[c]) ELSE client[c], e.events)
    /\ UNCHANGED <<current_client_cnt, server>>

(* server_close_client, when client_on_update fails or epoll reports that the
   connection did. *)
ClosedTwice(c) == /\ Closed(c) /\ client' = [client EXCEPT ![c] = Fresh]   \* mutant
                  /\ current_client_cnt' = current_client_cnt - 2
                  /\ UNCHANGED server
CloseClient(c) ==
  /\ Closed(c)
  /\ client' = [client EXCEPT ![c] = Fresh]
  /\ current_client_cnt' = current_client_cnt - 1
  /\ UNCHANGED server

EventKept(c) == /\ in_send = "none" /\ Reset(c)                   \* mutant
                /\ \E e \in epoll_events : e.of = c
                /\ CloseClient(c) /\ UNCHANGED <<in_send, epoll_events>>
UpdateFails(c) ==
  \E e \in epoll_events :
    /\ e.of = c /\ Handling(e)
    /\ \/ "HUP" \in e.events
       \/ Recvs(c, e.events) /\ (EndOfStream(c) \/ Reset(c))
    /\ CloseClient(c) /\ UNCHANGED in_send

SendPiece(c) ==
  LET n == Least(Space(c), Len(ToSend(client[c]))) IN
  /\ in_send = c /\ Sent(c, Take(ToSend(client[c]), n))
  /\ client' = [client EXCEPT ![c].sent = @ + n]
  /\ in_send' = IF n = Len(ToSend(client[c])) THEN "none" ELSE c
  /\ UNCHANGED <<epoll_events, current_client_cnt, server>>

SendFails(c) ==
  /\ in_send = c /\ Reset(c)
  /\ CloseClient(c) /\ in_send' = "none" /\ UNCHANGED epoll_events

Serve(c) == AcceptSucceeds(c) \/ Update(c) \/ UpdateFails(c) \/ SendPiece(c) \/ SendFails(c)

RunServer == EpollWait \/ AcceptFails \/ \E c \in Client : Serve(c)

Over == server = "exited" /\ UNCHANGED vars

Next == StartServer \/ RunServer \/ Over \/ (Peers /\ UNCHANGED local)

Spec == Init /\ [][Next]_vars

(* The process runs; what is ready is reported in the end; connections are
   accepted in their order, and accept does not fail for ever; and clients read
   what is there. *)
Reports(who) ==
  EpollWait /\ \E e \in epoll_events' :
    e.of = who /\ (who = "accept" \/ inbox[who] = <<>> \/ "IN" \in e.events)

FairSpec ==
  /\ Spec /\ WF_vars(StartServer \/ RunServer) /\ SF_vars(Reports("accept"))
  /\ \A c \in Client : /\ SF_vars(AcceptSucceeds(c) \/ Reports(c))
                       /\ WF_vars(Reads(c) /\ UNCHANGED local)

------------------------------------------------------------------------------
(* Nothing a client wrote is lost, doubled or overtaken, wherever the pieces are
   cut and whatever the other clients do between two events of a batch: what it
   still expects is what is under way back, in its record, in its read_buffer
   and under way to the server, in this order. *)
BytesKept ==
  \A c \in Client : peer[c] = "in" =>
    LET r == client[c]
    IN expected[c] = outbox[c] \o Drop(r.size \o r.msg, r.sent) \o r.buf \o inbox[c]

(* assert(client->socket != 0): an event of the batch is never that of a client
   an earlier one has closed. *)
NoStaleEvent ==
  /\ \A e \in epoll_events : e.of # "accept" => conn[e.of] = "open"
  /\ in_send # "none" => conn[in_send] = "open"

(* Each open connection is counted in current_client_cnt, which run_server prints
   and closing takes back: the count is never too low nor negative. *)
CountsClients == current_client_cnt >= Cardinality({c \in Client : conn[c] = "open"})

ImplementsEcho == Echo!Spec

(* A client that stays and waits for an echo is sent something, if clients read
   what they are sent: a client that does not stops the server, and with it the
   echoes of all others.  The exception is what has come with an earlier message and
   is left in read_buffer: the loop looks at it when the client writes again. *)
Forgotten(c) == client[c].mode = "Reading" /\ client[c].buf # <<>> /\ inbox[c] = <<>>

Answered ==
  \A c \in Client :
    (peer[c] = "in" /\ expected[c] # <<>>)
      ~> \/ outbox[c] # <<>> \/ Forgotten(c) \/ peer[c] # "in"
         \/ conn[c] = "leaked" \/ server # "running"
==============================================================================
