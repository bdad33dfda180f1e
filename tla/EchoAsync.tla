----------------------------- MODULE EchoAsync ------------------------------
(***************************************************************************)
(* The coroutine echo server of examples/echo_async.c over the retrying    *)
(* socket calls of io.c: main starts server_stats and accept_loop and      *)
(* waits for ever; accept_loop starts an orphaned echo_loop per client.    *)
(*                                                                         *)
(* Of the runtime the server uses a queue that coroutines leave only by    *)
(* returning, and whose front runs: async_call puts a coroutine at the     *)
(* back, async_skip moves the caller there (GraphRuntime, where main is    *)
(* the only coroutine inside await).  A coroutine keeps the CPU until      *)
(* its system call would block.  An action is one system call and what     *)
(* the coroutine does up to the next.                                      *)
(***************************************************************************)
EXTENDS Sockets, Functions

CONSTANT Faults     \* calls that may fail: "setup", "accept", "fcntl"

ASSUME AsyncAssumption ==
  /\ Faults \subseteq {"setup", "accept", "fcntl"}
  /\ {"server_stats", "accept_loop"} \cap Client = {}

VARIABLES
  queue,               \* the coroutines that can run, the running one first:
                       \* "server_stats", "accept_loop", echo_loops by client
  loop,                \* the local variables of each echo_loop
  current_client_cnt,
  server               \* "starting", "running", "exited", "killed"

vars == <<sockets, queue, loop, current_client_cnt, server>>

(* The local variables of an echo_loop.  at: "none", "start", or the call of
   read_n_bytes or write_n_bytes it is in: "read_size", "read_msg", "write_size",
   "write_msg".  size, msg: what has been read of the message; sent: sent_amt;
   buf: what the Buffer holds between start and end. *)
Fresh == [at |-> "none", size |-> <<>>, msg |-> <<>>, sent |-> 0, buf |-> <<>>]

Init ==
  /\ SocketsInit
  /\ queue = <<>> /\ loop = [c \in Client |-> Fresh]
  /\ current_client_cnt = 0 /\ server = "starting"


(* async_main: any failure before the server listens ends the process; then
   main awaits accept_loop and is never in the queue again. *)
AsyncMain ==
  /\ server = "starting"
  /\ \/ server' = "running" /\ queue' = <<"server_stats", "accept_loop">>
     \/ "setup" \in Faults /\ server' = "exited" /\ UNCHANGED queue
  /\ UNCHANGED <<sockets, loop, current_client_cnt>>

------------------------------------------------------------------------------
(* read_n_bytes, as far as the buffer reaches; a full size or message takes
   echo_loop on to what comes next. *)
Copied(l, part, n) ==
  LET amt == Least(n - Len(l[part]), Len(l.buf))
  IN [l EXCEPT ![part] = @ \o Take(l.buf, amt), !.buf = Drop(@, amt)]

SizeRead(l) == LET k == Copied(l, "size", SizeBytes)
               IN IF Len(k.size) < SizeBytes THEN k
                  ELSE [k EXCEPT !.at = "read_msg", !.msg = <<>>]

MsgRead(l) == LET k == Copied(l, "msg", ntohl(l.size))
              IN IF Len(k.msg) < ntohl(l.size) THEN k
                 ELSE [k EXCEPT !.at = "write_size", !.sent = 0]

Reading(l) == LET k == IF l.at = "read_size" THEN SizeRead(l) ELSE l
              IN IF k.at = "read_msg" THEN MsgRead(k) ELSE k

BufferReset(l) == Reading([l EXCEPT !.at = "read_size", !.size = <<>>, !.buf = <<>>])  \* mutant
NextRound(l) == Reading([l EXCEPT !.at = "read_size", !.size = <<>>])

ToWrite(l) == Drop(IF l.at = "write_size" THEN l.size ELSE l.msg, l.sent)

(* write_n_bytes, after send took n bytes; the next round may find a whole
   message in the buffer. *)
SentAll(l, n) == [l EXCEPT !.sent = 0,                            \* mutant
                           !.at = IF @ = "write_size" THEN "write_msg" ELSE "read_size"]
Written(l, n) ==
  IF n < Len(ToWrite(l))
  THEN [l EXCEPT !.sent = @ + n]
  ELSE IF l.at = "write_size" /\ l.msg # <<>> THEN [l EXCEPT !.at = "write_msg", !.sent = 0]
  ELSE NextRound(l)

------------------------------------------------------------------------------
NoSkip == queue                                                  \* mutant
Skipped == Append(Tail(queue), Head(queue))

Runs(co) == server = "running" /\ Head(queue) = co

ServerStats == /\ Runs("server_stats") /\ queue' = Skipped
               /\ UNCHANGED <<sockets, loop, current_client_cnt, server>>

(* await_async_accept skips while no client is there.  accept_loop goes round
   without skipping: after a success, and after a failure, too. *)
AcceptBlocks ==
  /\ Runs("accept_loop") /\ Pending = {}
  /\ queue' = Skipped
  /\ UNCHANGED <<sockets, loop, current_client_cnt, server>>

AcceptSucceeds(c) ==
  /\ Runs("accept_loop") /\ c \in Pending
  /\ \/ /\ Accepted(c, "open")
        /\ queue' = Append(queue, c)
        /\ loop' = [loop EXCEPT ![c] = [Fresh EXCEPT !.at = "start"]]
     \/ "fcntl" \in Faults /\ Accepted(c, "leaked") /\ UNCHANGED <<queue, loop>>
  /\ UNCHANGED <<current_client_cnt, server>>

AcceptFails ==
  /\ Runs("accept_loop") /\ "accept" \in Faults
  /\ UNCHANGED vars

AcceptLoop == AcceptBlocks \/ AcceptFails \/ \E c \in Client : AcceptSucceeds(c)

------------------------------------------------------------------------------
EchoStarts(c) ==
  /\ Runs(c) /\ loop[c].at = "start"
  /\ current_client_cnt' = current_client_cnt + 1
  /\ loop' = [loop EXCEPT ![c].at = "read_size"]
  /\ UNCHANGED <<sockets, queue, server>>

(* The label fail: async_return of an orphan takes the coroutine out. *)
NotCounted(c) == /\ Closed(c) /\ queue' = Tail(queue)            \* mutant
                 /\ loop' = [loop EXCEPT ![c] = Fresh]
                 /\ UNCHANGED <<current_client_cnt, server>>
EchoFails(c) ==
  /\ Closed(c)
  /\ current_client_cnt' = current_client_cnt - 1
  /\ queue' = Tail(queue)
  /\ loop' = [loop EXCEPT ![c] = Fresh]
  /\ UNCHANGED server

InRecv(c) == Runs(c) /\ loop[c].at \in {"read_size", "read_msg"}
InSend(c) == Runs(c) /\ loop[c].at \in {"write_size", "write_msg"}

(* await_async_recv and await_async_send retry when they would block. *)
Blocks(c) ==
  /\ \/ InRecv(c) /\ NothingYet(c)
     \/ InSend(c) /\ Space(c) = 0
  /\ queue' = Skipped
  /\ UNCHANGED <<sockets, loop, current_client_cnt, server>>

RecvBytes(c) ==
  /\ InRecv(c)
  /\ \E n \in 1 .. BufSize :
       /\ Received(c, n)
       /\ loop' = [loop EXCEPT ![c] = Reading([@ EXCEPT !.buf = Take(inbox[c], n)])]
  /\ UNCHANGED <<queue, current_client_cnt, server>>

RecvEnds(c) == InRecv(c) /\ (EndOfStream(c) \/ Reset(c)) /\ EchoFails(c)

SendBytes(c) ==
  /\ InSend(c)
  /\ \E n \in 1 .. Len(ToWrite(loop[c])) :
       /\ Sent(c, Take(ToWrite(loop[c]), n))
       /\ loop' = [loop EXCEPT ![c] = Written(@, n)]
  /\ UNCHANGED <<queue, current_client_cnt, server>>

(* send is called without MSG_NOSIGNAL: to a client that has left it may fail,
   or end the process with SIGPIPE. *)
SendFails(c) ==
  /\ InSend(c) /\ Reset(c)
  /\ \/ EchoFails(c)
     \/ server' = "killed" /\ UNCHANGED <<sockets, queue, loop, current_client_cnt>>

EchoLoop(c) == EchoStarts(c) \/ Blocks(c) \/ RecvBytes(c) \/ RecvEnds(c) \/ SendBytes(c) \/ SendFails(c)

Over == server \in {"exited", "killed"} /\ UNCHANGED vars

Server == AsyncMain \/ ServerStats \/ AcceptLoop \/ \E c \in Client : EchoLoop(c)

Next == Server \/ Over \/ (Peers /\ UNCHANGED <<queue, loop, current_client_cnt, server>>)

Spec == Init /\ [][Next]_vars

(* main, server_stats and each echo_loop go on when it is their turn, and bytes that
   were written arrive, now and then before the server asks for them.  Nothing is
   assumed of accept_loop, which may go round for ever when accept keeps failing or
   clients keep coming, nor of the clients. *)
FairSpec ==
  /\ Spec /\ WF_vars(AsyncMain) /\ WF_vars(ServerStats)
  /\ \A c \in Client : WF_vars(EchoLoop(c)) /\ SF_vars(RecvBytes(c))

------------------------------------------------------------------------------
(* Nothing a client wrote is lost, doubled or overtaken, however reads, writes
   and skips of several clients interleave and wherever the pieces are cut: what
   it still expects is what is under way back, in echo_loop's variables, in its
   buffer and under way to the server, in this order. *)
Held(l) == CASE l.at \in {"none", "start"} -> <<>>
             [] l.at = "read_size"  -> l.size
             [] l.at = "read_msg"   -> l.size \o l.msg
             [] l.at = "write_size" -> ToWrite(l) \o l.msg
             [] l.at = "write_msg"  -> ToWrite(l)

BytesKept ==
  \A c \in Client : peer[c] = "in" =>
    expected[c] = outbox[c] \o Held(loop[c]) \o loop[c].buf \o inbox[c]

(* Each accepted connection has exactly one echo_loop, each echo_loop an open
   connection, and current_client_cnt, which server_stats prints, counts those
   that have started; the exception is a connection whose fcntl failed. *)
ServedOnce ==
  /\ \A c \in Client : Cardinality({i \in DOMAIN queue : queue[i] = c})
                         = IF conn[c] = "open" THEN 1 ELSE 0
  /\ current_client_cnt = Cardinality({c \in Range(queue) \cap Client : loop[c].at # "start"})

ImplementsEcho == Echo!Spec

(* A client that stays and has written something is sent something, unless one
   coroutine keeps the CPU for ever: accept_loop, when accept goes on failing or finding
   clients, or the echo_loop of another client that is always ready.  Coroutines that
   wait for ever, server_stats and clients that do not read hold up nobody.  Besides,
   the code fails a client whose fcntl failed, and all of them after SIGPIPE. *)
KeepsTheCPU(co) == <>[]Runs(co)

Answered ==
  \A c \in Client :
    \/ (peer[c] = "in" /\ expected[c] # <<>>)
         ~> (outbox[c] # <<>> \/ peer[c] # "in" \/ conn[c] = "leaked" \/ server # "running")
    \/ \E co \in {"accept_loop"} \cup (Client \ {c}) : KeepsTheCPU(co)
==============================================================================
