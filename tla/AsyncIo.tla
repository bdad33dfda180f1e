------------------------------ MODULE AsyncIo -------------------------------
(***************************************************************************)
(* The socket calls of io.c that return a handle.  async_recv and its      *)
(* sisters start a coroutine that retries, and give it the address of      *)
(* arg_buf, a local variable of a function that has returned when the      *)
(* coroutine starts: what it unpacks is what the last such call of its     *)
(* caller packed there, or whatever any other function has left there.     *)
(***************************************************************************)
EXTENDS PackedArgs, FiniteSets

CONSTANTS Caller, Fd

Calls == 2                       \* bound: calls of one coroutine
Handle == Caller \X (1 .. Calls)

VARIABLES
  call,      \* the calls made, each with the coroutine that carries it out
  arg_buf,   \* what was last packed in the stack memory of a caller
  failed     \* an assertion has ended the process

vars == <<call, arg_buf, failed>>

Format == [recv |-> <<"i", "p", "i", "i">>, send |-> <<"i", "p", "i", "i">>,
           accept |-> <<"i", "p", "p">>]
Kind == DOMAIN Format

Again == "EAGAIN"
Error == "error"
Results(fd) == {fd, Again, Error}             \* fd: the result of success

Unused == [at |-> "none"]

Init == /\ call = [h \in Handle |-> Unused]
        /\ arg_buf = [c \in Caller |-> Zeroed] /\ failed = FALSE

Packed(kind, fd) == pack(Zeroed, 256, Format[kind], [k \in DOMAIN Format[kind] |->
                                                       IF k = 1 THEN fd ELSE "other"])
FdOf(buf, kind) == unpack(buf, Format[kind])[1][1][1]

(* A coroutine makes its calls one after the other, whatever became of the others. *)
Turn(c, n) ==
  call[<<c, n>>].at = "none" /\ \A m \in 1 .. n - 1 : call[<<c, m>>].at # "none"

AsyncCall(c, n, kind, fd) ==
  /\ Turn(c, n)
  /\ call' = [call EXCEPT ![<<c, n>>] = [at |-> "called", kind |-> kind, fd |-> fd]]
  /\ arg_buf' = [arg_buf EXCEPT ![c] = Packed(kind, fd)]
  /\ UNCHANGED failed

(* The memory as it was, or overwritten: a header of any length, the right one too,
   in front of bytes of any value, a descriptor of somebody else's too. *)
Overwritten == {pack(Zeroed, 256, fmt, [k \in DOMAIN fmt |-> v]) :
                  fmt \in {<<>>} \cup {Format[kind] : kind \in Kind}, v \in Fd \cup {"other"}}
Found(h) == {arg_buf[h[1]]} \cup Overwritten

Starts(h) ==
  /\ call[h].at = "called"
  /\ \E buf \in Found(h) :
       IF UnpackSucceeds(buf, Format[call[h].kind])
       THEN /\ call' = [call EXCEPT ![h] = [at |-> "trying", works_on |-> FdOf(buf, @.kind),
                                            kind |-> @.kind, fd |-> @.fd]]
            /\ UNCHANGED <<arg_buf, failed>>
       ELSE failed' = TRUE /\ UNCHANGED <<call, arg_buf>>

(* One round of the loop: a call that would block skips and tries again; any
   other result, an error, too, is the coroutine's. *)
Tries(h) ==
  /\ call[h].at = "trying"
  /\ \E result \in Results(call[h].works_on) \ {Again} :
       call' = [call EXCEPT ![h] = [at |-> "done", status |-> result,
                                    fd |-> @.fd, works_on |-> @.works_on]]
  /\ UNCHANGED <<arg_buf, failed>>

Next ==
  \/ /\ ~failed
     /\ \/ \E c \in Caller, n \in 1 .. Calls, kind \in Kind, fd \in Fd : AsyncCall(c, n, kind, fd)
        \/ \E h \in Handle : Starts(h) \/ Tries(h)
  \/ failed /\ UNCHANGED vars

Spec == Init /\ [][Next]_vars

------------------------------------------------------------------------------
(* assert(len > ptr) and assert(ptr == len) of unpack: a coroutine finds in
   arg_buf arguments of its format. *)
ArgsArrive == ~failed
==============================================================================
