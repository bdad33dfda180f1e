# A formal model of c-async-await

`c-async-await` is a small C library that gives C programs `async` functions:
stackful coroutines in one thread, a cooperative scheduler, and `await`,
`await_any`, `await_all` on top.  Two echo servers, one written with it and one
with epoll, are its examples.  This directory holds TLA+ modules that model
the library and the examples, the TLC configurations that check them on small instances, and
theorems about them checked with TLAPS.  Paths below are relative to the
repository.

    tlc -workers 2 -config MCGraphAny.cfg MCGraphRuntime.tla   # one of the runs
    tlapm GraphRuntimeProofs.tla                               # some of the proofs

## 1. Inventory

| Component | Source | State | Operations |
|---|---|---|---|
| ring queue | `src/storage.h` (`queue_*`) | `elems`, `start`, `end`, `cap` | push and pop at both ends, peek, expand |
| task pool | `src/scheduler.c`, `scheduler.h` | the slots (`state`, `orphaned`, `data`, `handle`), `len`, `free_task` | `start_new_task`, `free_task`, `get_task` |
| context switch | `src/switch.c` | which stack is in use, saved registers, `INIT` to `RUNNING` | `async_switch`, the entry trampoline, the trap after it |
| graph scheduler | `src/graph_scheduler.c` | the queue of `Node *`, the map from handles to nodes, `parent`, `h` and `in_queue` of each node | register, next, poll, wait, finish, free, current |
| queue scheduler | `src/queue_scheduler.c` | a queue of handles | the same table; waiting is polling |
| async API | `src/async.c` | none of its own | `async_call`, `await`, `await_any`, `await_all`, `async_skip`, `async_return`, `async_free`, `async_orphan`, `run_async_main` |
| hash map | `src/hashmap.c` | an open table of chains, a pool of nodes with a free list | get, insert, remove, expand |
| arena | `src/arena.c` | a chain of chunks, each with `len` and `cap` | `arena_init`, `arena_alloc`, `arena_deinit` |
| socket I/O | `src/io.c` | the packed arguments of each call | `pack`, `unpack`; `async_recv`, `async_send`, `async_accept` and their `await_` forms retry on `EAGAIN` with `async_skip` |
| coroutine echo server | `examples/echo_async.c` | one buffer per `echo_loop`, `current_client_cnt` | accept, read a message, echo it, print statistics |
| epoll echo server | `examples/echo_epoll.c` | list of client records with mode and buffers, `current_client_cnt` | a loop around `epoll_wait`: accept, update a client, close it |
| strings | `examples/str.c` | a growable buffer; references into one | append, concat, clone, reserve, resize, clear; trim, split |
| test runner | `tests/runner.c` | pipes to the program under test | feed the input, compare the output |
| tests, scripts, logging | `tests/*.c`, `examples/*.py`, `src/dbg.h` | - | - |

**How they interact.** The API calls the scheduler through the function table
`Scheduler` (`scheduler.h`); `async_init` installs the graph scheduler.  Both
schedulers share the pool of slots.  A handle is the 1-based index of a slot and
says nothing about which coroutine occupies it: a slot freed by `async_free`, or
by the return of an orphan, is taken by the next `async_call`.  `await` puts the
caller out of the queue, makes it the `parent` of the awaited node and switches
away; `async_return` of the child wakes the parent through that pointer.
`await_any` and `await_all` stay in the queue and poll with `async_skip`.  Over
the queue scheduler `await` does so, too.  The socket calls skip when the system
call would block.  `echo_async` runs `accept_loop`, `server_stats` and one
orphaned `echo_loop` per client on top; `echo_epoll` uses nothing of the library.

**What is hard.**  Nothing runs in parallel, but every API call may switch, so
what a coroutine knew before the call may be stale after it: handles whose slot
has another occupant, parents that were freed, nodes that are queued already.
The scheduler finds out who calls it by looking at the front of its queue, so
the queue, the `in_queue` flags, the map, the task states and the stack in use
must agree at every switch.  All of the library's checks are assertions: a
mistake of either side ends the process.  In the servers messages arrive and
leave in pieces, clients leave at any point and come back on the same
descriptor, system calls fail halfway through a handler, and the events of a
batch are handled after they were true.

**What makes each component correct.**
* Ring queue: it is a double-ended queue, through every wrap and expansion, and
  nobody reads a cell nobody wrote.
* Pool: the free list holds each free slot once and no slot in use.
* Graph scheduler: the queue lists exactly the runnable coroutines, each once;
  its front is the one running; the map names exactly the slots in use; the one
  who waits is woken by the one it waits for, and only then; there is always
  somebody to switch to; whoever is queued gets the CPU.
* API: `await` yields the result of the coroutine that was awaited; polling does
  so too for careful programs; no assertion fails in a careful program; the slot
  of an orphan comes back.
* Hash map: a finite map.  Arena: no byte is given out twice, and each is in the
  arena's memory (the second half is not so, see 4).  Strings: they hold
  what the calls say, NUL-terminated, within their capacity.
* Socket I/O: what is packed is unpacked, stays in its buffer, and survives until it
  is read (the last two do not hold, see 4).
* Echo servers: the bytes a client is sent are those it wrote, in their order; a
  connection is served once, counted once (but see 4) and closed once; who waits for
  an echo is sent it.

The list `hazards` of `PROJECT.json` names, line by line, what can go wrong and
which property would show it.

## 2. Modules

| Module | Models |
|---|---|
| `Deque`, `FiniteMap` | abstract: a double-ended queue, a finite map |
| `AsyncSpec` | abstract: coroutines are called, return once, are freed; a wait ends when what it waits for has returned |
| `EchoSpec` | abstract: each client is sent the bytes it wrote |
| `RingQueue` | the `queue_*` macros, cell by cell, with uninitialised memory |
| `HashMap` | `hashmap.c` as the graph scheduler uses it: chains, the list of free nodes, expansion in place |
| `TaskPool` | the pool, its free list, and what `async_switch` does to a task state |
| `GraphRuntime` | extends `TaskPool`: the graph scheduler and the API, as one runtime |
| `QueueRuntime` | extends `TaskPool`: the same API over the queue scheduler |
| `PackedArgs` | `pack` and `unpack` |
| `AsyncIo` | extends `PackedArgs`: the socket calls that return a handle, and the stack memory their arguments lie in |
| `Sockets` | external: stream sockets, and the clients of `examples/echo_client*.py` |
| `EchoAsync`, `EchoEpoll` | extend `Sockets`: the two echo servers |
| `ClientList` | the list of client records of the epoll server |
| `Strings`, `StringRefs` | `examples/str.c` |
| `Arena` | `arena.c` |
| `Parts` | composes the modules that work alone: `RingQueue`, `HashMap`, `Arena`, `ClientList`, `Strings`, `StringRefs`, `PackedArgs`, and `QueueRuntime` |
| `MCParts`, `MCRingQueue`, `MCGraphRuntime`, `MCQueueRuntime`, `MCEchoAsync`, `MCEchoEpoll` | finite values for these |
| `PartsProofs`, `GraphRuntimeProofs`, `QueueRuntimeProofs`, `EchoAsyncProofs`, `EchoEpollProofs` | the theorems, about the modules of these names; the first a section for each of the parts |
| `SequenceLemmas`, `TaskPoolProofs`, `SocketsProofs` | lemmas that several of them need: on sequences and loops, on the pool and its free list, on byte streams and the clients |

### RingQueue
Each macro is an operator on the record `Queue` of array and indices, in the
order of its statements: a push allocates on first use, expands when one more
element would make `start = end`, stores, and moves an index.  `Expand` keeps
the old cells, fills the new ones with `Junk` as `realloc` does, and moves the
wrapped part.  An underflow is an assertion and therefore no step.

### HashMap
A chain of nodes is a sequence; an insert at the head of a chain is a push to
the front, `prev->next = next` takes the node out.  `Expanded` is the loop of
`hash_map_expand`: it visits the cells in order and works on the table that the
earlier rounds have left, so a node moved to a later cell is met again.  `call`
records the last call, so that the refinement of `FiniteMap` ties each call to
its effect.  `hash_map_remove` leaves the list of free nodes as it was
(`hashmap.c:108`, 109), so removed nodes are lost and the table grows with the
number of inserts; on the other hand, `graph_register_task` would find the old
value in a reused node and dereference `NULL`: the mutant `FreedInOrder` shows
that mending one of the two alone breaks the map.

### TaskPool and GraphRuntime
Coroutines are cooperative.  The program is at one point at any time, and an
action is the stretch from one API call to the point where that call returns to
its caller or switches to another coroutine.

| C | TLA+ |
|---|---|
| `pool.tasks[i-1]`, `pool.len`, `pool.free_task` | `tasks[i]`, `len`, `free_task` |
| the stack the CPU executes on | `cur` |
| `graph.queue` | `queue`, a sequence (that is what `RingQueue` implements) |
| a `Node` | an element of `Coroutine`; `node[n]` holds its fields |
| `graph.handle_to_node` | `handle_to_node`, a function (that is what `HashMap` implements) |
| the saved stack of a coroutine, as far as the library is on it | `frame[h]`: the call it is in, the handles it waits for, and the node it found for them |
| `assert`, `exit` | `process` |

`calloc` makes a node for each coroutine and the code never frees one, so the
address of the node identifies the coroutine.  The model lets an address come
back once no pointer of the program reaches it (`Reachable`), which keeps the
state space finite and which no program can observe.  The result a coroutine
stores is named after it: two coroutines never return the same value, so a stale
result is seen.

`disowned`, `owner` and, while polling, `frame[h].ids` are history: the code has
no such variables, and no action reads them except through `Contract`.

**Contract.**  The users of the library are the environment.  With the empty
contract they make any call, with any handle ever issued, in any order.  The
library documents hardly any rule, so the rules that the properties turned out
to need are named clauses:

| Clause | The user ... |
|---|---|
| `unfinished` | awaits only a coroutine that has not returned |
| `unblocked` | awaits no coroutine that is inside `await` itself |
| `sole` | awaits no coroutine that somebody else awaits, and not itself |
| `disowned` | does not wait for a coroutine it passed to `async_orphan` |
| `inherited` | does not wait for a coroutine whose slot carries the orphaned flag of a former occupant (no user can know; see findings) |
| `children` | waits only for coroutines it started |
| `freeDone` | frees only a finished coroutine nobody waits for |
| `orphanLive` | orphans only an unfinished coroutine nobody waits for |
| `returns` | leaves a coroutine only through `async_return` |

An action whose assertion fails is an action `...Aborts` that sets `process` to
the name of the assertion.  The graph scheduler's `cleanup` frees memory before
`exit` and is not modelled.  `await_any(0)` and `await_all(0)` are not modelled.

### QueueRuntime
`queue` is the queue of handles, `frame[h]` the waiting loop a coroutine is in;
`await` is `await_any` of one handle (`busy_wait_ready`).  The scheduler keeps no
record of who waits for whom and `queue_free_task` is empty, so a freed
coroutine may be scheduled: `CanRun` is the assertion of `async_switch`.  If its
slot is taken again first, its handle is in the queue twice, and the later of the
two comes to a coroutine that runs, waits, or has returned.  A coroutine may even
free itself and be given its own slot by the next `async_call`; when it then gives
up the CPU, the new coroutine starts on the stack it is on, and it never continues
(`Suspended`).  `occupant` and `owner` are history.  A user needs fewer rules than over
the graph scheduler: `kept`, `children`, `freeDone` and `orphanLive`.  Waiting for
a coroutine that has returned, or that waits, or that others wait for, is fine.

### AsyncSpec
Both runtimes are mapped to the coroutines that live, those that have returned,
and the waits: a node of the graph scheduler, or the occupant of a slot, is the
coroutine.  Careful programs cannot tell the two schedulers apart by it.

### Sockets and EchoSpec
A client connects, writes messages (a size, big-endian, and the bytes), reads,
and may leave at any point; then its descriptor is used again.  `inbox` and
`outbox` are the bytes under way.  `recv` returns any non-empty prefix or finds
nothing although bytes were written; `send` takes any part there is `Room` for.
A connection that the other end has left ends the stream or fails, whichever the
kernel prefers.  `expected` is what a client has written and not read back.

### EchoAsync
Of the runtime it uses what `GraphRuntime` shows of it: a queue of which only the
front runs, that a coroutine leaves by returning, with `async_call` and
`async_skip` at its back; `main` blocks in `await` for ever.  An action is one
system call and what the coroutine does up to the next: `Reading` and `Written`
are `read_n_bytes` and `write_n_bytes` with the part of `echo_loop` that follows.
`accept_loop` does not skip after a successful or a failed `accept`: `AcceptFails`
changes nothing and may go on for ever, and no fairness stops it.  A client
whose `fcntl` fails is `"leaked"`.  `send` to a client that has left may kill the
process by `SIGPIPE`.  Times and `bytes_processed` are only printed and left out.

### EchoEpoll and ClientList
An action is the handling of one event of the batch `epoll_wait` returned, while
clients go on.  The record holds `size`, `msg`, what was sent of both (`sent` is
`size_ptr` and `msg_ptr`), `read_buffer` between its pointers, and whether
`read_ptr` is not 0 (`begun`).  Sockets of clients block: a `send` without room
stops the whole server, so it is a sequence of actions, `SendPiece`, that only
the client's reading lets go on.  The kernel's list of interest is `conn`.
`ClientList` is the list of records alone, since nothing but `server_new_client`
and `server_close_client` reads it.  `free_clients` never gets a record: the
branch that takes one from it is in the model and never taken.

### PackedArgs and AsyncIo
A buffer is its header and its bytes; byte `b` of value `v` is a pair.  A letter
that is unknown ends both functions with -1; `pack` then leaves the header as it
was, and `unpack` reads that as arguments of no or another length.  `AsyncIo` keeps
for each coroutine what its last call has packed in the memory where `arg_buf` lay:
`async_recv` has returned when its coroutine starts, so that finds what was packed
there last (by this or a later call of the same coroutine), or anything else that
other functions have written over it (`Overwritten`): a header of a wrong length,
which the assertions of `unpack` notice, or of the right one in front of any
descriptor, which nothing notices.  The `await_` forms keep their arguments in the
caller's frame, which lives as long as they wait; their retries are in `EchoAsync`,
which uses them.

### Strings, StringRefs, Arena
A string is its block with garbage where nothing was written, `len` and `cap`;
`text` is the history of what the calls say.  `string_reserve` enlarges the block
and not `cap`, as in the code.  `string_resize` pads `cap` bytes from `len` on,
which is past the block unless the string is empty: the contract of `Resize`
excludes that, as its only caller does by clearing first.  `StringRefs` has no
state.  In `Arena` a chunk after the first claims twice the memory it has got
(`arena.c:38`, 39).  An offset is an address only up to the size `malloc` was asked
for; `NoByteTwice` is about those bytes, `WithinCap` says that no block exceeds its
chunk's `cap`.  That none exceeds the memory is not so (section 4).

## 3. Runs

The parts that share no state are in one run, `parts`: a behaviour of `Parts`
exercises one of them, chosen in its first state and named in `part`, and leaves
the others alone.  What has no state, `PackedArgs` and `StringRefs`, is looked at
in the one state of `"none"`.

| Run | Instance | Question |
|---|---|---|
| `parts` | ring: 2 elements, growth 3, capacity up to 9; table: 5 keys, 2 values, growth and load 1, 8 allocations; arena: chunks of 4, 8, 16 ..., 6 allocations; list: 7 records; strings: 2 of up to 3 characters, extra 2; queue scheduler: 2 slots, 3 coroutines, 4 queued, empty contract; formats of up to 4 letters, texts of up to 6 characters | is the ring a deque, the table a map, the list linked; are bytes of the arena given out once; do strings hold their text; is what is packed unpacked, and nothing else; whatever is freed and called over the queue scheduler, is the front of the queue the caller, and main in it? |
| `ring_queue_debug` | the real growth 10, only register and skip | does `verify_queue`'s assertion hold? (no) |
| `graph_any` | 2 slots, 4 nodes, empty contract, fairness | do the parts agree, whatever the users call, and does everyone in the queue get the CPU? |
| `graph_chain` | 3 slots, 4 nodes, users wait as they like | is every waiter linked to whom it awaits, is there always a successor? |
| `graph_careful` | 3 slots, 5 nodes, polls of 2 handles, every clause | does a careful program ever abort, or poll a stranger; does it get the abstract API? |
| `graph_waits` | 3 slots, 3 nodes, every clause, fairness, coroutines return | does every wait end, is every orphan reclaimed? |
| `queue_runtime` | 3 slots, 4 coroutines, polls of 2 handles, every clause, fairness, coroutines return | the same three questions over the queue scheduler |
| `echo_async`, `echo_epoll` | 2 clients, one of which writes ahead; messages of 0 and 1 bytes; room for 2 bytes, buffers of 3; all faults; fairness | is what is echoed what was written, is each connection served once (`echo_async`) or counted as long as it is open (`echo_epoll`), is everyone answered? |
| `graph_finished`, `graph_inherited` | every clause but one | the assertion that clause keeps from failing (violations, see findings) |
| `async_io_args` | 1 caller, 1 descriptor | do the arguments of `async_recv` arrive? (no) |

**Bounds.**  `MaxTasks` bounds the slots (in C the pool grows without limit; the
model's `async_call` is not enabled when it cannot grow).  Two slots give reuse,
a full cycle through the free list, mutual waiting and self-waiting; three give
chains of waiters, an intermediate parent, a free list of two, and a third party
that frees or reuses the slot of either side while they wait.  One node more
than slots is needed because a freed coroutine can still be a parent or be
remembered by a waiter.  `MaxQueue` bounds the queue of the queue scheduler: with
`freeDone` no handle is in it twice, and `MaxTasks` is no bound at all; without,
`MaxTasks + 2` lets both slots be queued twice, or one of them three times.
`MaxPoll = 2` tells `any` from `all`.  `MaxCap = 9` and
`Growth = 3` let the ring expand from 0 to 3 and from 3 to 9 with the contents
at every offset; the proofs do not depend on these values.  Growth 1 and load 1
take the hash table from 1 to 3, 7 and 15 cells within eight inserts; between
30 and 70 cells of the real table keys move as they do between 3 and 7.  Node addresses are
symmetric in `graph_chain` and `graph_careful`; elements, values,
names and characters are in `parts`.

In the servers a byte has 2 values for 256 and a size 2 bytes for 4, so that a
size can be cut in the middle.  A buffer of 3 bytes is less than two messages of
1 and more than one of 0: a `recv` can end in a size, in a message, at the end of
either, or hold the beginning of the next one; room for 2 bytes makes `send`
partial.  `Ahead` lets one client write again with 2 bytes of its echo to come,
and the other one, like the scripts, only when it has read all.  `MaxCount` lets
`accept` of the epoll server fail only while fewer are counted, since each
failure counts one more for ever.  `EVENTS_CNT = 2` of three possible sources
gives batches that leave somebody out.  Chunks of 4 bytes and strings that grow
by 2 are as full or as empty as those of 64 and 10 are, at their boundaries.

**Fairness.**  `FairSpec` has weak fairness of `Proceeds`: the stretches by which
the CPU may leave a coroutine, and the loops of `await_any`, `await_all` and the
rest of `await`, which the library executes without the user.  It says that the
running coroutine does not compute for ever, nor call only functions that never
switch.  Cooperative scheduling can promise nothing without it.
`TerminatingSpec` adds strong fairness of `Returns(h)`: a coroutine that gets the
CPU again and again returns in the end.  That is an assumption about the user's
code, and is used only for `WaitsEnd` and `OrphansReclaimed`, which are about
what depends on other coroutines' returning.  `FairSpec` of `QueueRuntime` is the
same two assumptions.

`FairSpec` of `EchoAsync`: `main`, `server_stats` and each `echo_loop` go on when it
is their turn, and bytes that were written arrive, now and then before the server
asks for them (`SF(RecvBytes)`).  Only a call that would block gives up the CPU, so
an `accept` that keeps failing, a stream of new connections, or a client that always
has bytes ready starves all others for as long as it goes on.  The code does nothing
about that and the model assumes nothing about it: `Answered` says that a client is
answered unless `accept_loop` or one other `echo_loop` runs from some point on for
ever (`KeepsTheCPU`).  So nobody is starved by several that take turns, by a client
that does not read, or by those that wait.

`FairSpec` of `EchoEpoll`: the process runs; a descriptor that is ready again and
again is reported in the end, with what has arrived (`SF(Reports)`), and pending
connections are accepted in turn; and clients read what they are sent
(`WF(Reads)`), because one that does not stops this server.  `Answered` excepts a
client the server is reading from (`mode` is `Reading`), of which it has bytes in
`read_buffer` and nothing more is on its way (`Forgotten`): not one whose message is
being written.

**Mutants.**  For every checked property `PROJECT.json` names a mistake in one
definition (a dropped guard, a missing reset, an unset flag); the mistakes are
the definitions marked `mutant` beside the right ones.  With the mistake in
place TLC finds the property violated under the same configuration.

## 4. Findings

Each is a violation run, and an assertion of the code fails in it.
* `verify_queue` (`graph_scheduler.c:36`, DEBUG builds) asserts `start <= end`
  of a ring: ten registrations or skips abort every DEBUG program
  (`ring_queue_debug`).
* `start_new_task` (`scheduler.c:49`) does not clear `orphaned` when it reuses a
  slot: the new coroutine is an orphan nobody orphaned, and awaiting it aborts
  (`graph_inherited`).
* `await` of a coroutine that has returned aborts (`switch.c:51`), for instance
  of the one `await_any` has just reported; the queue scheduler returns at once
  (`graph_finished`).  For the same reason `await` of a coroutine that is inside
  `await` resumes it too early, and its own assertion fails
  (`graph_scheduler.c:154`); the clause `unblocked` excludes it.
* `async_recv`, `async_send` and `async_accept` pass the address of a local array
  to a coroutine that starts after they have returned (`async_io_args`).  Two
  such calls of one coroutine both work on the arguments of the second, if the
  assertions of `unpack` do not end the process.

Met while modelling, without a run of their own:
* `async_free` of a coroutine that is blocked in `await` passes
  `graph_free_task`'s assertion (`graph_scheduler.c:110`); when the one it waits for
  returns, `graph_finish_task` takes the handle of its node, 0, without the check of
  the other branch (lines 85, 98), and `async_return` aborts (`switch.c:45`).  The
  clause `freeDone` excludes it; without that clause `NoAbort` fails so.
* With the queue scheduler `async_free` of an unfinished coroutine leaves a `FREE`
  slot in the queue (`queue_scheduler.c:23`), which `scheduler.h:11` calls
  unreachable, and the skip that comes to it aborts (`switch.c:50`); if the slot is
  taken first, its handle is queued twice.  Again the clause is `freeDone`.
* `pack` asserts `size >= ptr` before each argument (`io.c:143`, 149, 155), which
  leaves out the bytes about to be written: one `int` packed into 8 bytes passes and
  lies behind the buffer.  The buffers of the library have 256 bytes.
* A chunk of the arena after the first gets half the memory its `cap` says
  (`arena.c:39`), and its later blocks lie in nobody's memory.
* `current_client_cnt` of the epoll server goes up before `accept` and stays up
  when `accept` or `epoll_ctl` fails (`echo_epoll.c:281`); `CountsClients` says that it
  is never too low.
* A message that the epoll server has received together with an earlier one is
  looked at when the next bytes arrive; the last one of a client that then waits
  is never answered.  `Answered` excepts it by name (`Forgotten`).
* In `echo_async` a connection whose `fcntl` fails stays open and unserved, in
  `echo_epoll` one whose `epoll_ctl` fails.
* Closing the head of the client list leaves `server->clients` pointing at it, and
  the records behind it are reached no more from a later head.
* `string_reserve` does not raise the capacity it reserves.

## 5. Proofs

What follows holds for every value of the constants: any number of slots and
coroutines, any clients, messages, buffer sizes and failing calls.  It rests on
the assumptions named in the modules (`RingAssumption`, `PoolAssumption`,
`GraphAssumption`, `QueueAssumption`, `SocketAssumption`, `AsyncAssumption`,
`EpollAssumption`, `PartsAssumption`) and, where it says so, on rules of
`Contract`.  A theorem that needs rules states them as `... \subseteq Contract`;
the runs `graph_careful` and `queue_runtime` have users who follow all of them.
Every inductive invariant was checked by TLC on small instances before it was
proved.

**Loops and recursive functions.**  The library's induction theorems take an
operator as a parameter, which the provers cannot instantiate.  `SequenceLemmas`
states induction with a set instead: a set that holds 0, and `n + 1` with every
`n`, holds every number (`SetInduction`).  A recursive function of a `LET` is a
`CHOOSE`, so before anything can be said of it there must be one: `RunExists` says
that for every first value and every step there is a run of the loop, and the
value of the recursive function is that of the run.  What a loop of the code has
done after `i` rounds is then a set of numbers like any other.  The loops of
`hash_map_expand`, `arena_alloc`, `pack`, `string_concat`, `string_ref_clone`,
`string_ref_trim_left_ws` and of splitting are reasoned about in this way.

**The parts** (`PartsProofs`).  Each theorem is about the specification of the part
alone; `EachPartAlone` says that `Parts` implements each of these, and
`PartsAreCorrect` that the properties of the run `parts` hold of `Parts`.

| Part | Theorems | For every |
|---|---|---|
| ring queue | `RingCorrect` (`RingOK`), `RingImplementsDeque` | set of elements, growth of at least 2, number of expansions |
| hash map | `TableCorrect` (`TableOK`), `TableImplementsMap` | set of keys and values, growth, load, number of nodes |
| arena | `ArenaGivesOnce` (`ArenaOK`) | first capacity, size and number of requests |
| client records | `ListLinked` (`ListOK`) | number of records |
| packed arguments | `PackedArgsReturn` (with `PackedIsUnpacked`, `OtherLengthsAreNoticed`, `RefusalsAreNoticed` it gives `PackOK`) | buffer, format, values and size |
| strings | `StringsHold` (`StringsOK`) | set of characters, length |

* *Ring queue.*  The invariant is `RingOK`.  The heart is what a push does to the
  contents when the array expands: the cell of the i-th element before and after,
  unwrapped and wrapped.
* *Hash map.*  `TableInv` says that no two nodes have one key and that each is in
  the chain of its key (`InOrder`).  During an expansion that is true of the cells
  visited so far only, and a node moved to a later cell is met again there:
  `RehashedKeeps` is the invariant of the inner loop, in which the nodes not yet
  taken wait outside of the table, and `ExpandedKeeps` that of the outer one.  A
  node that is looked for is found at once, because its chain holds it and nothing
  with its key before it (`PlaceFinds`).  The refinement needs only what the table
  holds (`Stored`).
* *Arena.*  `ArenaInv` adds that every block ends where the filled part of its
  chunk does, or before; `ChunksAdded` says that a chunk that is added changes none
  of the others.  Disjoint offsets of one chunk are disjoint bytes where there is
  memory; what is behind it no theorem speaks of.
* *Client records.*  `ListOK` is not inductive, since it speaks of open records
  only; `ListInv` says that forward and backward links agree everywhere, that a
  record is linked only to older ones (so the two neighbours of a record differ
  from it and from each other), and that `free_clients` is never anything but 0.
* *Packed arguments.*  `Copies` says which byte lies where, argument by argument,
  `BytesArePacked` that it stays there over whatever the buffer held, and `Unpacked`
  that what is found there again is the argument.  That the buffer is still the one
  packed when it is read is what the code does not have (section 4).
* *Strings.*  `StringIs` says that a string holds a text and a NUL behind it, and
  each function is shown to take a string that holds one text to a string that
  holds another.  The proof needs `Extra >= 2`: with 1, the first character of an
  empty string would leave no room for the NUL; the code adds 10.
* *String references.*  `TrimsAll` and `CutsAll` say of references of any length,
  not only of the `Texts` of the run, that what is trimmed is every leading blank
  and tab, and that what is split off are the words.

**Graph scheduler** (`GraphRuntimeProofs`).  Five layers of invariants:

| Invariant | Rules | Theorems |
|---|---|---|
| `IInv` | none | `Consistent`, `GraphTypeCorrect`, `QueueConsistent`, `CallerIsFront`, `RegistryConsistent`, `ParentsBlocked`, `FreeListCorrect` |
| `WaitInv` | none | `NobodyForgotten` (`WaitersLinked`), `AwaitReturnsResult` (`AwaitYieldsResult`) |
| `ChainInv` | `freeDone` | `SomebodyRuns` (`SuccessorExists`) |
| `ResultInv` | `inherited`, `freeDone`, `orphanLive` | `PollReturnsResults` (`PollYieldsResults`), `GraphImplementsAsync` (`ImplementsAsync`) |
| `SafeInv` | all but `disowned` and `children` | `NeverAborts` (`NoAbort`) |

`IInv` is the conjunction of the properties, because none is inductive alone:
* that a new coroutine does not take over an entry of the map needs the shape of
  the free list, since its slot is taken from there;
* that the shape survives a free needs the map, since `async_free` checks the
  map and not the state of the slot;
* that the coroutine switched to by `async_return` can run, if it is the woken
  parent, needs `ParentsWait`, and otherwise `QueueOK`;
* `ParentsWait` survives a return because the caller cannot be the parent of an
  unfinished coroutine: such a parent is inside `await`.

`FreeChain` is `FreeListOK` without its bound on the length; the bound follows by
the pigeonhole principle.

`WaitInv` adds what frames say: only a coroutine that has started and not
returned is inside a call, a slot of a finished coroutine holds its own node's
result, the node an `await` remembers is forgotten or still that of the slot it
was called with, and whoever is out of the queue is the parent of the node it
awaits.  The last two need each other: that a node is not reused while somebody
waits is what the frames keep in reach.

`ChainInv` adds that nobody waits in a circle (`NoCycle`): among any set of blocked
coroutines one awaits somebody outside of the set.  This is the form of "the
chain of waiters has an end" that needs no induction.  `await` cannot close a
circle because its caller is the one that runs.  When a coroutine returns, take
the set of all blocked ones, which `main` is in unless it is queued: the one that
awaits somebody outside awaits the coroutine that returns, so it is woken.

`ResultInv` adds that the handles a coroutine waits for still name the coroutines
they named when the wait began, and carry no orphaned flag (`Kept`).  It fails
without `inherited`: the slot of a coroutine nobody orphaned can be reclaimed.
In the refinement a coroutine is its node; the state of the slot says whether it
lives or has returned, and its frame is its wait.

`SafeInv` adds that an `await` whose caller is back in the queue finds its
coroutine finished (`WokenReady`), and that nothing has failed yet.  So the rules
`disowned` and `children` follow from what the others demand, as far as
assertions go.  They stay in the contract for `graph_waits`.

The calls that change more than their caller's frame are first reduced to what
they do, slot by slot and node by node (`Called`, `Awaits`, `Frees`, `Returned`);
everything else is a step of `Moves`.  The layers above `IInv` are proved about
these five.

**Queue scheduler** (`QueueRuntimeProofs`):

| Invariant | Rules | Theorems |
|---|---|---|
| `PoolInv` | none | `QueueConsistent`: `TypeCorrect` (`TypeOK`) and `QueueKept` (`QueueOK`) |
| `CarefulInv` | `freeDone` | `HoldsLive` (`QueueHoldsLive`), `NeverAborts` (`NoAbort`) |
| `ResultInv` | `kept`, `freeDone`, `orphanLive` | `ReturnsResults` (`YieldsResults`), `QueueImplementsAsync` (`ImplementsAsync`) |

Without `freeDone` hardly anything holds, because `queue_free_task` does nothing:
handles are queued twice, and the free list may run in a circle.  What is left is
`QueueOK`: the front is the coroutine on the CPU, and `main` is queued.  For that
`PoolInv` needs only that links of the free list, sound or not, and the handles
in the queue stay within the pool. With it the queue is the set of unfinished
coroutines, and the free list is what `start_new_task` takes it for.
`GraphImplementsAsync` and `QueueImplementsAsync` together say that a program
that follows the rules of both cannot tell the schedulers apart by what
`AsyncSpec` promises.

**Echo servers** (`EchoAsyncProofs`, `EchoEpollProofs`).  For the coroutine server
`KeepsBytes`, `ServesOnce` and `AsyncImplementsEcho`; for the epoll server
`TypeCorrect`, `KeepsBytes`, `HandlesNoStaleEvent`, `CountsOpen` and
`EpollImplementsEcho`.  The heart of both is one equation for each client (`Kept`):
what it still expects is what is on its way to it, what the server holds for it,
and what is on its way to the server, in this order.  Each `recv` and `send` moves
a cut in that stream, and the state machine decides which part is held where: the
proofs also need, for every state of the machine, what is complete and what is
empty (`LoopOK`, `RecordOK`).  `ServesOnce` needs that the queue holds exactly the
open connections; `HandlesNoStaleEvent` that a batch has at most one event for
each connection, and `CountsOpen` an upper bound for the counter, to stay typed.
The refinements follow from the equation, since `EchoSpec` lets a server send only
a prefix of what is expected.

**Only model-checked.**  The liveness properties `Scheduled`, `WaitsEnd`,
`OrphansReclaimed` and `Answered`: the prover does not treat fairness.  Every
other property of a passing run is stated by a theorem.

## 6. Not modelled, and the plan

Not modelled:
* `stop_server` of the epoll server: `run_server` never returns, so it is never
  reached (it would read `client->next` after `server_close_client` has
  overwritten it).
* `string_substr`: it has no caller and only computes an address.
* The test runner: test tooling with strings of its own.  It can block for ever
  with its test (it writes all input before it reads) and may cut an output.
* `tests/*.c` and `src/test.c`: programs that use the library.  The calls they make
  are among those the runs of `GraphRuntime` explore.
* The stacks and saved registers, a failing `mmap`, `malloc` or `realloc`, memory
  freed at exit, the `Node` leaked per coroutine, the statistics that are only
  printed, logging.
* The scripts that measure and plot; what their clients write and read is the
  environment in `Sockets`.

The plan:
1. (done) `RingQueue`, `TaskPool`, `GraphRuntime`, `HashMap` with `Deque` and
   `FiniteMap`.
2. (done) `QueueRuntime` and `AsyncSpec`; `PackedArgs`, `AsyncIo`; `Sockets`,
   `EchoSpec`, `EchoAsync`, `EchoEpoll`, `ClientList`; `Strings`, `StringRefs`;
   `Arena`.
3. (done) The proofs of section 5: the layers of `GraphRuntime` and `QueueRuntime`
   with the refinements of `AsyncSpec`, and the two servers with the refinements of
   `EchoSpec`.
4. (done) The theorems about the parts, among them the loops of `HashMap`, `Arena`,
   `PackedArgs`, `Strings` and `StringRefs`.
5. Left: what depends on fairness stays with TLC.
