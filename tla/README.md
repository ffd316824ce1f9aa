# A verification project for chlibs

`chlibs` is a set of C libraries with an RPC library (`chrpc`) on top.  This
directory holds TLA+ models of its concurrent parts, the TLC configurations
that check them on small instances, and TLAPS proofs of what holds for every
size.  All source paths are relative to `src/`.

## 1. The system

| component | state | operations | what makes it hard |
|---|---|---|---|
| RPC server (`chrpc/src/rpc_server.c`) | cyclic queue of channels, `num_channels`, `id_counter`, `should_exit`, worker threads with their locals | `new_chrpc_server`, `chrpc_server_give_channel`, the worker loop, `delete_chrpc_server` | every worker can serve every channel; a channel is in nobody's hands but one worker's between poll and push, without a lock; a disconnect is three steps and one lock; the owner stops it at any time |
| endpoint dispatch (same file) | read-only map of endpoints | parse, look up, call, respond | every failure must still be answered, or end the connection |
| RPC client (`rpc_client.c`) | a channel or NULL, one buffer | `chrpc_client_send_request`, `new_chrpc_local_client` | a timeout races a late answer; one buffer for request and response |
| channel interface (`channel.c`, `channel.h`) | none, a table of functions | `chn_send`, `chn_refresh`, `chn_receive`, ... | the meaning of the return codes |
| file-descriptor channel (`channel_fd.c`) | two descriptors, a partial frame, a queue of messages | the channel operations | bytes arrive in any chunks; other writers; a short write; the descriptor table is shared by all threads |
| local channels (`channel_local.c`, `channel_local2.c`) | one or two bounded queues, a core shared by two ends | the channel operations | a full queue; the core is freed by a third party |
| echo thread (`channel_helpers.c`) | a thread, a stop flag | start, stop | stops between two messages |
| serialisation (`serial_type.c`, `serial_value.c`) | none | to and from byte buffers | lengths, truncation, recursion; every error path frees what was built so far |
| process services (`chsys/src/sys.c`, `log.c`, `mem.c`) | system lock, list of children, signal flags, allocation count | fork, wait, exit, signal thread, log, malloc | fork with a lock taken; fork between `malloc` and its count; exit with the lock taken; `waitpid` outside it |
| listener (`chsys/src/sock.c`) | none | connect, listen | - |
| containers (`chutil/src/queue.c`, `map.c`, `list.c`, `heap.c`) | tables and lists | push, poll, put, get | wrap-around, growth |
| strings, streams, UTF-8, JSON (`chutil`, `chjson`) | buffers | text handling | sequential |
| chatroom (`chrpc/examples/chatroom`) | users, mailboxes, a readers-writer lock | login, logout, send, poll | a disconnect is reported after the place was given away; a broadcast goes round a map with one iterator; a mailbox is used through a pointer |

How they interact: a *client* thread sends a request over its end of a
*channel* and polls for the answer.  The other end was given to the *server*,
whose *workers* poll the queue of channels, receive at most one request per
turn, call an *endpoint*, and send the answer over the same channel.
Endpoints answer with a command: keep the connection or cut it; in the second
case the worker deletes the channel, gives its place back and calls
`on_disconnect`.  A channel over descriptors shares the descriptor table with
the thread that accepts connections.

What makes each part correct:

* server: a channel has one user at a time and is never lost; the count of
  connections is exact; ids are never used twice; answers come in order;
  shutdown frees nothing that is in use; a request is eventually received.
* descriptor channel: whole messages in order whatever the chunks; a failed
  call changes nothing; a descriptor has one owner.
* client: an answer belongs to its request; after a timeout no late answer is
  taken for another.
* local channels: a bounded sequence; the core outlives its two ends.
* process services: the lock is usable after every fork, in the child too; no
  exit leaves a child behind, and every exit ends; the count of allocations is
  that of the blocks the program can free.
* serialisation and dispatch: a call returns what the endpoint returned, or the
  status that says why not; no write passes the end of a buffer; nothing leaks.
* containers: equal to sequences, maps and bags.
* chatroom: who is logged in is who is connected; a mailbox in use is not
  freed; a broadcast reaches everyone once.

## 2. Modules and the code

| module | what it is | code |
|---|---|---|
| `RpcServer` | the server, one action per critical section and per unlocked call others can observe | `rpc_server.c` 284-635 |
| `Connections` | what the server promises: a bounded set of connections, each with its answers, then its end and its report | abstract |
| `RpcServerProofs` | proofs about `RpcServer`: the server as a whole, what one connection sees of it, and that it implements `Connections` | |
| `MCRpcServer` | constants for TLC | |
| `LocalRpc` | clients in the same process, composed with `RpcServer` | `rpc_client.c` 28-319, `channel_local2.c` 52-180 |
| `LocalRpcProofs` | proofs about `LocalRpc` | |
| `MCLocalRpc` | constants for TLC | |
| `CyclicQueue` | the bounded queue as a table of cells | `chutil/src/queue.c` |
| `LocalChannel` | one direction of a local channel, with the buffers on the heap | `channel_local.c` |
| `LocalChannelProofs` | proofs about `CyclicQueue` and `LocalChannel` | |
| `MCLocalChannel` | messages for TLC | |
| `ChannelFd` | one direction of a descriptor channel, with real bytes | `channel_fd.c` 53-386 |
| `MessageChannel` | what a channel promises: whole messages, in order, a bounded number of them kept | abstract |
| `ChannelFdProofs` | proofs about `ChannelFd` | |
| `MCChannelFd` | messages and junk for TLC | |
| `Descriptors` | the descriptor table of a process with several channels | `channel_fd.c` 27-168, `examples/chatroom/server.c` 261-276 |
| `DescriptorsProofs` | proofs about `Descriptors` | |
| `MCDescriptors` | symmetry for TLC | |
| `Serial` | types and values, their constructors, equality, and the blocks they take | `serial_type.c`, `serial_value.c` 19-742 |
| `Wire` | writing them to a buffer and reading them from one | `serial_type.c` 145-281, `serial_value.c` 746-1217 |
| `CallBytes` | the bytes of a call, from the client's buffer through the dispatch of the server and back | `rpc_client.c` 28-269, `rpc_server.c` 24-418 |
| `CallBytesProofs` | proofs about `Serial`, `Wire` and `CallBytes` | |
| `MCCallBytes` | endpoints, calls and malformed messages for TLC | |
| `Sys` | a tree of processes with the system lock, their children, exits and signals | `chsys/src/sys.c`, `mem.c`, `log.c` |
| `SysProofs` | proofs about `Sys` | |
| `MCSys` | programs for TLC | |
| `Chatroom` | the chatroom's server and clients | `examples/chatroom/*.c` |
| `ChatroomProofs` | proofs about `Chatroom` | |
| `MCChatroom` | names and commands for TLC | |

Definitions followed by `\* variant: ...` are not part of a specification:
each is a definition with one plausible mistake in it, kept to show that the
properties notice it.

### RpcServer

The queue is the sequence the cyclic table stands for.  A worker's `pc` names
the place in `chrpc_server_worker_routine`: `check` (the exit flag), `poll`
(the queue, under `q_mut`), `receive` and `handle` (no lock), `calling` (inside
an endpoint), `decide` (requeue or cut), `release` and `notify` (the last two
of the three steps of a cut).  `ele`, `req` and `status` are its locals.  A
channel is a sequence `inq` of requests, a sequence `out` of answers, and a
flag `broken` that either side or the transport raises: what was written
before can still be received.  A request carries the verdict its dispatch will
reach (success, or the error it is answered with) and an endpoint returns with
an outcome: a command, and whether the value has the declared type and fits
the buffer.  `main` is the owner of the server, from `running` through the
steps of `delete_chrpc_server`.  `clock` is `time(NULL)`.

Left out: the bytes of a message (only its dispatch matters), sends that block
(with a descriptor channel they may; see `Descriptors`), failing allocations
(they end the process), the pauses of the worker, a NULL `on_disconnect`, and
the possibility that one caller gives a channel while another deletes the
server, which no caller of the library may do.

### ChannelFd and MessageChannel

`Send` appends a frame to the `wire`; `SendCut` appends a part of it and
closes the descriptor; `WriteJunk` is another program that writes to the same
descriptor, as the tests do.  `ReadChunk` is one turn of the read loop in
`chn_fd_refresh`: any number of bytes up to the chunk size, then the whole
inner loop over them.  That loop is the recursive function `ProcessAll`: since
`_chn_fd_process_single_msg` returns only to be called again, each round takes
the one step that the amount in `msg_buf` calls for.  `refreshing` says that
`chn_fd_refresh` still has the mutex.  `consumed`, `found` and `received` are
history.

`MessageChannel` sees `q` and the complete frames among the bytes on the wire
as one sequence `pending`, and may drop messages only while more than `depth`
are waiting.  Two things are taken for granted, and named: `Harmless`, that what
other programs write holds no frame and leaves none unfinished (such bytes would
be a message themselves, or swallow the one after them, as in the code), and
`LengthFits`, that the length of the longest message fits into its field
(`new_channel_fd` does not compare `max_msg_size` with `sizeof(uint32_t)`).  Both
are facts about constants; `MCChannelFd` assumes them, so TLC evaluates them for
the instance, and the theorem below has them as its hypotheses.

### Descriptors

`table` maps numbers to open files, `nonblock` is the flag of the open *file*,
so duplicates share it.  A connection hands its channel two files ("pair"), one
file with `read_fd = -1` ("dup"), or the same number twice ("same").  Accept,
`dup`, both halves of `setup_fds`, every `close` in send, refresh and delete
are steps of their own where other threads can come between; only the four
`fcntl` calls of `setup_fds` are one step.  A write that leaves room, a read
that finds bytes or nothing, and the two operations that only read a field
change nothing here.

### LocalChannel and CyclicQueue

`CyclicQueue` keeps the fields of `queue_t`: `cap`, `i`, `len` and the table.
`Cells` is the sequence the table stands for.  A cell of a local channel is the
address of a buffer, and a polled cell still holds its old address; `heap` says
which buffers are allocated and what is in them.  Every operation holds the
mutex from its first look at the queue to its last, so it is one action.  The
refinement to `MessageChannel` reads the buffers in the order of the cells.

### LocalRpc

Channel `c` of `RpcServer` is a core with two queues: `inq[c]` is one of them,
and the answers of `out[c]` after the first `taken[c]` are the other.  `client`
is where the thread of a client is: outside a call, in the poll loop
(`polling`), or gone; `chn` says that `client->chn` is not NULL and `waited` is
`time_waited`, a number modulo `Word`.  A client deletes only its own handle,
and so does the server: what is sent after that is never received, and the
other side sees silence, not an error.  The core is deleted by the program that
made the client (`DeleteCore`), which the tests and the header allow once the
last call was answered by an endpoint that disconnects, or after
`delete_chrpc_server` (`test/simple_rpc.c:301-309`, `rpc_client.h:85`).  Every
step is a step of `RpcServer` or none (`ImplementsServer`), so what holds there
holds here.

The queues have depth at least 1; `OneInFlight` shows that they never fill.
The bytes of a message are left out: the response carries the number of its
request and a status.

### Serial, Wire and CallBytes

A type is a record of its id and its parts.  The value of a type that the code
stores densely (`chrpc_type_is_blockable`) is the block of bytes it has in
memory; any other is a sequence of values.  `Types` and `Inners` are all types
and values that are at most `MaxSize` deep, with blocks of at most that many
bytes: a buffer of that size holds no others, so `MaxSize` stands for the memory
of the machine and bounds nothing else.  What the code does by recursion over
types is a recursive function on `Types`.  A string ends with its first 0, as
`strlen` finds it; what the code does with a block that has none is undefined,
and no model is given one.  Memory is counted in blocks, as `safe_malloc` counts
it: a constructor returns how many blocks are allocated when it is done,
`ValueBlocks` is how many `delete_chrpc_value` frees, and the two are written
from different functions of the source, so that `NothingLeaks` compares them.

A function that writes is given the room it has and returns its status and what
landed in the buffer, also when it fails; one that reads returns its status, the
value, the number of bytes it used and the blocks it left allocated.  The loops
over fields, entries and arguments stop at the first failure (`WriteEach`,
`ReadEach`), and `FreeRead` is the clean-up after it.

`CallBytes` is one connection with its two buffers, which keep what was in them:
a request, a response over its beginning, the next request over that.  A call is
`SendRequest`, `PollChannel`, `HandleRequest`, `Respond` and `ReceiveResponse`,
or fewer; `SendRaw` is a peer that does not use `chrpc_client_t`.  `cheap` and
`sheap` are the blocks each side has.  Transport, timeouts and scheduling are
those of `LocalRpc` and `RpcServer` and are left out here.  The specification of
a call is `Outcome`: it computes sizes from the grammar in `serial_type.h:8-22`
and compares signatures, without a byte.  `CallIsRight` compares it with what a
call of the client returns, and the values that were given and returned with those
that arrived; `RefusalIsRight` is about the messages of `SendRaw`.

### Sys

Every variable is a function of the pid.  `Fork` copies the memory of the parent,
its mutex included, and only the thread that forked; the kernel's part is
`status` ("zombie" until it is waited for), `parent` and one pending `SIGINT`.  A
thread's `pc` says where it is in `safe_fork`, `safe_waitpid`, `safe_exit` or
`sig_thread`.  A section that takes and releases `sys_mut` is one step if nothing
in it can be seen from outside, and several if it makes a system call.  `May` is
what the program of a process does: start threads, get interrupted, take the exit
upon itself and poll, allocate.

`safe_malloc` is two steps, `malloc` without the lock (`Malloc`) and the count
under it (`Count`), and so is `safe_free` (`Uncount`, `Free`).  A thread between
the two is in `InFlight`: it has a block that is not counted.  If another thread
forks then, the child has the block too, but not the thread: `stray` counts those
blocks, which nobody can free or report, and the one whose count overflowed.  `heap` is what is allocated, so `heap`
without the blocks in flight and the stray ones is what the program can free
(`MayFree`), and `BlocksCounted` compares it with `malloc_count`, which only
`Count` and `Uncount` change and `Fork` copies.

### Chatroom

`id_map`, `mailboxes` and `box` are the two hash maps and the lists of messages;
`global_lock` is `readers` and `writer`.  An endpoint is one step if it makes one
critical section, and several if a lock is taken and released in between; the
round of a broadcast is one step for each mailbox.  A client is its worker
thread, which sends the newest command and polls, and the prompt, which pushes
commands.  Of the RPC server it uses what `RpcServer` proves: one worker at a time
has a connection, and `on_disconnect` runs once, after it.  `Shutdown` merges
`delete_chrpc_server` and `delete_chatroom_state`, which nothing can observe
between.

## 3. Runs

All passing runs are exhaustive.

| run | instance | shows |
|---|---|---|
| `server_safety` | 2 workers, 3 channels, 2 places, 3 ids, 2 requests, a good and a bad one, every kind of outcome; symmetric in workers and channels | `SoleOwner`, `Accounting`, `PushHasRoom`, `IdsFresh`, `AnsweredInOrder`, `NothingAfterLast`, `DeletesEverything`, and that every step is a step of `Connections` |
| `server_live` | 2 workers, 2 channels, one of a wrong size, idle timeout 1, time up to 2, one request | `IdleOnlyAfterSilence`, `RequestServed`, `CutIsReported`, `DeleteReturns` |
| `fd_channel` | 2 messages, one of them made of the two magic bytes; a stray byte with an empty frame, and a length too great with a wrong end; 2 length bytes; a queue of 2 with and without write-over; 3 writes; buffers of 1 and 2 | `ChunkingInvisible`, `CannotReadIsFinal`, `ImplementsChannel`, `TypeOK` |
| `descriptors` | 3 connections of both good kinds, 4 numbers; symmetric in connections | `OwnsDescriptors`, `RefreshNeverBlocks` |
| `fd_given_twice` | 2 connections, same number twice | a violation: see findings |
| `write_is_blocking` | 1 connection, duplicated | a violation: see findings |
| `local_channel` | depths 1 to 3, sizes around the limit, receive buffers too small and big enough, 4 sends, as many buffers as cells | `BuffersOwned`, `ImplementsChannel` |
| `local_rpc` | 1 worker, 2 clients, 2 requests, a pause of 2 and a timeout of 3 (two turns of the loop), `Word` 8, three outcomes | `OneInFlight`, `OwnAnswer`, `CoreOutlivesServer`, `ImplementsServer`, `CallReturns` |
| `call_bytes` | 4 endpoints with numbers, texts, arrays, structs and arrays of those; 11 calls, with and without a place for the result; 78 messages that are no request; buffers of 16 to 80 bytes, the server's up to 6 larger; 2 exchanges | `CallIsRight`, `RefusalIsRight`, `InsideBuffers`, `NothingLeaks` |
| `sys` | 3 pids, 2 forks, 2 threads besides the signal thread, of which those of the first process both allocate (2 blocks, a count of at most 1), and one process that polls | `STypeOK`, `LockUsable`, `ChildrenListed`, `NoOrphans`, `BlocksCounted` |
| `sys_live` | 3 pids with one thread each and no blocks; two processes poll | `ExitEnds` |
| `chatroom` | 2 workers, 2 sessions, 2 names, one command typed, to everyone or to one of the two; symmetric in workers | `NamesMatch`, `MailboxAlive`, `EveryoneHears`, `LockReleased` |

Why the bounds are enough.  *Server*: two workers give every pair of steps in
every order; three channels for two places give full, refused and readmitted;
a second request on a channel is what is needed for two workers to answer one
connection in turn.  The counter never reaches its limit in the runs (three
ids for three channels): that guard is covered by the proofs, which hold for
every `IdMax`.  *Descriptor channel*: frames are 6 or 7 bytes and chunks reach
from 1 to 7, so every split of a frame, and of two neighbouring ones, occurs;
three writes overflow the depth.  *Descriptors*: three connections need up
to six numbers and have four, so numbers are used again at once and `dup`
fails; more connections only add interleavings of the same pairs.  *Local
channel*: four sends go round a table of three cells and wrap in one of one or
two; the proofs cover every depth.  *Local client*: two calls on a connection
are what a late answer needs to be mistaken for the next one; two clients give
one whose connection is cut while the other is served.  Real timeouts are many
turns of the loop, here two: a turn only counts.  *Call*: the minimum of a
buffer, 128, is scaled to 16, in which the smallest request just fits, so that
the six sizes put the end of the buffer into the head, an argument or the value
of one call or another; two exchanges leave a request or a response in the
buffer under the next; every proper prefix of one request is sent.  Numbers are 1
and 2 bytes wide: the width only enters as `CellSize`.  *Processes*: three pids
give a grandchild, a sibling, and a pid that is used again; two threads that
allocate, with a count of at most one, give a fork by one while the other is
between a block and its count, an overflow, and a child with a stray block.  *Chatroom*: two
sessions are enough for one that is cut while the other sends to it or has its
name next; three logins, two logouts and one command give broadcasts that
overlap.

### Fairness

Liveness is checked under `FairSpec`.  Weak fairness of each worker says that
the scheduler runs every thread and that endpoints return: a worker is a loop
without a condition wait and sleeps for a fixed time, so it is always enabled
until it ends.  Weak fairness of the steps of `delete_chrpc_server` after the
first says that its caller does not stop in the middle of it.  Clients and the
transport owe nothing, and the clock need not advance.  `CallReturns` is
checked under `LFairSpec`: only the thread inside `chrpc_client_send_request`
is assumed to go on, since its loop sleeps for a fixed time and waits for no
one; the server may stop.

`ExitEnds` is checked under the `FairSpec` of `Sys`.  Weak fairness of a process
is of the thread that has the lock, or is alone in a new child: it is never
blocked except in `waitpid`.  Strong fairness is of those that compete for the
lock with threads that may take it again and again: the signal thread, a thread in
the middle of `safe_waitpid`, `safe_malloc` or `safe_free` (`GoesOn`), and a
program that took the exit upon itself, which polls `sys_sig_exit_requested`
(`examples/chatroom/server.c:261`).  A mutex that is free again and again is given
to each waiter at last.  Polling is assumed only of the programs that may call
`sys_set_sig_exit` (`"poll"` in `May`), never of one that merely inherited the
flag.  In `sys_live` whatever a polling program forks polls too; what happens
otherwise is told below (also met).  Nothing else is assumed about the program; it
may fork, wait, or do nothing.

### Findings

1. The chatroom gives its channels one descriptor twice
   (`server.c:271-272`, `client.c:320-321`) where `channel_fd.h:31-35` asks for
   `read_fd = -1`.  After the end of the file the number is closed, kept in
   `write_fd`, and may belong to the next client when it is written to or
   closed again (`fd_given_twice`).
2. `channel_fd.h:56` says that writes block.  With `read_fd = -1` both
   descriptors share one file, and making the read side non-blocking makes the
   write side non-blocking too: a full socket closes the write end
   (`write_is_blocking`).

Also met while modelling, and not the subject of a run:

* `on_disconnect` is documented to be called "when a client disconnects for any
  reason" (`rpc_server.h:140`), but the connections left in the queue when the
  server is deleted are never reported (`rpc_server.c:577-582`).
* `test/simple_rpc.c:433-441` expects a free place once a client has the answer
  to its disconnect request.  The worker answers before it gives the place back
  (`rpc_server.c:284`, `491-493`), so the next channel can be refused.
* `rpc_client.h:27-28` promises that a call ends after the timeout.
  `time_waited` is a `useconds_t` without a check for overflow
  (`rpc_client.c:174`): a timeout within one cadence of 2^32 is never reached.
  `CallReturns` holds for the others, and `Word` says which those are.
* `channel_fd.h:32` says that both descriptors are closed even if the
  constructor fails, but a refused configuration leaves them open
  (`channel_fd.c:54-67`).  `Descriptors` models that (`Reject`).
* `safe_exit` sends `SIGINT` to every pid in `child_list` (`sys.c:351`); one of
  them may have been reaped by another thread that has not yet taken it out of
  the list, and be the pid of an unrelated process by then.
* `safe_realloc_p(false, mem, 0)` takes the system lock that its caller has
  (`mem.c:25`).  Nobody calls it so.
* `signal_exit_flag` is copied by `fork`, and `prepare_from_child`
  (`sys.c:238-255`) leaves it as it is.  A child of a process that called
  `sys_set_sig_exit(false)`, and that does not poll itself, has a signal thread
  that takes one `SIGINT`, notes it and ends.  `safe_exit` of the parent, which is
  to "kill all children" (`sys.c:343`), sends that `SIGINT` and waits for the
  child forever, with the system lock taken.  TLC shows it when the
  third process of `sys_live` does not poll (`p3 -> {}` in `Singles`): `ExitEnds`
  is violated.  No program of the repository does both.
* `signal_exit_requested` is copied too: a child of a process that was
  interrupted starts with the exit requested.
* A child forked while another thread is between `malloc` and its count, or
  between the count and its `free` (`mem.c:14-18`, `46-47`), has a block that
  it can neither free nor report; the model counts it in `stray`.
* The client parses a response with the length of its buffer
  (`rpc_client.c:194`).  `CallIsRight` shows that this is harmless as long as
  the response is one that the server wrote.
* `serial_type.h:15-16` says that a struct can have 255 fields, as many as its
  byte can say.  The code refuses more than `CHRPC_MAX_STRUCT_FIELDS`, 64
  (`serial_type.h:97`, `serial_type.c:116`, `247`).  `MaxFields` is the limit of the
  code, so `CallIsRight` and `RefusalIsRight` accept the refusal of a struct that
  the grammar allows.
* `_new_chrpc_struct_type` with too many fields does not free their types
  (`serial_type.c:116-118`).
* `ll_get` returns the first element whatever the index (`list.c:212-226`).
* In the chatroom, the same name can log in and be announced before the logout of
  its last owner is announced, since those are two critical sections
  (`server.c:159-172`); a client over the limit makes the server exit
  (`server.c:287`, `log_fatal`); a mailbox is polled from its newest message
  (`chatroom.c:84`).

## 4. Proofs

Proved by TLAPS for every number of workers, channels, places, ids, messages
and so on, from the assumptions the modules state (`ServerAttrs`: what
`new_chrpc_server` accepts; `Inputs`: endpoints return one of the two commands,
`None` is not a value; `Given`: descriptor numbers are a finite set of
naturals; `SysInputs`: a process has finitely many threads, and the signal
thread is none of the program's; `ChatInputs`: a command is to a name or to everyone,
and `None` is none of the names, sessions, workers and messages; in `Serial` and
`CallBytes`, `LengthsFit`: a length takes the four bytes it is sent in, `Names`: a
name that is called is a string with its 0, `Inputs`: a value has the blocks that
its constructors allocate, and `None` is no call and nothing that has run).

`RpcServerProofs`, about the server as a whole:

* `InductiveInvariant`, with `TypeCorrect`, `OneOwner`, `SlotsCounted`,
  `PushSucceeds` and `ShutdownComplete` from it.  None of these is inductive
  alone.  `Accounting` needs `SoleOwner`, for the count goes up when a channel
  enters the queue and down in a step after it was deleted; the decrement is
  right only if no two workers release the same channel, which is
  `ReleasedOnce`; and both fail once the queue is drained unless no worker is
  left, which is `Stopped`.  The type of `num_channels` in turn needs
  `Accounting`.  `IInv` is the conjunction.  `PushHasRoom` is then counting:
  what is in the queue and in the pusher's hands are different slots.
* `IdsStayFresh`, from `IdInv`: the reported ids too are below the counter.

and about what one connection sees of it:

* `AnswersInOrder`, from `IInv` and `OrdInv`: the requests in a channel are
  numbered on from those received, the answers are as many as those received,
  or one fewer; then one worker, the one with the channel, holds the request or
  failed to answer it.  `SoleOwner` is what makes that worker the only one.
* `GoodbyeIsLast`, from `LastInv`: after a goodbye the channel is deleted, or
  its worker is about to delete it.
* `SilenceBeforeCut`, from `TimedInv`: the time in an element is never older than
  the last answer on its channel, in the queue and in the hands of a worker alike,
  except between an answer and what the worker then does with the element; no
  other cell and no other worker knows the channel by an older time (`SoleOwner`).
  So a worker that finds the timeout exceeded is right about the silence.
* `ServerIsConnections`, the refinement to `Connections`.  Each step is
  classified by what it does to the four abstract variables (`Visible`).  That
  a report is never one too many needs `ReportInv`: the ids reported and the
  workers that still owe a report are together no more than the channels
  deleted; that it counts at all needs `IdsFresh`.

`LocalRpcProofs`, for any number of clients, timeouts and widths of the
counter: `ClientsAreCallers` says that `LocalRpc` implements `RpcServer`, so
all of the above holds in it.  From that, `QueuesNeverFill` and `AnswerIsOwn`
by counting: a client has sent as many requests as it took answers, and one
more inside a call (`Balance`), and the server gives no more answers than it
received requests (`OrdInv`).  `CoreSafe` uses `LastInv` for the goodbye and
`Stopped` for the end of the server.  The programs' own part, that they free a
core only then, is an assumption (`DeleteCore`).

`LocalChannelProofs`, for every capacity, set of buffers and messages:
`TypeCorrect`, `NoLeak` and `Implements`, the refinement to `MessageChannel`.
The cells in use are those from `i` on, modulo the capacity; two of them are
the same place only if they are the same cell (`Around`), so a push changes
none in use, and each buffer is in one cell (`BuffersOwned`), so freeing one
changes the contents of no other.

`ChannelFdProofs`, for all messages, bytes of other programs, chunk sizes, widths
of the length and depths: `TypeCorrect`, `ChunksInvisible`, `CannotReadFinal` and
`Implements`.  The inner loop of `chn_fd_refresh` is a recursive function, and
TLA+ gives one a meaning only if its recursion has a solution.  `Unfold` is that
fact.  Its argument is the one for the loop's termination: every round uses up
bytes of the chunk or drops a frame that is too long (`StepAdvances`), so `Size`
falls; there is a solution for the chunks of each size, and two agree where both
are defined.  `ChunkInduction` then proves by the same measure what holds of every
chunk: the frame buffer keeps its bound (`LoopEnds`, and with it `TypeCorrect`:
`msg_buf` never overflows); the messages found earlier play no part (`Earlier`);
and a round that is given more bytes after its chunk does the same and leaves
them, or goes on with them as the next round would (`RoundIsSame`, `Later`).  The
delicate cases are a chunk that ends inside the header or the data, where the
bytes still missing are counted anew: the length must not change with the bytes
after it (`LengthKnown`).  `ProcessInParts` puts these together, and
`ChunkingInvisible` is inductive with it.  `CannotReadFinal` needs `NothingLeft`:
the descriptor is closed for good, and nothing is queued.

`Implements`, the refinement to `MessageChannel`, assumes `LengthFits` and
`Harmless`.  A frame is read as it was written: the length comes back out of its
bytes (`RoundTrip`), so the loop takes START, length and data of a frame into
`msg_buf` one after the other whatever the data hold (`BodyIs`), gains exactly the
message at END (`FrameRead`), and nothing from a part of it (`FrameCut`).  The
invariant is `Clean`: while the writing end is open, the frame buffer and the wire
hold complete frames only, so what is written next is read from a fresh start
(`WrittenAfter`).  A chunk then moves messages from the wire to the queue without
changing `pending`, unless the queue is too short: what `Enqueue` gives up, the
oldest with `write_over` and the newest without, is a gap in `pending`, and the
lemma `ThinIs` counts what is left of it.

`DescriptorsProofs`, for any set of connections and numbers, as long as no
connection gives one number twice: `TypeCorrect`, `SoleOwnership` and
`NoBlockingRefresh`.  The argument is that a number enters a field only when it
was free (`GainKeeps`), and leaves the table and its only field in the same
step (`DropKeeps`).

`SysProofs`, for any tree of processes, threads and forks: `TypeCorrect`,
`LockAlwaysUsable`, `ChildrenAlwaysListed`, `NeverOrphans` and
`BlocksAlwaysCounted`, from `SysInv`.  For the lock, `LockInv` adds what makes the
copy of a mutex right: the one thread of a new child is the one that had the lock
when it was forked, so it may release it, and no other thread starts before
(`NewAlone`).  For the children, `TreeInv` says what the list means at every
moment and not only between two sections: while a process goes on, the nodes of a
pid and the fork that has yet to push it are as many as the waiters that have yet
to remove it and the child, if there is one (`Balance`); a new process has the list of
its parent and no child; one that exits has a node for every child, or is about to
wait for the one it had no node for.  So the list is empty only when no child is
left, and that is what `NeverOrphans` needs; it, in turn, is why a pid that the
kernel gives out again is no one's parent.  For the blocks, `BlocksCounted` is
inductive over the steps that put a thread into `InFlight` or take it out
(`BusyMoves`); at a fork, the blocks in flight in the parent become the stray ones
of the child, which has no thread in flight (`ForkKeepsCount`).  The theorem adds
what it is for: a program that has a block to free never meets a count of zero.

`ChatroomProofs`, for any number of workers, sessions and messages: `TypeCorrect`,
`NamesMatchAlways`, `MailboxAliveAlways`, `LockReleasedAlways` and
`EveryoneHearsAlways`.  `RoomInv` has three parts.  `Sessions`: a session has one
worker, and the request that is served is still the one its client waits for, so a
worker that comes back to it after taking the lock reads what it read before.
`LockPoints`: `LockReleased`, worker by worker.  `Boxes`: the two maps are inverse,
a session that is cut still has its name until it is logged out, a round of a
broadcast has the lock, and the mailbox a worker found is there while it has the
lock.  `Hearing` adds what `EveryoneHears` is inductive with: each message but the
last reached its whole audience, and the last has still to reach the mailboxes in
the iterator; the writer's lock keeps logins and logouts out until that is empty.

`CallBytesProofs`, for types and values of any depth, any endpoints and calls,
and any bytes that a peer sends: `BuffersHold` and `NoLeaks`, from `IInv`, the
meaning of the bytes, `ValueReadsBack`, and from both `CallsAreRight`.

* A recursive function on types means something only if its recursion has a
  solution.  One lemma for each (`TypeBlocksUnfold`, `TypeToBufferUnfold`, ...)
  shows that, by induction on the depth of a type; the loops over fields and
  entries (`WriteEach`, `ReadEach`) are unfolded by induction on their length,
  and `TypeFromBuffer` by induction on the bytes that are left.
* A writer `Fits`: what lands in the buffer is no longer than the room it was
  given, also when it fails.  `WriteEach` gives each writer the room that is left
  and passes that on, and so it holds of the writer of every type.
* What a reader returns is right (`Reads`): if it succeeds, the value is one of its type, it has used no
  more bytes than there were, and the blocks it left allocated are exactly those
  that deleting the value frees; if it fails, it left none.  For `ReadEach` that
  is the sum over the items read before the failure, which is what `FreeRead`
  frees.
* `IInv` is the ownership of blocks between the steps of a call.  `BuffersAre`:
  the buffers keep their sizes, the worker's is not the smaller one, and the
  message fits both.  `ClientOwns` and `ServerOwns`: at each stage the blocks of
  a side are those of the values its variables hold, so while a call is
  under way `cheap` is that of the arguments, and while an endpoint runs `sheap` is
  that of the request and the parsed arguments.  `NothingLeaks` alone is not
  inductive: it says nothing in the middle of a call.
* `ValueReadsBack` takes writing and reading together: what is written of a value
  is as long as the grammar says, and whatever follows it is read as a value that
  equals it.  Its proof never computes the bytes: `IsTypeCode`, `IsInnerCode` and
  `IsValueCode` say of a sequence that the writer writes it if there is room and
  fails if not, and that the reader that finds it in front of any buffer takes just
  that.  By induction on the depth of a type each value has such a code
  (`TypeCodes`, `InnerCodes`, `ValueCodes`): that of a struct or an array is the
  codes of its parts, joined (`IsJoined`), each of which is read with the next
  ones as the rest of the buffer.  `Alike` is what may be read: a string is equal
  to the one written up to its 0, and may differ behind it.
* `CallsAreRight`, from `IInv` and `Calling`, which follows a call through its
  stages (`Progress`): the message is a code of the request (`Sent`); the request
  that was parsed has the name and, in its byte arrays, codes of the arguments
  (`Handled`); the arguments that were parsed equal those of the caller (`Running`);
  the message is a code of the response with the status `Outcome` gives, and its
  bytes a code of the value that was returned (`Answered`).  A request is written
  on the fly and parsed as a value, so `RequestWrites` and `RequestCode` show that
  both mean the same bytes.  That the client reads its whole buffer needs the
  "whatever follows" of the codes: what follows there is the end of the request.
  `Calling` itself is out of TLC's reach, since a code is a statement about every
  buffer; what TLC checks is `CallIsRight`.

Only model-checked: `RefusalIsRight`, since what is wrong with each malformed
message is part of the instance and not of the model, and all liveness
(`RequestServed`, `CutIsReported`, `DeleteReturns`, `CallReturns`, `ExitEnds`),
which is out of the prover's reach.

## 5. Not modelled

* Hash map, lists and heap: sequential containers.  The models use functions,
  sequences and sets in their place, and the cyclic queue, the one that several
  threads share, is modelled cell by cell.
* The JSON parser, strings, streams and UTF-8: sequential text handling.
* `channel.c` and `channel_helpers.c`: a dispatch table, and a thread that
  receives and sends for the tests.
* The listener (`sock.c`) and `wrappers.c`: system calls whose failure ends the
  process.
* `serial_helpers.c`, the log's text and the chatroom's display: output.
* Both ends of a descriptor channel together.  Two programs that only write
  block each other in `write` with the mutex taken (`channel_fd.c:135`), but
  `chrpc_client_send_request` reads an answer after each request.

What a next step would add: the containers against maps, sequences and bags; the
chatroom over the actions of `RpcServer` itself instead of what it proves.
