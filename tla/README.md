# Verification of the network servers

TLA+ models, TLC runs and TLAPS proofs for the three C servers under
`src/codes/network`: `reactor` (threads, each with an edge-triggered epoll loop,
fed by lock-free queues), `proactor` (worker threads that submit Linux AIO, one
dispatcher that runs the completions) and `proactor_epoll` (a hybrid: accept
thread, workers with epoll and AIO each). The rest of the repository,
`src/docs`, is notes, logs, gateway configurations and small scripts that belong
to other systems; nothing there is modelled.

## 1. Inventory

| Component | State | Operations | Talks to |
|---|---|---|---|
| Ring queue (`reactor/ring_queue.c`) | `head`, `tail`, `buffer`, statistics | `push`, `push_batch`, `pop`, `pop_batch`, `empty`, `full`, `size` | called by the accept thread (push) and one reactor thread (pop_batch) |
| Reactor thread (`reactor/reactor.c`) | `running`, `connections[]`, epoll instance, `connection_t` buffers | loop: pop new sockets, `epoll_wait`, read and write handlers, idle timer | accept queue; kernel; clients |
| Reactor life cycle, accept thread (`reactor/reactor.c`, `server.c`) | `reactor->running`, `next_thread`, thread ids | create, run, stop, destroy, `reactor_add_connection`, accept loop | starts, flags and joins the threads |
| Proactor engine (`proactor/proactor.c`) | `pending_ops` stack, `connections[]`, AIO context, `running` | submit, worker loop, dispatcher loop, add/remove connection, start/stop | completion handlers of the echo server |
| Proactor echo server (`proactor/async_server_proactor.c`) | `connection_ctx_t` buffers, global `g_proactor` | read/write/error completion, set-up of a connection, signal handler, main | engine |
| Hybrid proactor (`proactor_epoll/hybrid_proactor.c`, `efficient_hybrid_server.c`) | per worker: list of connections, epoll, AIO context; `graceful_shutdown` | accept loop with welcome message, worker loop, sync and async reads and writes, safe removal, start/stop, signal handler | accept thread and workers share connections |
| Test client (`proactor/test/proactor_cli.py`) | one socket | sends and reads | not modelled: the clients of the models do more |

What is hard in each, and what makes it correct:

- **Ring queue.** Several threads between the load of a counter and the
  compare-and-swap; counters that wrap at 2^32; a slot that is claimed before it
  is written and released before it is read. Correct: positions handed out in
  order, once, never more than the capacity; a pop returns what was pushed.
- **Reactor thread.** One thread, but edge-triggered epoll: clients and kernel
  act between any two system calls, and an event that is missed does not come
  again. Connections are freed while a list of pointers to connections is worked
  through. Correct: no use after free, every socket in one place, the echo is
  the client's stream, replies and input are not forgotten.
- **Life cycle.** Flags that are stored and read by different threads in any
  order, every call of the start-up failing, sockets under way during a
  shutdown. Correct: joins return, nothing is used after `free(reactor)`, no
  socket has two owners or is lost.
- **Proactor.** An operation is in the stack, with a worker, in the kernel or in
  the dispatcher, and carries pointers to a context that the dispatcher may free
  at any moment. Correct: a connection always has exactly one operation under
  way; no stale completion reaches another connection.
- **Hybrid.** A connection is reachable by the worker before the accept thread
  has finished with it; AIO completions outlive connections. Correct: one thread
  at a time uses a connection, nobody a freed one (the code fails this); each
  connection is on one list and removed once; replies, input and ends of
  connections are not forgotten; shutdown comes to its end.

`PROJECT.json` lists each such hazard at its line with the properties about it.

## 2. Plan

| Step | Module | Content |
|---|---|---|
| 1 | `RingQueue`, `TicketQueue`, `RingQueueProofs`, `RingQueueItems` | the queue, its abstraction, proofs |
| 2 | `ReactorThread`, `Sockets`, `ConnLifecycle`, `ReactorThreadProofs`, `ReactorStreamProofs` | the loop over edge-triggered epoll, proofs of all its safety properties and that no wakeup is lost |
| 3 | `ReactorServer` | the processes around it; implements `ConnLifecycle` too |
| 4 | `ReactorServerProofs` | type, no use after free, one owner for each socket, what is closed at exit, the refinement of `ConnLifecycle`; `ListProofs` holds the lemmas on lists without repetition shared with step 2, and those on streams of numbered units shared by steps 7 and 8 |
| 5 | `Proactor` | operations, workers, dispatcher, completion handlers, contexts and descriptors that are used again, start and stop |
| 6 | `HybridProactor` | accept thread against worker, stale pointers, AIO completions, start and stop of the hybrid |
| 7 | `ProactorProofs` | every safety property of `Proactor`: one operation for each connection, types, echo in order |
| 8 | `HybridProofs` | every safety property of `HybridProactor`: types, safe removal, one list for each connection, echo in order |

All steps are done.

## 3. Modules

### RingQueue, TicketQueue, RingQueueProofs, RingQueueItems

One step per atomic operation and per copied slot. A thread's `reg` holds its
locals: the counter it loaded (`pos`), its count, the offsets still to be copied.
Items are named by the ticket (position) of their push, so "the right item" is
a statement about numbers. Counters run modulo `Modulus` (2^32 in the program)
from `Start`, so that the runs cross the wrap.

`TicketQueue` is the promise: `Claim(n)` and `Take(n)` on two counters.
`RingQueue` implements it (`ImplementsTickets`).

### Sockets, ConnLifecycle, ReactorThread

`Sockets` is the kernel's side: `read`, `write`, poll mask, and the wake-ups of
edge-triggered epoll (a changed socket joins the ready list if its interest
covers the change; `EPOLL_CTL_MOD` polls once). `ReactorThread` has one action
per system call of `reactor_thread_main` with the code around it, in the order
pop, add, wait and classify, reads, writes, timer. A connection is a model
value: descriptor, `connection_t` and `data.ptr` at once. Descriptor numbers
reused after `close` are not modelled: the thread that closes a socket removes it
from its own epoll first.

`ConnLifecycle` is the promise about a socket: new, queued, popped, open,
closed. `ReactorThread` and `ReactorServer` both implement it
(`ImplementsLifecycle`), the first with the service in detail, the second with
all threads and failures.

### ReactorServer

main with the calls it makes, the accept thread, `ThreadCount` reactor threads.
Which calls fail is the constant `Faults`. An undefined `pthread_join` (a
`thread_id` left behind by a failed `pthread_create`) ends in the state
"undefined".

### Proactor, ProactorProofs

One module for engine and echo server, since the engine runs the server's
handlers. An operation is a record that moves from `pending_ops` (a stack) to a
worker, into `completions` (the AIO context) and to the dispatcher, and carries
what the C structure carries: type, descriptor number, block of memory, size. A
block stands for a `connection_ctx_t` with its handler; blocks and descriptor
numbers are used again, and malloc may return any free block. The field `client`
of an operation, `orphaned` and `disturbed` are history: they name the client it
was made for, the clients left without an operation by a failed malloc, and
those that meet an operation left over from a closed connection.

Each action is one step of a thread between two points where another can
interfere: taking an operation, `io_submit`, one epoll event, one completion. Two
external facts shape the model. Linux executes operations on non-blocking
sockets inside `io_submit` and completes them with EAGAIN when they cannot
proceed. And `io_event.res` of libaio is unsigned, so `events[i].res < 0`
(`proactor.c:301`) is never true: EAGAIN is recognised in the other branch, all
other errors reach the read and write handlers as negative lengths, and
`handle_error_completion` is never called. The exit event is written by
`proactor_stop` only after `running` is cleared, so it changes nothing.

`proactor_stop` tests and joins the dispatcher's id and every entry of
`worker_threads[]`, which `malloc` does not clear (`proactor.c:68`). After a failed
`pthread_create` some of these ids were never set, and testing or joining one is
undefined. The build may find zeros there (the calls are skipped: `JoinAndClean`
waits for the threads that exist), or anything else (`JoinUndefined`, which ends in
the state "undefined" once the threads that are joined before the first such id
have ended). Only a start that has failed gets there, and `Ends` says so.

### HybridProactor

The accept thread, the workers, main with the signal handler, and the clients.
`thread[t]` is where a thread stands and what it has in hand; one action is one
system call, or the work up to the next point where another thread can
interfere. The handlers that both kinds of thread run (`mt_try_write`,
`mt_submit_async_write`, `mt_remove_connection_safe`) are actions of either.

A connection is a block of the heap; threads, events and completions hold
pointers to it. Nothing keeps a connection alive for its pointers, so the model
lets them go stale: a freed block keeps its content, and the next connection may
get it, after which the pointer leads there. A pointer carries, as history, the
client it was meant for. Four more history variables delimit what the
properties exclude:

- `mixed`: clients whose `write_buf` two threads have used at once, whose bytes
  an asynchronous write has sent while they stay pending, or who were given a
  block to which a thread, an event, a completion, a list or the epoll
  registration of a socket that was never closed still leads (`Referenced`);
- `cut`: clients whose descriptor a completion has overwritten (below);
- `behind`: clients of which a read has left bytes for an edge that may not come;
- `missed`: clients whose `EPOLLOUT` was handled between another thread's failed
  `write` and its store to `writable` (`Miss`).

Facts of the code that shape the model. A `write` that finds no room (line 554) and
`conn->writable = 0` (line 572) are two steps (`WriteAgain`, `ClearWritable`), as are
a short write and the subtraction from `write_pending` (`WriteSome`, `Settle`): a
client can read in between, and the worker handle the edge. Linux runs an AIO operation on a
non-blocking socket inside `io_submit`. `res2` is 0 for writes as well, so every
completion is taken for a read's and what `read_buf` holds is echoed once more.
`res` is unsigned, so errors are taken for very long reads: the reply is refused
as too long, but `read_buf[res]` is cleared first; for -EPIPE (-32) that byte is
the low byte of `fd`, and the connection is lost to the server
(`CompletePipe`). `write_pending` is unsigned and both threads subtract from
it; `wrapped` says that it has fallen below 0. The signal handler clears
`running`, so that `mt_proactor_stop` returns at once (`StopReturns`); its body
runs only when all threads have ended by themselves, and then joins them a
second time, which is undefined (`Stop`).

## 4. Runs

| Run | Instance | Shows |
|---|---|---|
| `RingQueueSPSC` | 1 producer, 1 consumer, 1 observer, capacity 2, range 8, start 6, 5 items | the server's use of the queue, all operations, two laps and a wrap; liveness of the consumer |
| `RingQueueMPMC` | 2 producers, 2 consumers, capacity 2, 3 items | positions under contention; the third item reuses the first slot |
| `RingQueueUnwritten` | violation | a slot is read before it is written |
| `ReactorThreadTable` | 3 connections, table of 2, every fault | ownership, no dangling pointer in a round |
| `ReactorThreadStream` | 1 connection, buffer 3, socket 2, 5 bytes | the stream, edge triggers, progress |
| `ReactorServerFaults` | 2 threads, 3 clients, queue 1, table 1, every fault | use after free, ownership, shutdown |
| `ReactorServerHang` | violation | a failed start never returns |
| `ProactorChain` | 2 clients, 2 workers, 2 descriptors, resets, failed calls | one operation per connection; order and ownership of the data |
| `ProactorLive` | 1 client, 4 units, buffer 4, socket 1, every failure, start, signal | progress, end of connections, shutdown |
| `ProactorReply` | violation | a left-over write reaches the next client |
| `HybridLive` | 2 clients in turn, 1 worker, 1 block, buffer 2, socket 1, 2 units, every failure, start, signal | stale pointers against removal, lists and replies; output, input, end of connections, shutdown |
| `HybridUseAfterFree` | violation | the accept thread writes to a connection that the worker has freed |

Bounds. Capacity 2 lets a batch wrap around the buffer; 3 items reach a second
lap and 5 a third. A buffer of 3 with a socket of 2 bytes gives short writes and a
full read buffer; 5 bytes fill both and go on. A table of 2 with 3 connections
gives a full table and two connections in one list of events. With queue and
table of 1 and three clients over two threads both overflow. In `ProactorLive` a
read of 3 units is too long for its echo, one of 2 is written short to a socket
of 1, and a fourth unit follows; `ProactorChain` has two connections and as many
descriptors and blocks, so that a second client can get the number and the
memory of the first while its operation is anywhere on its way. `HybridLive` has
a single block, which the second client gets while pointers of the first are in
the accept thread, in the worker's lists of events and completions, or in the
AIO context (`NumBlocks`, and `MaxOpen`, clients connected at a time); the second
client only connects and receives (`Active`). A buffer of 2 reads one unit at a
time, so that a second unit is left behind, and a socket of 1 is full after the
welcome. Replies that are too long and short writes need a larger buffer:
HybridProactor with a buffer of 3 and a prefix of 1 has 348,000 states and keeps
the same properties, in three minutes. With two workers the connections are
distributed as with one; a stale pointer then can take a connection off the
wrong list, which `OwnedOnce` excludes through `mixed`. What more workers, blocks
and clients could add is covered by the proofs of section 6.

Fairness. `RingQueue`: the consumer keeps calling (the loop polls every 10 ms)
and its weak swap does not fail for ever when it could succeed. `ReactorThread`:
the thread is scheduled; `EINTR` does not hit every round that ends with an idle
check; clients read what they are sent. `ReactorServer`: every thread is
scheduled; the user need not press Enter. `Proactor`: every thread is scheduled;
each client's operation on the stack is taken in the end (the 10 ms of sleep that
follow each EAGAIN let the workers empty the stack); `io_submit` does not find
the context full for ever; clients read. `HybridProactor`: every thread is
scheduled and clients read; failures of `accept` and `epoll_wait` may happen but
need not. (The subscripts of its fairness name only what each step of the action
changes, which is the same fairness as with all variables and faster to check.)

## 5. Disagreements between code and comments

`RingQueueUnwritten`, `ReactorServerHang`, `ProactorReply` and
`HybridUseAfterFree` each refute a statement of the sources; `PROJECT.json`
quotes it under "findings". Related facts that the passing runs delimit: a batch
pop can return items of a later lap (`OnlyBatchLapped` says that nothing else
can); input that arrives while a reply is pending is parked, and a full
`read_buf` is never processed (`EchoedUnlessParked`); sockets in a queue are not
closed at exit (`ClosedUnlessQueued`); after SIGINT neither `proactor_stop` nor
`mt_proactor_stop` releases anything, since the handler has cleared `running`
(`Ends` says that main still ends).

Two more are exceptions written into the properties. A wake-up of the hybrid server
can get lost: the accept thread's `write` of the welcome finds no room, the client
reads, the worker handles `EPOLLOUT` and sets `writable` (line 509), and then the
accept thread stores 0 (line 572). The worker's own write returns at line 552, and if
`io_submit` then fails because the context is full, what is pending waits although
the socket has room and no edge is due. `OutputSent` holds for every client but those
in `missed`; when the context is never full it holds for these too, since the
asynchronous write sends what `writable` holds back. And after a failed
`pthread_create` the joins of `proactor_stop` are undefined, which `Ends` of `Proactor`
admits only while the dispatcher was never created.

## 6. Proofs

`RingQueueProofs` proves, for every set of threads, capacity, counter range,
batch size and bound: `TypeOK`, `OccupancyBounded`, `TicketsOwnedOnce` and the
refinement `ImplementsTickets`. The assumptions are those `RingQueue` states on
its constants. The argument: `IndInv` adds to the type that a call between its
load and its swap holds a counter value that has been reached (so that a swap
that succeeds finds the counter unchanged since the load), that the count it
will claim fits between the counter it holds and the other counter as it was
read, and that distinct threads' claimed ranges are apart. `OccupancyBounded`
alone is not inductive: a swap preserves it only because of what the thread's
earlier loads have established.

`RingQueueItems` proves the other safety properties of the queue, about what is in
the slots. All of them rest on `SlotsApart`: tickets less than `Size` apart have
different slots, although the counters wrap, because `Size` divides `Modulus`.
`DeliveredExactly`, `OnlyBatchLapped` and `ProbesErrOneWay` hold for any number of
threads. `OnlyBatchLapped` needs `ItemsInv`: a slot holds an item that was pushed
for it, so at the moment `ring_queue_pop` reads, the slot of head holds nothing
newer than the ticket at head, and if head moves afterwards the swap fails.
`PublishedIntact` and `FailOnlyWhenFull` are proved under `OneProducer`, which the
reactor keeps to (only the accept thread pushes, `server.c:84`): nobody but the
producer moves tail, so during a push tail is where the call has found or put it
(`SoleInv`), and what it writes is less than a lap away from every outstanding
ticket. With two producers `PublishedIntact` fails: a slow copy of the last lap
can hit a slot of this one.

`ReactorServerProofs` proves `TypeOK` and `NoUseAfterFree` of `ReactorServer` for
every number of threads and clients, all sizes and every set of failing calls.
`NoUseAfterFree` is not inductive: `free(reactor)` is safe only because of the
joins before it. `ControlInv` follows main: a thread that exists has its id
recorded, the threads below `i` have ended while `reactor_stop` is at `i`, the
accept thread does not exist before the reactor threads were started, and a
`reactor_stop` that leads directly to `reactor_destroy` finds no accept thread.
`TypeOK` needs in addition that tables are finite sets and that a thread that
adds sockets has one left (`DataType`).

Its second part goes on from there, at the same generality, to the other
safety properties of `ReactorServer`. `OneOwner` says nothing of what the sets
are made of, and a queue that held a socket twice would break it one pop later.
The inductive form is `Apart`: no queue and no batch repeats a socket, and the
hands of the accept thread, of every reactor thread and the closed sockets are
pairwise disjoint. A step of one reactor thread moves sockets within its own hands
or closes them (`ThreadMoves`), so the others do not matter to it.
`ClosedUnlessQueued` needs `HandsBusy`: a batch is not empty only while its thread
adds, the accept thread holds a socket only between `accept` and the end of
`reactor_add_connection`, and main ends with empty tables; with `NoUseAfterFree`
nobody else is then at work. `LifecycleRefinement` uses that under `Apart` the
place of a socket determines its stage (`StageKnown`), so every step is one move
of a set of sockets from one stage to another (`StageMoves`), or a stutter.

`ReactorThreadProofs` proves `NoDanglingUse`, `OwnedOnce` and the refinement
`ImplementsLifecycle` of `ReactorThread` for every number of connections, all
sizes and every set of faults. The thread frees connections in the middle of a
round, and what keeps them out of its lists is spread over the whole loop, so
`NoDanglingUse` is not inductive. `TableInv` adds that the interest mask of a
connection is empty, `EPOLLIN` or `EPOLLOUT`, never both, and that exactly the
connections of the table have one. Hence `epoll_wait` gives two lists without a
common member (`WaitRound`), and `RoundInv`, that each connection is listed once
and in one of them, survives the removal of the connection being served. It also
says that the lists are empty outside their phase, which is why the timer may
close any connection. For the other two, every step is sorted by what it does to
the places of sockets (`SocketSteps`: queue, pop, open, refuse, close, or
nothing), and `Apart` is kept by each sort; the refinement needs only the sorts.

`ReactorStreamProofs` proves `StreamIntact` and `TypeOK` at the same generality.
The concatenation of `StreamIntact` is not inductive: it says nothing of a
connection after its end, whose client may go on reading, and nothing prevents a
connection being opened over old bytes. `StreamInv` adds that a connection that is
not in the table has empty buffers and that what has been written is a front of
the client's bytes, with a reset or without; `BytesInv` adds that `write_sent` is
within `write_buf`. A read or a write then cuts a piece off the front of one
sequence and appends it to the one before (`PieceMoves`, `ReadKeeps`,
`WriteKeeps`), so the whole stays as it is; `handle_add_write` moves all of
`read_buf` over an empty `write_buf` (`EchoedKeeps`). `TypeOK` follows with
`BoundInv`: the count equals the size of the table because a socket that is
added is not in it yet (`Apart`), and one that is closed is.

Its last part is about the edge triggers. `WakeupsKept` says that an open
connection waits for `EPOLLOUT` exactly while it has a reply to send, for
`EPOLLIN` otherwise, and that it is on the ready list or in the current round as
soon as its socket is ready for that (`NoWakeupLost`). The exception is a full
`read_buf`, from which `handle_read_event` does not read. An edge comes once, so
this rests on the order of the steps: `EPOLL_CTL_MOD` polls the socket after what
has just been read or written (`ReadWaits`), a write that does not empty
`write_buf` has filled the send space (`WriteWaits`), and only then does the next
byte the client takes raise an edge (`ClientWakes`). The inductive `WakeInv` adds
that nothing exceeds the send space and that `write_buf` is given up once it is
sent. This is what `OutputSent` and `EchoedUnlessParked` need of safety; that the
loop gets round to what is due is checked by TLC under fairness.

`ProactorProofs` proves `OneOperation`, `TypeOK`, `OperationsFit` and
`EchoInOrder` of `Proactor` for every number of clients, workers and descriptors,
all sizes and every set of faults. `OneOperation` counts operations in four
places. `Changes(out, in)` says what a step does to the count, whatever the move:
`out` leaves, `in` is new, every client's `UnderWay` follows. Each move between
stack, worker, AIO context and dispatcher is such a change. The count is not
inductive, because what a step submits next is decided by numbers that are used
again: a completion finds its connection through a descriptor and a block.
`OpsFit` adds that every operation still names the descriptor and the block of its
client, and no other client's, unless the history says `disturbed`
(`OperationsFit` is this as a theorem). It needs the table (`TableInv`: one
descriptor, one block and one place for each client), that an event of epoll names
an open connection although others are removed before its turn, and that the
clean-up that empties the table finds no file open when it follows a failed start
(`ControlInv`). `OneChain` is the count for orphans too, and `OrphanInv` says that
a client waiting to be accepted is not one yet.

`EchoInOrder` is about what has been echoed; the order of what comes next must be
known before it is written. `FlowInv` follows the data of a client: echoed, carried
by an operation (`Loads`: the buffer of a write that has not left it, the result
of a read that is not handled), unread; each stretch is in order and all come one
before the other (`InOrder`). A read makes the front of the input the load, a
write makes the front of the load output, the rest gives data up. That the load
survives in its buffer until then rests on the first part: a client has one
operation and so at most one load (`OneCargo`), and the operations of two clients
do not share a block (`BlocksApart`).

`HybridProofs` proves `TypeOK`, `RemovalSafe`, `OwnedOnce` and `EchoInOrder` of
`HybridProactor` for every number of clients, workers and blocks, all sizes and
every set of faults. Nothing in the code keeps a pointer valid, so the invariant
must say what holds of a pointer whose connection has been freed and whose block
may have been given away. Its parts, each inductive given those before it:

- `Types` adds to `TypeOK` that a thread has a pointer exactly where it has a
  connection in hand, and that what is pending fits into `write_buf`.
- `HeapInv` says whose a block is. An open descriptor is that of the client the
  block was allocated for, its socket is open, and no other block has it
  (`Homed`, `OneBlock`; `DescriptorsOwned` is this as a theorem, in which each
  client has a descriptor of its own, see §7); a removed
  connection has none, a freed one has been removed, and whoever frees one has
  removed it alone (`FreeOnce`). `is_removing` does protect the removal, because
  a freed block keeps it set.
- `ComesBack` and `WatchInv` are about epoll. A socket that epoll holds is that of
  its connection (`Watched`), hence the events of one `epoll_wait` lead to
  different blocks, and none to the block in hand (`Spread`, `Away`). A completion
  that overwrites a descriptor leaves a socket in epoll after its connection is
  freed; then two events can lead to one block, and `RemovalSafe` excepts exactly
  the clients in `cut`. `RemovalSafe` follows from these three.
- `OwnerInv` is about clear blocks, those whose client is not in `mixed`. All that
  leads to one belongs to one worker (`OneWorker`), pointers lead to the client
  they were made for (`Meant`), nobody but the accept thread knows a connection
  before it is entered (`Fresh`), and it is on a list from then to its removal
  (`Listed`). `Points(w)` collects the pointers on behalf of worker w: they only
  come from each other or with a new connection (`PointsShrink`). When the process
  ends only `Owned` is left, since `mt_proactor_stop` empties the lists.
- `ReadInv` says that an input event of a clear block still finds its bytes, or a
  reset, when its turn comes: the only other reader would be a second event of the
  same connection, which `Spread` rules out. Hence no asynchronous read is
  submitted for it and no completion can put old bytes into `write_buf`
  (`InputAtHand` is this as a theorem).
- `Unwrapped`, `Received`, `Unread` and `WriteInv` follow the stream of a client
  as in `ProactorProofs`: received, in the socket, pending, unread; each in order
  and all one before the other (`InOrder`). A write makes the front of what is
  pending output and a read makes the front of the input pending, over what was
  there. Between the write and the subtraction from `write_pending` the written
  bytes count twice; `Settling` says that nobody else touches the buffer of a clear
  connection then, so that the subtraction is right and never below 0. The welcome
  comes first because a client that is not yet welcomed has been sent nothing
  (`Unserved`, `Unwelcomed`). All of it is the client's own: what another client sent
  has a different first component, and could only get there through a block or a
  descriptor that belongs to both, which `Homed`, `OneBlock` and `Meant` rule out.

`OwnedOnce` and `EchoInOrder` say nothing of clients in `mixed`, as in the runs:
for those the code keeps no order.

Every property of the runs that is not a liveness property is proved for all
values of the constants. Model-checked only: liveness (`EveryTicketTaken`,
`ShutdownCompletes`, `AcceptedServed`, `IdleClosed`, `EchoedUnlessParked`,
`EndsClosed`, `InputConsumed`, `InputRead`, `EndedClosed`, and `OutputSent` and
`Ends` of the modules that state them), which is out of the prover's reach.

## 7. Not modelled

Statistics other than the queue's counts, log output, socket options, unused
fields (`state`, `user_data`, callbacks of `reactor_t`; `state`, `ref_count`,
`lock`, `last_activity` of the hybrid's connections). Signals other than SIGINT
and SIGTERM of the two proactors; in particular a write to a closed peer raises
SIGPIPE, which only the hybrid ignores, and ends the process. In `ReactorThread`
a write that returns EAGAIN does not occur: only the loop fills the socket, and
it writes only after epoll has reported room. Descriptor numbers are used again
in `Proactor` only. In `Proactor` a failing `create_server_socket` is the failure to
create the first thread, which leads to the same `proactor_stop`; a failing `io_getevents` and memory of a freed
block that malloc gives to something other than a connection are left out.

In `HybridProactor`: the order of a list, and a walk along a freed connection's
`next`; a `write_buf` torn within one `memcpy`, and the loads and stores within
one `write_pending -= n`; the metadata that malloc writes into a freed block, and
blocks given to anything but a connection; a descriptor that accept hands out
again while a stale thread still holds the number. A write to descriptor 0 (a
cleared low byte) is taken to fail, descriptors are below 256, and the bytes that
-EAGAIN and -ECONNRESET clear are not in fields that anything reads. A failing
`io_getevents` is left out. So is what happens before the threads start: when
`create_server_socket` fails, `mt_proactor_stop` runs on workers that were never
set up and closes descriptor 0 for each (`hybrid_proactor.c:203`).

Not modelled as a component: the test client (`proactor_cli.py`), a load
generator that does less than the clients of the models, and `src/docs`, which
belongs to other systems.
