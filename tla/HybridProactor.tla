--------------------------- MODULE HybridProactor ---------------------------
(***************************************************************************)
(* The hybrid proactor of src/codes/network/proactor_epoll: an accept      *)
(* thread that hands connections to worker threads, each with its epoll    *)
(* instance, its list of connections and its AIO context                   *)
(* (hybrid_proactor.c), main with the signal handler                       *)
(* (efficient_hybrid_server.c), and the clients.                           *)
(*                                                                         *)
(* The accept thread still writes its welcome when the worker already has  *)
(* the connection.  A thread holds a connection by a pointer to its block  *)
(* of the heap; events and completions carry such pointers too.  A freed   *)
(* block keeps its content until malloc gives it to the next connection:   *)
(* a stale pointer then means that one.                                    *)
(*                                                                         *)
(* A step is one system call, or the work of a thread between two points   *)
(* where another thread can interfere.  A unit of data is a pair of its    *)
(* client and its place in the stream; the "Echo: " prefix only counts for *)
(* lengths.  Linux runs AIO on non-blocking sockets inside io_submit.      *)
(***************************************************************************)
EXTENDS Sockets, Integers, FiniteSets

CONSTANTS
  NumClients,       \* the clients that connect
  NumWorkers,       \* proactor->num_workers
  NumBlocks,        \* the blocks malloc has for connections
  BufSize,          \* BUFFER_SIZE
  Prefix,           \* length of the prefix "Echo: "
  Faults,           \* what may go wrong: see FaultKinds
  Active,           \* bound: the clients that do more than connect and receive
  MaxOpen,          \* bound: clients connected at a time
  MaxBytes          \* bound: units a client sends

\* "start": a call of mt_proactor_start fails; "accept": accept fails; "refuse":
\* set_nonblock or malloc fails; "add": EPOLL_CTL_ADD fails; "wait": epoll_wait
\* fails; "full": the AIO context is full; "fin" and "reset": the client ends its
\* side; "signal": SIGINT.
FaultKinds ==
  {"start", "accept", "refuse", "add", "wait", "full", "fin", "reset", "signal"}

None == -1

\* A client stands for the descriptor of its socket; 0 is another open file.
Clients == 1 .. NumClients
Stdin == 0
Blocks == 1 .. NumBlocks

ASSUME HybridAssumption ==
  /\ NumClients \in Nat
  /\ NumWorkers \in Nat \ {0}
  /\ NumBlocks \in Nat \ {0}
  /\ BufSize \in Nat \ {0, 1}
  /\ Prefix \in Nat
  /\ Faults \subseteq FaultKinds
  /\ Active \subseteq Clients
  /\ MaxOpen \in Nat
  /\ MaxBytes \in Nat

Workers == 0 .. NumWorkers - 1
Acceptor == NumWorkers
Threads == Workers \cup {Acceptor}

VARIABLES
  main,             \* what main executes next
  running,          \* proactor->running
  graceful_shutdown,
  thread,           \* what each thread executes next, and its locals
  next_worker,      \* proactor->next_worker
  events,           \* what epoll_wait returned to a worker, still to be handled
  aio_ctx,          \* completions in the AIO context of a worker, oldest first
  aio_events,       \* what io_getevents returned, still to be handled
  heap,             \* the content of each block, freed or not
  allocated,        \* the blocks in use
  connections,      \* worker->connections, as a set of blocks
  watched,          \* the worker and the pointer each socket is in epoll with
  ready,            \* clients on the ready list of their epoll instance
  backlog,          \* clients that accept has not yet taken
  sock,             \* the sockets
  closed,           \* clients whose socket the server has closed
  sent, got,        \* units each client has sent, the last unit it has received
  mixed,            \* history: see Mix
  cut,              \* history: clients whose descriptor a completion has overwritten
  behind,           \* history: clients of which a read has left bytes behind
  missed            \* history: see Miss

mainVars == <<main, running, graceful_shutdown>>
queueVars == <<events, aio_ctx, aio_events>>
connVars == <<heap, allocated, connections>>
socketVars == <<watched, ready, sock, closed>>
clientVars == <<backlog, sent, got>>
historyVars == <<mixed, cut, behind, missed>>
otherVars == <<mainVars, next_worker, clientVars>>

\* Everything but the threads' own places.
restVars == <<otherVars, queueVars, connVars, socketVars, historyVars>>

vars == <<thread, restVars>>

Unit == Clients \X (0 .. MaxBytes)

\* The welcome message to a client is its unit 0.
Welcome(c) == <<c, 0>>

\* What a client has received before its first unit.
Nothing == <<None, -1>>

\* A pointer to a connection; client is history, the connection it was meant for.
Pointers == [block : Blocks, client : Clients]
NoPtr == [block |-> None, client |-> None]
NoWatch == [worker |-> Acceptor, block |-> None]

\* mt_connection_t: pending stands for the first write_pending bytes of write_buf,
\* wrapped says that write_pending has fallen below 0 and wrapped.  The last field
\* is history.
Connection ==
  [fd : Clients \cup {Stdin, None}, writable : BOOLEAN, read_buf : Seq(Unit),
   pending : Seq(Unit), wrapped : BOOLEAN, is_removing : BOOLEAN,
   client : Clients \cup {None}]

NewConnection(c) ==
  [fd |-> c, writable |-> TRUE, read_buf |-> <<>>, pending |-> <<>>,
   wrapped |-> FALSE, is_removing |-> FALSE, client |-> c]

\* A block before its first use.
Blank ==
  [fd |-> None, writable |-> FALSE, read_buf |-> <<>>, pending |-> <<>>,
   wrapped |-> FALSE, is_removing |-> FALSE, client |-> None]

Event(ptr, mask) == [ptr |-> ptr, mask |-> mask]

\* The event of exit_event_fd.
Exit == Event(NoPtr, {})

\* The result of an operation: a length, or -EAGAIN, -ECONNRESET or, when the reset
\* finds a socket that the client has half-closed, -EPIPE.
Again == -1
Reset == -2
Pipe == -3
ErrorOf(s) == IF s.fin THEN Pipe ELSE Reset

\* at: the next step; ptr: the connection in hand; n: what the last write took;
\* out: EPOLLOUT of the event in hand is still to be handled; back: where the
\* thread goes on when it is done with the connection.
Local(at) == [at |-> at, ptr |-> NoPtr, n |-> 0, out |-> FALSE, back |-> at]

Steps ==
  {"none", "loop", "event", "complete", "add", "welcome", "out", "write", "again",
   "settle", "async", "async_read", "remove", "free", "left"}

TypeOK ==
  /\ main \in {"start", "join", "stop", "exit", "undefined"}
  /\ {running, graceful_shutdown} \subseteq BOOLEAN
  /\ thread \in [Threads ->
       [at : Steps, ptr : Pointers \cup {NoPtr}, n : 0 .. SendSpace, out : BOOLEAN,
        back : {"none", "loop", "event", "complete", "left"}]]
  /\ next_worker \in Workers
  /\ events \in [Workers -> Seq([ptr : Pointers \cup {NoPtr}, mask : SUBSET {"in", "out", "err"}])]
  /\ aio_ctx \in [Workers -> Seq([ptr : Pointers, res : Pipe .. BufSize])]
  /\ aio_events \in [Workers -> Seq([ptr : Pointers, res : Pipe .. BufSize])]
  /\ heap \in [Blocks -> Connection]
  /\ allocated \subseteq Blocks
  /\ connections \in [Workers -> SUBSET Blocks]
  /\ watched \in [Clients -> [worker : Workers, block : Blocks] \cup {NoWatch}]
  /\ backlog \in Seq(Clients)
  /\ sock \in [Clients -> SocketType(Unit)]
  /\ \A S \in {ready, closed, mixed, cut, behind, missed} : S \subseteq Clients
  /\ sent \in [Clients -> 0 .. MaxBytes]
  /\ got \in [Clients -> Unit \cup {Nothing}]

Init ==
  /\ main = "start"
  /\ running = TRUE
  /\ graceful_shutdown = FALSE
  /\ thread = [t \in Threads |-> Local("none")]
  /\ next_worker = 0
  /\ events = [w \in Workers |-> <<>>]
  /\ aio_ctx = [w \in Workers |-> <<>>]
  /\ aio_events = [w \in Workers |-> <<>>]
  /\ heap = [b \in Blocks |-> Blank]
  /\ allocated = {}
  /\ connections = [w \in Workers |-> {}]
  /\ watched = [c \in Clients |-> NoWatch]
  /\ ready = {}
  /\ backlog = <<>>
  /\ sock = [c \in Clients |-> NewSocket]
  /\ closed = {}
  /\ sent = [c \in Clients |-> 0]
  /\ got = [c \in Clients |-> Nothing]
  /\ mixed = {}
  /\ cut = {}
  /\ behind = {}
  /\ missed = {}

-----------------------------------------------------------------------------
(***************************************************************************)
(* Pointers and threads                                                    *)
(***************************************************************************)

\* The process has not ended.
Up == main \notin {"exit", "undefined"}

At(t, step) == Up /\ thread[t].at = step

\* The connection that thread t has in hand.
Block(t) == thread[t].ptr.block
Conn(t) == heap[Block(t)]

\* The pointer no longer leads to the connection it was meant for.
Stale(ptr) ==
  ptr # NoPtr /\ (ptr.block \notin allocated \/ heap[ptr.block].client # ptr.client)

\* Something still points to block b: a thread, a list of a worker, an event or a
\* completion, or the epoll instance of a socket that was never closed.
Referenced(b) ==
  \/ \E t \in Threads : Block(t) = b
  \/ \E w \in Workers :
       \/ b \in connections[w]
       \/ \E i \in DOMAIN events[w] : events[w][i].ptr.block = b
       \/ \E q \in {aio_ctx, aio_events} : \E i \in DOMAIN q[w] : q[w][i].ptr.block = b
  \/ \E c \in Clients : watched[c].block = b

\* Thread t goes on with the same connection, or is done with it.
Goto(t, step) == thread' = [thread EXCEPT ![t].at = step]

Finished(l) ==
  IF l.out THEN [l EXCEPT !.at = "out"] ELSE Local(l.back)

Finish(t) == thread' = [thread EXCEPT ![t] = Finished(@)]

\* A thread other than t is filling or writing write_buf of block b.
Writing(b, t) ==
  \E u \in Threads \ {t} :
    /\ thread[u].ptr.block = b
    /\ thread[u].at \in {"welcome", "write", "again", "settle", "async"}

\* mixed: clients whose write_buf two threads have used at once, whose bytes an
\* asynchronous write has sent while they stay pending, or who got a block to which
\* there still were pointers.
Mix(c, cond) == mixed' = IF cond THEN mixed \cup {c} ELSE mixed

\* The server closes the sockets of clients S; the bytes they hold are gone, and
\* nothing more is said of what these clients have sent and received.
Close(S) ==
  /\ closed' = closed \cup S
  /\ sock' = [c \in Clients |-> IF c \in S THEN NewSocket ELSE sock[c]]
  /\ sent' = [c \in Clients |-> IF c \in S THEN 0 ELSE sent[c]]
  /\ got' = [c \in Clients |-> IF c \in S THEN Nothing ELSE got[c]]
  /\ behind' = behind \ S
  /\ missed' = missed \ S

\* What the server is told by a socket: EPOLLERR, EPOLLHUP and EPOLLRDHUP are
\* handled alike and first.
Mask(s) == IF s.err \/ s.fin THEN {"err"} ELSE Poll(s)

\* The first n bytes of a buffer; zeros carry no data.
Bytes(buf, n) == SubSeq(buf, 1, Smaller(n, Len(buf)))

-----------------------------------------------------------------------------
(***************************************************************************)
(* mt_try_write, mt_remove_connection_safe and the submission of           *)
(* operations, by whichever thread                                         *)
(***************************************************************************)

\* mt_try_write: there is nothing to write, or no room that it knows of.
WriteNothing(t) ==
  /\ At(t, "write")
  /\ ~Conn(t).writable \/ (Conn(t).pending = <<>> /\ ~Conn(t).wrapped)
  /\ Finish(t)
  /\ UNCHANGED restVars

Writes(t) ==
  /\ At(t, "write")
  /\ Conn(t).writable
  /\ Conn(t).pending # <<>> \/ Conn(t).wrapped

\* write fails for a closed or broken socket, for a wrapped length and, as far as
\* the model goes, for descriptor 0.
Writable(t) ==
  Conn(t).fd \in Clients /\ ~sock[Conn(t).fd].err /\ ~Conn(t).wrapped

\* It sends what the socket takes.
WriteSome(t) ==
  /\ Writes(t)
  /\ Writable(t)
  /\ LET c == Conn(t).fd IN
       /\ Room(sock[c]) > 0
       /\ sock' = [sock EXCEPT ![c] = AfterWrite(@, Conn(t).pending)]
       /\ thread' = [thread EXCEPT ![t].at = "settle",
                                   ![t].n = Len(Put(sock[c], Conn(t).pending))]
       /\ Mix(c, Writing(Block(t), t))
  /\ UNCHANGED <<otherVars, queueVars, connVars, watched, ready, closed, cut,
                 behind, missed>>

\* What is left of the pending bytes when n of them have been sent.
\* Mutant of Left: the bytes sent stay pending.
LeftAll(pending, n) == pending
Left(pending, n) == Drop(pending, n)

Settle(t) ==
  /\ At(t, "settle")
  /\ heap' = [heap EXCEPT ![Block(t)].pending = Left(@, thread[t].n),
                          ![Block(t)].wrapped = @ \/ thread[t].n > Len(Conn(t).pending)]
  /\ Finish(t)
  /\ UNCHANGED <<otherVars, queueVars, allocated, connections, socketVars, historyVars>>

\* write finds no room.
WriteAgain(t) ==
  /\ Writes(t)
  /\ Writable(t)
  /\ Room(sock[Conn(t).fd]) = 0
  /\ Goto(t, "again")
  /\ UNCHANGED restVars

\* Only then is writable cleared: the client may have read, and a worker handled
\* EPOLLOUT, in between.
ClearWritable(t) ==
  /\ At(t, "again")
  /\ heap' = [heap EXCEPT ![Block(t)].writable = FALSE]
  /\ Goto(t, "async")
  /\ UNCHANGED <<otherVars, queueVars, allocated, connections, socketVars, historyVars>>

WriteFails(t) ==
  /\ Writes(t)
  /\ ~Writable(t)
  /\ Goto(t, "remove")
  /\ UNCHANGED restVars

TryWrite(t) ==
  WriteNothing(t) \/ WriteSome(t) \/ Settle(t) \/ WriteAgain(t) \/ ClearWritable(t)
  \/ WriteFails(t)

\* The worker whose AIO context the submissions of thread t go to: the accept
\* thread uses the context of the worker it has chosen.
Context(t) == IF t = Acceptor THEN (next_worker - 1) % NumWorkers ELSE t

\* io_submit takes the operation and has run it, with the result res.
Submitted(t, res) ==
  aio_ctx' = [aio_ctx EXCEPT ![Context(t)] =
                Append(@, [ptr |-> thread[t].ptr, res |-> res])]

\* mt_submit_async_write; write_pending stays as it is.
SubmitAsyncWrite(t) ==
  /\ At(t, "async")
  /\ Conn(t).fd \in Clients /\ ~Conn(t).wrapped
  /\ Finish(t)
  /\ LET c == Conn(t).fd
         n == Len(Put(sock[c], Conn(t).pending))
     IN /\ Submitted(t, IF sock[c].err THEN ErrorOf(sock[c])
                        ELSE IF n = 0 /\ Conn(t).pending # <<>> THEN Again ELSE n)
        /\ sock' = IF sock[c].err THEN sock
                   ELSE [sock EXCEPT ![c] = AfterWrite(@, Conn(t).pending)]
        /\ Mix(c, n > 0)
  /\ UNCHANGED <<otherVars, events, aio_events, connVars, watched, ready, closed,
                 cut, behind, missed>>

\* mt_submit_async_read.
SubmitAsyncRead(t) ==
  /\ At(t, "async_read")
  /\ Conn(t).fd \in Clients
  /\ Finish(t)
  /\ LET c == Conn(t).fd
         data == Take(sock[c], BufSize - 1)
     IN /\ Submitted(t, IF data # <<>> THEN Len(data) ELSE IF sock[c].err THEN ErrorOf(sock[c])
                        ELSE IF sock[c].fin THEN 0 ELSE Again)
        /\ sock' = [sock EXCEPT ![c] = AfterRead(@, BufSize - 1)]
        /\ heap' = IF data = <<>> THEN heap ELSE [heap EXCEPT ![Block(t)].read_buf = data]
  /\ UNCHANGED <<otherVars, events, aio_events, allocated, connections, watched,
                 ready, closed, historyVars>>

\* io_submit fails: the descriptor is closed, the length has wrapped, or the context
\* is full.
SubmitFails(t) ==
  /\ At(t, "async") \/ At(t, "async_read")
  /\ Conn(t).fd \notin Clients \/ Conn(t).wrapped \/ "full" \in Faults
  /\ Finish(t)
  /\ UNCHANGED restVars

\* The atomic exchange of is_removing.
\* Mutant of MayRemove: every thread removes.
AlwaysRemoves(t) == TRUE
MayRemove(t) == ~Conn(t).is_removing

\* mt_remove_connection_safe: the first thread to set is_removing closes the socket,
\* which takes it out of every epoll instance.
BeginRemove(t) ==
  /\ At(t, "remove")
  /\ MayRemove(t)
  /\ heap' = [heap EXCEPT ![Block(t)].is_removing = TRUE, ![Block(t)].fd = None]
  /\ LET S == {Conn(t).fd} \cap Clients IN
       /\ Close(S)
       /\ watched' = [c \in Clients |-> IF c \in S THEN NoWatch ELSE watched[c]]
       /\ ready' = ready \ S
  /\ Goto(t, "free")
  /\ UNCHANGED <<mainVars, next_worker, backlog, queueVars, allocated, connections, mixed,
                 cut>>

AlreadyRemoving(t) ==
  /\ At(t, "remove")
  /\ ~MayRemove(t)
  /\ Finish(t)
  /\ UNCHANGED restVars

\* It is taken off the list of the thread's worker and freed.
\* Mutant of EndRemove: the connection stays on the list.
EndRemoveListed(t) ==
  /\ At(t, "free")
  /\ allocated' = allocated \ {Block(t)}
  /\ Finish(t)
  /\ UNCHANGED <<connections, otherVars, queueVars, heap, socketVars, historyVars>>

EndRemove(t) ==
  /\ At(t, "free")
  /\ connections' = [connections EXCEPT ![Context(t)] = @ \ {Block(t)}]
  /\ allocated' = allocated \ {Block(t)}
  /\ Finish(t)
  /\ UNCHANGED <<otherVars, queueVars, heap, socketVars, historyVars>>

OnConnection(t) ==
  \/ TryWrite(t) \/ SubmitAsyncWrite(t) \/ SubmitAsyncRead(t) \/ SubmitFails(t)
  \/ BeginRemove(t) \/ AlreadyRemoving(t) \/ EndRemove(t)

-----------------------------------------------------------------------------
(***************************************************************************)
(* worker_thread_func                                                      *)
(***************************************************************************)

\* The events of one epoll_wait come in no particular order.
Orders(S) == {s \in [1 .. Cardinality(S) -> S] : \A x \in S : \E i \in DOMAIN s : s[i] = x}

Ready(w) == {c \in ready : watched[c].worker = w /\ Mask(sock[c]) # {}}

EventOf(c) == Event([block |-> watched[c].block, client |-> c], Mask(sock[c]))

\* epoll_wait.  A round without events and completions changes nothing.
WaitForEvents(w) ==
  /\ At(w, "loop")
  /\ Ready(w) # {} \/ aio_ctx[w] # <<>> \/ graceful_shutdown
  /\ \E list \in Orders({EventOf(c) : c \in Ready(w)}
                         \cup (IF graceful_shutdown THEN {Exit} ELSE {})) :
       events' = [events EXCEPT ![w] = list]
  /\ ready' = ready \ Ready(w)
  /\ thread' = [thread EXCEPT ![w] = Local("event")]
  /\ UNCHANGED <<otherVars, aio_ctx, aio_events, connVars, watched, sock, closed,
                 historyVars>>

\* epoll_wait fails, and the thread ends.
WaitFails(w) ==
  /\ "wait" \in Faults
  /\ At(w, "loop")
  /\ thread' = [thread EXCEPT ![w] = Local("left")]
  /\ UNCHANGED restVars

\* The exit event clears worker->running, and the loops end.
ExitEvent(w) ==
  /\ At(w, "event")
  /\ events[w] # <<>>
  /\ Head(events[w]) = Exit
  /\ events' = [events EXCEPT ![w] = <<>>]
  /\ thread' = [thread EXCEPT ![w] = Local("left")]
  /\ UNCHANGED <<otherVars, aio_ctx, aio_events, connVars, socketVars, historyVars>>

EventMask(w) == Head(events[w]).mask

\* mt_handle_connection_event takes up the next event and goes on at the step;
\* "done" is the end of its part for input.
Handles(w, step) ==
  /\ events' = [events EXCEPT ![w] = Tail(@)]
  /\ LET l == [thread[w] EXCEPT !.ptr = Head(events[w]).ptr, !.out = "out" \in EventMask(w)]
     IN thread' = [thread EXCEPT ![w] = IF step = "done" THEN Finished(l)
                                        ELSE [l EXCEPT !.at = step]]

\* The next event is one of a connection.
HasEvent(w) ==
  /\ At(w, "event")
  /\ events[w] # <<>>
  /\ Head(events[w]) # Exit

\* The connection of the next event, its descriptor and what a read finds.
EventConn(w) == heap[Head(events[w]).ptr.block]
EventSock(w) == sock[EventConn(w).fd]
Readable(w) == EventConn(w).fd \in Clients /\ EventSock(w).rx # <<>>

\* Mutant of HangupEvent: the event is ignored.
HangupIgnored(w) ==
  /\ HasEvent(w)
  /\ "err" \in EventMask(w)
  /\ Handles(w, "done")
  /\ UNCHANGED <<otherVars, aio_ctx, aio_events, connVars, socketVars, historyVars>>

HangupEvent(w) ==
  /\ HasEvent(w)
  /\ "err" \in EventMask(w)
  /\ Handles(w, "remove")
  /\ UNCHANGED <<otherVars, aio_ctx, aio_events, connVars, socketVars, historyVars>>

\* Room for output, and no input.
\* Mutant of OutputEvent: output comes before input, as in an else-if.
OutputFirst(w) ==
  /\ HasEvent(w)
  /\ "out" \in EventMask(w)
  /\ Handles(w, "done")
  /\ UNCHANGED <<otherVars, aio_ctx, aio_events, connVars, socketVars, historyVars>>

OutputEvent(w) ==
  /\ HasEvent(w)
  /\ EventMask(w) = {"out"}
  /\ Handles(w, "done")
  /\ UNCHANGED <<otherVars, aio_ctx, aio_events, connVars, socketVars, historyVars>>

\* mt_process_data: the data become the reply, over what write_buf held, unless
\* they are too long.
Reply(conn, data, len) ==
  IF Prefix + len < BufSize THEN [conn EXCEPT !.pending = data, !.wrapped = FALSE] ELSE conn

\* mt_try_read reads once, and the data are processed.
ReadEvent(w) ==
  /\ HasEvent(w)
  /\ "in" \in EventMask(w)
  /\ Readable(w)
  /\ LET c == EventConn(w).fd
         data == Take(sock[c], BufSize - 1)
         short == Prefix + Len(data) < BufSize
     IN /\ Handles(w, IF short THEN "write" ELSE "done")
        /\ sock' = [sock EXCEPT ![c] = AfterRead(@, BufSize - 1)]
        /\ heap' = [heap EXCEPT ![Head(events[w]).ptr.block] =
                      Reply([@ EXCEPT !.read_buf = data], data, Len(data))]
        /\ behind' = IF Len(sock[c].rx) >= BufSize THEN behind \cup {c} ELSE behind
        /\ Mix(c, Writing(Head(events[w]).ptr.block, w))
  /\ UNCHANGED <<otherVars, aio_ctx, aio_events, allocated, connections, watched,
                 ready, closed, cut, missed>>

\* The read finds the end of the stream or an error; or nothing, and an
\* asynchronous read follows.
ReadNothing(w) ==
  /\ HasEvent(w)
  /\ "in" \in EventMask(w)
  /\ ~Readable(w)
  /\ LET conn == EventConn(w)
         again == conn.fd \in Clients /\ ~sock[conn.fd].err /\ ~sock[conn.fd].fin
     IN Handles(w, IF again THEN "async_read" ELSE "remove")
  /\ UNCHANGED <<otherVars, aio_ctx, aio_events, connVars, socketVars, historyVars>>

\* missed: clients whose EPOLLOUT was handled between another thread's failed write
\* and its store to writable, which then undoes the handler's.
Miss(w) ==
  missed' = IF \E u \in Threads \ {w} : thread[u].at = "again" /\ Block(u) = Block(w)
            THEN missed \cup ({Conn(w).client} \cap Clients) ELSE missed

\* The handler comes to EPOLLOUT, whatever mt_try_read has done.
\* Mutant of HandleOutput: writable is not set.
HandleOutputBlind(w) ==
  /\ At(w, "out")
  /\ thread' = [thread EXCEPT ![w].at = "write", ![w].out = FALSE]
  /\ UNCHANGED <<heap, otherVars, queueVars, allocated, connections, socketVars, historyVars>>

HandleOutput(w) ==
  /\ At(w, "out")
  /\ heap' = [heap EXCEPT ![Block(w)].writable = TRUE]
  /\ thread' = [thread EXCEPT ![w].at = "write", ![w].out = FALSE]
  /\ Miss(w)
  /\ UNCHANGED <<otherVars, queueVars, allocated, connections, socketVars, mixed, cut,
                 behind>>

\* After the events the completions are taken, unless the server is stopping.
EventsDone(w) ==
  /\ At(w, "event")
  /\ events[w] = <<>>
  /\ thread' = [thread EXCEPT ![w] = Local(IF graceful_shutdown THEN "left" ELSE "complete")]
  /\ IF graceful_shutdown
     THEN UNCHANGED <<aio_ctx, aio_events>>
     ELSE /\ aio_events' = [aio_events EXCEPT ![w] = aio_ctx[w]]
          /\ aio_ctx' = [aio_ctx EXCEPT ![w] = <<>>]
  /\ UNCHANGED <<otherVars, events, connVars, socketVars, historyVars>>

\* mt_handle_aio_completion: res2 is 0 for writes too, so that every length is
\* taken for a read's, and what read_buf holds is processed.
CompleteData(w) ==
  /\ At(w, "complete")
  /\ aio_events[w] # <<>>
  /\ ~graceful_shutdown
  /\ LET done == Head(aio_events[w])
         b == done.ptr.block
     IN /\ done.res > 0
        /\ Prefix + done.res < BufSize
        /\ heap' = [heap EXCEPT ![b] = Reply(@, Bytes(@.read_buf, done.res), done.res)]
        /\ thread' = [thread EXCEPT ![w].at = "write", ![w].ptr = done.ptr]
  /\ aio_events' = [aio_events EXCEPT ![w] = Tail(@)]
  /\ UNCHANGED <<otherVars, events, aio_ctx, allocated, connections, socketVars,
                 historyVars>>

\* There is nothing to process, or too much.  res is unsigned: errors are taken for
\* lengths, by far too long ones.
CompleteNothing(w) ==
  /\ At(w, "complete")
  /\ aio_events[w] # <<>>
  /\ ~graceful_shutdown
  /\ Head(aio_events[w]).res \in {Again, Reset, 0} \cup BufSize - Prefix .. BufSize
  /\ aio_events' = [aio_events EXCEPT ![w] = Tail(@)]
  /\ UNCHANGED <<otherVars, thread, events, aio_ctx, connVars, socketVars, historyVars>>

\* The byte at read_buf[res] is cleared all the same.  For -EPIPE = -32 that is the
\* low byte of fd.
CompletePipe(w) ==
  /\ At(w, "complete")
  /\ aio_events[w] # <<>>
  /\ ~graceful_shutdown
  /\ Head(aio_events[w]).res = Pipe
  /\ LET b == Head(aio_events[w]).ptr.block IN
       /\ heap' = [heap EXCEPT ![b].fd = IF @ = None THEN None ELSE Stdin]
       /\ cut' = cut \cup ({heap[b].fd} \cap Clients)
  /\ aio_events' = [aio_events EXCEPT ![w] = Tail(@)]
  /\ UNCHANGED <<otherVars, thread, events, aio_ctx, allocated, connections, socketVars,
                 mixed, behind, missed>>

CompletionsDone(w) ==
  /\ At(w, "complete")
  /\ aio_events[w] = <<>> \/ graceful_shutdown
  /\ aio_events' = [aio_events EXCEPT ![w] = <<>>]
  /\ thread' = [thread EXCEPT ![w] = Local(IF graceful_shutdown THEN "left" ELSE "loop")]
  /\ UNCHANGED <<otherVars, events, aio_ctx, connVars, socketVars, historyVars>>

Worker(w) ==
  \/ WaitForEvents(w) \/ ExitEvent(w) \/ HangupEvent(w) \/ OutputEvent(w)
  \/ ReadEvent(w) \/ ReadNothing(w) \/ HandleOutput(w) \/ EventsDone(w)
  \/ CompleteData(w) \/ CompleteNothing(w) \/ CompletePipe(w) \/ CompletionsDone(w)
  \/ OnConnection(w)

-----------------------------------------------------------------------------
(***************************************************************************)
(* accept_thread_func                                                      *)
(***************************************************************************)

\* Mutant of NextWorker: next_worker counts on.
NextWorkerNoWrap == next_worker + 1
NextWorker == (next_worker + 1) % NumWorkers

\* accept returns a client whose socket is closed again: a call fails, or, after the
\* choice of a worker, malloc.
Refuse ==
  /\ At(Acceptor, "loop")
  /\ backlog # <<>>
  /\ ~graceful_shutdown
  /\ \/ "refuse" \in Faults /\ UNCHANGED next_worker
     \/ ("refuse" \in Faults \/ allocated = Blocks) /\ next_worker' = NextWorker
  /\ backlog' = Tail(backlog)
  /\ Close({Head(backlog)})
  /\ UNCHANGED <<mainVars, thread, queueVars, connVars, watched, ready, mixed, cut>>

\* The next worker is chosen and the connection created.
AcceptConnection ==
  /\ At(Acceptor, "loop")
  /\ backlog # <<>>
  /\ ~graceful_shutdown
  /\ backlog' = Tail(backlog)
  /\ next_worker' = NextWorker
  /\ LET c == Head(backlog) IN
     \E b \in Blocks \ allocated :
       /\ allocated' = allocated \cup {b}
       /\ heap' = [heap EXCEPT ![b] = NewConnection(c)]
       /\ thread' = [thread EXCEPT ![Acceptor].at = "add",
                                   ![Acceptor].ptr = [block |-> b, client |-> c]]
       /\ Mix(c, Referenced(b))
  /\ UNCHANGED <<mainVars, queueVars, connections, socketVars, sent, got, cut,
                 behind, missed>>

\* mt_add_connection_to_worker, under conn_list_lock.
AddConnection ==
  /\ At(Acceptor, "add")
  /\ Conn(Acceptor).fd \in Clients
  /\ LET c == Conn(Acceptor).fd
         w == Context(Acceptor)
     IN /\ connections' = [connections EXCEPT ![w] = @ \cup {Block(Acceptor)}]
        /\ watched' = [watched EXCEPT ![c] = [worker |-> w, block |-> Block(Acceptor)]]
        /\ ready' = ready \cup {c}
  /\ Goto(Acceptor, "welcome")
  /\ UNCHANGED <<otherVars, queueVars, heap, allocated, sock, closed, historyVars>>

\* It fails and removes the connection, unless someone has; mt_send_welcome_message
\* follows all the same.
AddFails ==
  /\ At(Acceptor, "add")
  /\ "add" \in Faults \/ Conn(Acceptor).fd \notin Clients
  /\ IF Conn(Acceptor).is_removing
     THEN UNCHANGED <<closed, sock, sent, got, behind, missed, heap, allocated>>
     ELSE /\ Close({Conn(Acceptor).fd} \cap Clients)
          /\ heap' = [heap EXCEPT ![Block(Acceptor)].fd = None,
                                  ![Block(Acceptor)].is_removing = TRUE]
          /\ allocated' = allocated \ {Block(Acceptor)}
  /\ Goto(Acceptor, "welcome")
  /\ UNCHANGED <<mainVars, next_worker, backlog, queueVars, connections, watched, ready,
                 mixed, cut>>

\* mt_send_welcome_message fills write_buf, and mt_try_write follows.
SendWelcome ==
  /\ At(Acceptor, "welcome")
  /\ heap' = [heap EXCEPT ![Block(Acceptor)].pending = <<Welcome(thread[Acceptor].ptr.client)>>,
                          ![Block(Acceptor)].wrapped = FALSE]
  /\ Goto(Acceptor, "write")
  /\ UNCHANGED <<otherVars, queueVars, allocated, connections, socketVars, historyVars>>

\* The thread sees that the server is stopping; a client that accept returns then
\* is closed.
\* Mutant of Stopping: a blocking accept, which returns with a client only.
StoppingBlocked == graceful_shutdown /\ backlog # <<>>
Stopping == graceful_shutdown

AcceptorLeaves ==
  /\ At(Acceptor, "loop")
  /\ Stopping
  /\ \/ UNCHANGED <<backlog, closed, sock, sent, got, behind, missed>>
     \/ /\ backlog # <<>>
        /\ backlog' = Tail(backlog)
        /\ Close({Head(backlog)})
  /\ thread' = [thread EXCEPT ![Acceptor] = Local("left")]
  /\ UNCHANGED <<mainVars, next_worker, queueVars, connVars, watched, ready, mixed, cut>>

\* accept fails, and the thread ends.
AcceptFails ==
  /\ "accept" \in Faults
  /\ At(Acceptor, "loop")
  /\ thread' = [thread EXCEPT ![Acceptor] = Local("left")]
  /\ UNCHANGED restVars

AcceptThread ==
  \/ Refuse \/ AcceptConnection \/ AddConnection \/ AddFails \/ SendWelcome
  \/ AcceptorLeaves \/ OnConnection(Acceptor)

-----------------------------------------------------------------------------
(***************************************************************************)
(* main, mt_proactor_start, mt_proactor_stop, signal_handler               *)
(***************************************************************************)

serverVars == <<next_worker, queueVars, connVars, socketVars, clientVars, historyVars>>

Created(t) == thread[t].at # "none"

\* mt_proactor_start creates the workers in order, then the accept thread.
CreateThread(t) ==
  /\ main = "start"
  /\ ~Created(t)
  /\ \A u \in Threads : u < t => Created(u)
  /\ thread' = [thread EXCEPT ![t] = Local("loop")]
  /\ main' = IF t = Acceptor THEN "join" ELSE main
  /\ UNCHANGED <<running, graceful_shutdown, serverVars>>

\* A call of it fails: running is cleared, mt_proactor_stop returns at once, and so
\* does main.
StartFails ==
  /\ "start" \in Faults
  /\ main = "start"
  /\ running' = FALSE
  /\ main' = "exit"
  /\ UNCHANGED <<graceful_shutdown, thread, serverVars>>

JoinThreads ==
  /\ main = "join"
  /\ \A t \in Threads : thread[t].at = "left"
  /\ main' = "stop"
  /\ UNCHANGED <<running, graceful_shutdown, thread, serverVars>>

\* After a signal mt_proactor_stop returns at once.
StopReturns ==
  /\ main = "stop"
  /\ ~running
  /\ main' = "exit"
  /\ UNCHANGED <<running, graceful_shutdown, thread, serverVars>>

\* If the threads have ended by themselves, it joins them once more, which is
\* undefined; if that returns, everything is closed and freed.
Stop ==
  /\ main = "stop"
  /\ running
  /\ running' = FALSE
  /\ graceful_shutdown' = TRUE
  /\ \/ /\ main' = "undefined"
        /\ UNCHANGED <<allocated, connections, socketVars, sent, got, behind, missed>>
     \/ /\ main' = "exit"
        /\ LET listed == UNION {connections[w] : w \in Workers} IN
             /\ allocated' = allocated \ listed
             /\ Close({heap[b].fd : b \in listed} \cap Clients)
        /\ connections' = [w \in Workers |-> {}]
        /\ watched' = [c \in Clients |-> NoWatch]
        /\ ready' = {}
  /\ UNCHANGED <<thread, next_worker, queueVars, heap, backlog, mixed, cut>>

Main ==
  (\E t \in Threads : CreateThread(t)) \/ StartFails \/ JoinThreads \/ StopReturns \/ Stop

\* signal_handler
Signal ==
  /\ "signal" \in Faults
  /\ main \in {"start", "join", "stop"}
  /\ ~graceful_shutdown
  /\ graceful_shutdown' = TRUE
  /\ running' = FALSE
  /\ UNCHANGED <<main, thread, serverVars>>

-----------------------------------------------------------------------------
(***************************************************************************)
(* The clients                                                             *)
(***************************************************************************)

Open(c) == \E b \in allocated : heap[b].fd = c
Connected(c) == c \in closed \cup cut \/ Open(c) \/ \E i \in DOMAIN backlog : backlog[i] = c

\* Clients are numbered in the order in which they connect.
Connect(c) ==
  /\ Up
  /\ ~Connected(c)
  /\ \A d \in 1 .. c - 1 : Connected(d)
  /\ Cardinality({d \in Clients : Connected(d) /\ d \notin closed \cup cut}) < MaxOpen
  /\ backlog' = Append(backlog, c)
  /\ UNCHANGED <<mainVars, thread, next_worker, queueVars, connVars, socketVars, sent,
                 got, historyVars>>

\* Client c acts on its connection that is still open; the change wakes the epoll
\* instance that watches it.
OnSocket(c, s, wakes) ==
  /\ Up
  /\ Connected(c)
  /\ c \notin closed
  /\ ~sock[c].err
  /\ sock' = [sock EXCEPT ![c] = s]
  /\ ready' = IF wakes /\ watched[c] # NoWatch THEN ready \cup {c} ELSE ready
  /\ UNCHANGED <<mainVars, thread, next_worker, queueVars, connVars, watched, closed,
                 backlog, historyVars>>

ClientSend(c) ==
  /\ c \in Active
  /\ sent[c] < MaxBytes
  /\ ~sock[c].fin
  /\ sent' = [sent EXCEPT ![c] = @ + 1]
  /\ OnSocket(c, [sock[c] EXCEPT !.rx = Append(@, <<c, sent[c] + 1>>)], TRUE)
  /\ UNCHANGED got

ClientReceive(c) ==
  /\ sock[c].out # <<>>
  /\ got' = [got EXCEPT ![c] = Head(sock[c].out)]
  /\ OnSocket(c, [sock[c] EXCEPT !.out = Tail(@)], Room(sock[c]) = 0)
  /\ UNCHANGED sent

ClientFin(c) ==
  /\ c \in Active /\ "fin" \in Faults
  /\ ~sock[c].fin
  /\ OnSocket(c, [sock[c] EXCEPT !.fin = TRUE], TRUE)
  /\ UNCHANGED <<sent, got>>

ClientReset(c) ==
  /\ c \in Active /\ "reset" \in Faults
  /\ OnSocket(c, [sock[c] EXCEPT !.err = TRUE, !.rx = <<>>, !.out = <<>>], TRUE)
  /\ UNCHANGED <<sent, got>>

Client(c) ==
  Connect(c) \/ ClientSend(c) \/ ClientReceive(c) \/ ClientFin(c) \/ ClientReset(c)

Next ==
  \/ \E w \in Workers : Worker(w) \/ WaitFails(w)
  \/ AcceptThread
  \/ AcceptFails
  \/ Main
  \/ Signal
  \/ \E c \in Clients : Client(c)

Spec == Init /\ [][Next]_vars

\* Every thread is scheduled, and clients read what is sent to them.  The subscripts
\* name what every step of the action changes: the same fairness as with vars, which
\* TLC evaluates faster.
FairSpec ==
  /\ Spec
  /\ WF_<<main, thread>>(Main)
  /\ WF_<<backlog, thread[Acceptor]>>(AcceptThread)
  /\ \A w \in Workers : WF_<<thread[w], events[w], aio_events[w]>>(Worker(w))
  /\ \A c \in Clients : WF_<<sock[c]>>(ClientReceive(c))

-----------------------------------------------------------------------------
(***************************************************************************)
(* Properties                                                              *)
(***************************************************************************)

\* However many threads and stale pointers lead to a connection, it is removed by
\* one call of mt_remove_connection_safe at a time, never after it has been freed
\* (hybrid_proactor.c:678-681, 711), and no event of the same epoll_wait that the
\* remover has still to handle points to its block; unless a completion has
\* overwritten the descriptor of one of the two (line 656), whose socket then stays
\* in epoll when the block is freed and given away.
RemovalSafe ==
  \A t \in Threads : At(t, "free") =>
    /\ Block(t) \in allocated
    /\ \A u \in Threads \ {t} : At(u, "free") => Block(u) # Block(t)
    /\ t \in Workers =>
         \A i \in DOMAIN events[t] : events[t][i].ptr.block = Block(t) =>
           {thread[t].ptr.client, events[t][i].ptr.client} \cap cut # {}

\* A connection that met no stale pointer is on the list of one worker from
\* mt_add_connection_to_worker to its removal and on none when it is freed, although
\* the accept thread enters it and either thread removes it (hybrid_proactor.c:358-382,
\* 696-711): mt_proactor_stop frees what the lists hold.
OwnedOnce ==
  \A b \in Blocks : heap[b].client \notin mixed =>
    LET owners == {w \in Workers : b \in connections[w]} IN
      /\ Cardinality(owners) <= 1
      /\ b \notin allocated => owners = {}
      /\ b \in allocated /\ owners = {} => At(Acceptor, "add") /\ Block(Acceptor) = b

\* A client for which the accept thread and the worker never used write_buf at once
\* gets its own welcome and the echoes of its own bytes and no other client's, in
\* order and none twice, with gaps where mt_process_data has overwritten what was
\* pending; and write_pending never falls below 0 (hybrid_proactor.c:551-603).
EchoInOrder ==
  /\ \A c \in Clients \ mixed :
       LET r == <<got[c]>> \o sock[c].out IN
         /\ \A i \in DOMAIN r : r[i] = Nothing \/ r[i][1] = c
         /\ \A i \in 1 .. Len(r) - 1 : r[i][2] < r[i + 1][2]
  /\ \A b \in allocated : heap[b].wrapped => heap[b].client \in mixed

\* What a comment claims: mt_remove_connection_safe removes a connection safely
\* (hybrid_proactor.c:673) and its fields make it safe for threads
\* (hybrid_proactor.h:40).  No thread works on a connection that has been freed.
NoUseAfterFree == \A t \in Threads : ~Stale(thread[t].ptr)

\* All threads are at work.
Serving == main = "join" /\ \A t \in Threads : thread[t].at # "left"

\* Bytes that wait in write_buf are sent in the end, while the client reads: the
\* edge-triggered EPOLLOUT finds them after every short or failed write, whatever
\* became of the asynchronous one (hybrid_proactor.c:508-511, 552-576); unless that
\* edge was handled while another thread was about to clear writable after a write
\* that had failed before it: with a full AIO context the bytes then wait for ever.
OutputSent ==
  \A b \in Blocks :
    (b \in allocated /\ heap[b].pending # <<>>)
      ~> (\/ heap[b].pending = <<>>
          \/ heap[b].client \in closed \cup cut \cup missed
          \/ ~Serving)

\* One read per edge is enough as long as it takes all there is: only bytes beyond
\* BUFFER_SIZE - 1 may wait for an edge that does not come
\* (hybrid_proactor.c:503-506, 518).
InputRead ==
  \A c \in Active :
    (Open(c) /\ sock[c].rx # <<>>)
      ~> (sock[c].rx = <<>> \/ c \in closed \cup cut \/ c \in behind \/ ~Serving)

\* A connection that the client has ended is closed, even if the end comes while
\* the accept thread is still at work on it (hybrid_proactor.c:497-501, 365-370);
\* only a completion that clears fd can prevent it (hybrid_proactor.c:656).
EndedClosed ==
  \A c \in Active :
    (Open(c) /\ (sock[c].fin \/ sock[c].err)) ~> (c \in closed \cup cut \/ ~Serving)

\* After SIGINT or SIGTERM every thread leaves its loop and main comes to its end,
\* whatever the threads were doing and the start had come to
\* (efficient_hybrid_server.c:12-27, 84-97).
Ends == graceful_shutdown ~> main \in {"exit", "undefined"}

=============================================================================
