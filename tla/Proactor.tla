------------------------------ MODULE Proactor ------------------------------
(***************************************************************************)
(* The proactor of src/codes/network/proactor with its echo server: worker *)
(* threads that submit asynchronous operations, the dispatcher that runs   *)
(* the completions (proactor.c), the completion handlers and the set-up of *)
(* a connection (async_server_proactor.c), and the clients.                *)
(*                                                                         *)
(* An operation travels from the stack pending_ops to a worker, into the   *)
(* AIO context and to the dispatcher, carrying a descriptor number and     *)
(* pointers to a connection context and its handler.  A context and its    *)
(* handler are one block of the heap; numbers and blocks are used again.   *)
(*                                                                         *)
(* Linux runs the operations of non-blocking sockets in io_submit itself   *)
(* and reports EAGAIN as their result.  A unit of data is a pair of its    *)
(* client and its place in the client's stream; the "Echo: " prefix only   *)
(* counts for lengths.                                                     *)
(***************************************************************************)
EXTENDS Sockets, Integers, FiniteSets

CONSTANTS
  Clients,          \* the clients that connect
  Workers,          \* the worker threads
  MaxConnections,   \* proactor->max_connections
  BufSize,          \* BUFFER_SIZE
  Prefix,           \* length of the prefix "Echo: "
  MaxEvents,        \* completions taken by one io_getevents (64)
  Faults,           \* what may go wrong: see FaultKinds
  MaxBytes          \* bound: units a client sends

\* "create": pthread_create fails; "refuse": a call fails while a connection is
\* set up; "watch": EPOLL_CTL_ADD fails; "nomem": malloc of an operation fails;
\* "full": io_submit returns EAGAIN; "fin" and "reset": the client ends its
\* side; "signal": SIGINT.
FaultKinds ==
  {"create", "refuse", "watch", "nomem", "full", "fin", "reset", "signal"}

None == "none"

ASSUME ProactorAssumption ==
  /\ None \notin Clients
  /\ IsFiniteSet(Clients)
  /\ IsFiniteSet(Workers)
  /\ MaxConnections \in Nat \ {0}
  /\ BufSize \in Nat \ {0, 1}
  /\ Prefix \in Nat
  /\ MaxEvents \in Nat \ {0}
  /\ Faults \subseteq FaultKinds
  /\ MaxBytes \in Nat

VARIABLES
  main,             \* what main executes next
  running,          \* proactor->running
  threads,          \* the workers that have been created
  pending_ops,      \* the newest operation first
  worker,           \* the operation a worker has taken, NoOp if it waits
  stopped,          \* threads that have left their loop
  completions,      \* in the AIO context, the oldest first
  dispatcher,       \* what the dispatcher executes next
  epoll_events,     \* what epoll_wait returned, still to be handled
  events,           \* what io_getevents returned, still to be handled
  connections,      \* proactor->connections: a block or NoBlock
  heap,             \* the content of each block, freed or not
  file,             \* the open socket behind each descriptor
  watched,          \* descriptors registered with epoll
  backlog,          \* clients that accept has not yet taken
  sock,             \* the sockets
  closed,           \* clients whose socket the server has closed
  sent, got,        \* units each client has sent, what it has received
  orphaned,         \* history: clients left without an operation by "nomem"
  disturbed         \* history: clients that an operation outlives, or that get the
                    \* descriptor or the block of such an operation

queueVars == <<pending_ops, worker, stopped, completions>>
dispatchVars == <<dispatcher, epoll_events, events>>
tableVars == <<connections, watched, file, closed>>
clientVars == <<backlog, sent, got>>
historyVars == <<orphaned, disturbed>>
mainVars == <<main, running, threads>>
vars == <<mainVars, queueVars, dispatchVars, tableVars, heap, sock, clientVars,
          historyVars>>

Fds == 1 .. MaxConnections
Blocks == 1 .. Cardinality(Clients)
NoBlock == 0
Unit == Clients \X (1 .. MaxBytes)

\* The epoll event of the listening socket, beside descriptors.
Listen == 0

\* The buffers of a connection context.
Block == [read_buf : Seq(Unit), write_buf : Seq(Unit)]
Zeroed == [read_buf |-> <<>>, write_buf |-> <<>>]

Operation(type, fd, block, size, client) ==
  [type |-> type, fd |-> fd, block |-> block, size |-> size, client |-> client]

Operations ==
  [type : {"read", "write"}, fd : Fds, block : Blocks, size : 0 .. BufSize,
   client : Clients]

NoOp == [type |-> None]

\* The result of an operation; a length, or one of these.
Again == -1
Error == -2

Completion(op, res) == [op |-> op, res |-> res]

\* Types and bounds; a descriptor has a context exactly while its socket is open,
\* and no two descriptors share one (proactor.c:515, 533, 559-568).
TypeOK ==
  /\ main \in {"create", "run", "stop", "join", "exit", "undefined"}
  /\ running \in BOOLEAN
  /\ threads \subseteq Workers
  /\ pending_ops \in Seq(Operations)
  /\ worker \in [Workers -> Operations \cup {NoOp}]
  /\ stopped \subseteq threads
  /\ completions \in Seq([op : Operations, res : Error .. BufSize])
  /\ events \in Seq([op : Operations, res : Error .. BufSize])
  /\ Len(events) <= MaxEvents
  /\ dispatcher \in {"none", "epoll", "event", "reap", "complete", "stopped"}
  /\ epoll_events \in Seq(Fds \cup {Listen})
  /\ connections \in [Fds -> Blocks \cup {NoBlock}]
  /\ heap \in [Blocks -> Block]
  /\ file \in [Fds -> Clients \cup {None}]
  /\ watched \subseteq Fds
  /\ backlog \in Seq(Clients)
  /\ sock \in [Clients -> SocketType(Unit)]
  /\ \A S \in {closed, orphaned, disturbed} : S \subseteq Clients
  /\ \A fd \in Fds : connections[fd] # NoBlock <=> file[fd] # None
  /\ \A fd \in watched : file[fd] # None
  /\ \A fd, other \in Fds :
       connections[fd] = connections[other] /\ connections[fd] # NoBlock => fd = other
  /\ sent \in [Clients -> 0 .. MaxBytes]
  /\ got \in [Clients -> Seq(Unit)]

Init ==
  /\ main = "create"
  /\ running = TRUE
  /\ threads = {}
  /\ pending_ops = <<>>
  /\ worker = [w \in Workers |-> NoOp]
  /\ stopped = {}
  /\ completions = <<>>
  /\ dispatcher = "none"
  /\ epoll_events = <<>>
  /\ events = <<>>
  /\ connections = [fd \in Fds |-> NoBlock]
  /\ heap = [b \in Blocks |-> Zeroed]
  /\ file = [fd \in Fds |-> None]
  /\ watched = {}
  /\ backlog = <<>>
  /\ sock = [c \in Clients |-> NewSocket]
  /\ closed = {}
  /\ sent = [c \in Clients |-> 0]
  /\ got = [c \in Clients |-> <<>>]
  /\ orphaned = {}
  /\ disturbed = {}

\* The process has not ended.
Up == main \notin {"exit", "undefined"}

\* The operations that are under way, and how many of them are client c's.
InFlight ==
  {pending_ops[i] : i \in DOMAIN pending_ops}
  \cup {worker[w] : w \in {v \in Workers : worker[v] # NoOp}}
  \cup {completions[i].op : i \in DOMAIN completions}
  \cup {events[i].op : i \in DOMAIN events}

UnderWay(c) ==
  Cardinality({i \in DOMAIN pending_ops : pending_ops[i].client = c})
  + Cardinality({w \in Workers : worker[w] # NoOp /\ worker[w].client = c})
  + Cardinality({i \in DOMAIN completions : completions[i].op.client = c})
  + Cardinality({i \in DOMAIN events : events[i].op.client = c})

\* proactor_submit_operation
Submit(op) == pending_ops' = <<op>> \o pending_ops

\* A new operation for its connection; without memory there is none.
SubmitOrOrphan(op) ==
  \/ Submit(op) /\ UNCHANGED orphaned
  \/ /\ "nomem" \in Faults
     /\ orphaned' = orphaned \cup {op.client}
     /\ UNCHANGED pending_ops

-----------------------------------------------------------------------------
(***************************************************************************)
(* worker_thread_func                                                      *)
(***************************************************************************)

\* Mutant of TakeOperation: pending_ops is not moved on.
TakeAndLeave(w) ==
  /\ w \in threads \ stopped
  /\ worker[w] = NoOp
  /\ running
  /\ pending_ops # <<>>
  /\ worker' = [worker EXCEPT ![w] = Head(pending_ops)]
  /\ UNCHANGED <<mainVars, pending_ops, stopped, completions, dispatchVars, tableVars, heap, sock, clientVars,
                 historyVars>>

TakeOperation(w) ==
  /\ w \in threads \ stopped
  /\ worker[w] = NoOp
  /\ running
  /\ pending_ops # <<>>
  /\ worker' = [worker EXCEPT ![w] = Head(pending_ops)]
  /\ pending_ops' = Tail(pending_ops)
  /\ UNCHANGED <<mainVars, stopped, completions, dispatchVars, tableVars, heap,
                 sock, clientVars, historyVars>>

WorkerStops(w) ==
  /\ w \in threads \ stopped
  /\ worker[w] = NoOp
  /\ ~running
  /\ stopped' = stopped \cup {w}
  /\ UNCHANGED <<mainVars, pending_ops, worker, completions, dispatchVars, tableVars,
                 heap, sock, clientVars, historyVars>>

\* io_submit accepts the operation of worker w and completes it with res.
Completed(w, res) ==
  /\ completions' = Append(completions, Completion(worker[w], res))
  /\ worker' = [worker EXCEPT ![w] = NoOp]
  /\ UNCHANGED <<mainVars, pending_ops, stopped, dispatchVars, tableVars, clientVars,
                 historyVars>>

\* The socket that the descriptor of the worker's operation names now.
Target(w) == sock[file[worker[w].fd]]

Submits(w, type) ==
  /\ worker[w] # NoOp
  /\ worker[w].type = type
  /\ file[worker[w].fd] # None

\* A read brings data into the buffer of the block.
SubmitRead(w) ==
  /\ Submits(w, "read")
  /\ LET op == worker[w]
         data == Take(Target(w), BufSize - 1)
     IN /\ data # <<>>
        /\ heap' = [heap EXCEPT ![op.block].read_buf = data]
        /\ sock' = [sock EXCEPT ![file[op.fd]] = AfterRead(@, BufSize - 1)]
        /\ Completed(w, Len(data))

\* It finds the end of the stream, an error, or nothing yet.
SubmitReadNone(w) ==
  /\ Submits(w, "read")
  /\ Target(w).rx = <<>>
  /\ Completed(w, IF Target(w).err THEN Error ELSE IF Target(w).fin THEN 0 ELSE Again)
  /\ UNCHANGED <<heap, sock>>

\* The first n bytes of a buffer; the zeros of a fresh context carry no data.
Bytes(buf, n) == SubSeq(buf, 1, Smaller(n, Len(buf)))

\* What a write finds in the write buffer of its block.
Output(op) == Bytes(heap[op.block].write_buf, op.size)

SubmitWrite(w) ==
  /\ Submits(w, "write")
  /\ ~Target(w).err
  /\ Room(Target(w)) > 0
  /\ sock' = [sock EXCEPT ![file[worker[w].fd]] = AfterWrite(@, Output(worker[w]))]
  /\ Completed(w, Smaller(worker[w].size, Room(Target(w))))
  /\ UNCHANGED heap

SubmitWriteNone(w) ==
  /\ Submits(w, "write")
  /\ Target(w).err \/ Room(Target(w)) = 0
  /\ Completed(w, IF Target(w).err THEN Error ELSE Again)
  /\ UNCHANGED <<heap, sock>>

\* io_submit fails, EBADF: the operation is freed.
SubmitFails(w) ==
  /\ worker[w] # NoOp
  /\ file[worker[w].fd] = None
  /\ worker' = [worker EXCEPT ![w] = NoOp]
  /\ UNCHANGED <<mainVars, pending_ops, stopped, completions, dispatchVars, tableVars,
                 heap, sock, clientVars, historyVars>>

\* It returns EAGAIN: the operation goes back to the stack after 10 ms.
SubmitAgain(w) ==
  /\ "full" \in Faults
  /\ worker[w] # NoOp
  /\ Submit(worker[w])
  /\ worker' = [worker EXCEPT ![w] = NoOp]
  /\ UNCHANGED <<mainVars, stopped, completions, dispatchVars, tableVars, heap, sock,
                 clientVars, historyVars>>

SubmitOk(w) ==
  SubmitRead(w) \/ SubmitReadNone(w) \/ SubmitWrite(w) \/ SubmitWriteNone(w)

Worker(w) ==
  /\ Up
  /\ \/ TakeOperation(w) \/ WorkerStops(w)
     \/ SubmitOk(w) \/ SubmitFails(w) \/ SubmitAgain(w)

-----------------------------------------------------------------------------
(***************************************************************************)
(* The dispatcher's epoll loop                                             *)
(***************************************************************************)

\* What epoll_wait may report: connections and the listening socket.
Ready ==
  {fd \in watched : sock[file[fd]].err} \cup (IF backlog = <<>> THEN {} ELSE {Listen})

\* The events of one epoll_wait come in no particular order.
Orders(S) == {s \in [1 .. Cardinality(S) -> S] : \A x \in S : \E i \in DOMAIN s : s[i] = x}

WaitForEvents ==
  /\ dispatcher = "epoll"
  /\ running
  /\ epoll_events' \in Orders(Ready)
  /\ dispatcher' = "event"
  /\ UNCHANGED <<mainVars, queueVars, events, tableVars, heap, sock, clientVars,
                 historyVars>>

\* Mutant of Remove: the entry of the table is not cleared.
RemoveStays(fd) ==
  /\ watched' = watched \ {fd}
  /\ file' = [file EXCEPT ![fd] = None]
  /\ closed' = closed \cup {file[fd]}
  /\ UNCHANGED connections

\* proactor_remove_connection
Remove(fd) ==
  /\ watched' = watched \ {fd}
  /\ file' = [file EXCEPT ![fd] = None]
  /\ closed' = closed \cup {file[fd]}
  /\ connections' = [connections EXCEPT ![fd] = NoBlock]

NextEvent == epoll_events' = Tail(epoll_events)

\* handle_connection_event: the connection has an error or hung up.
Hangup ==
  /\ dispatcher = "event"
  /\ epoll_events # <<>>
  /\ LET fd == Head(epoll_events) IN
       /\ fd # Listen
       /\ Remove(fd)
       /\ disturbed' = IF UnderWay(file[fd]) > 0 THEN disturbed \cup {file[fd]} ELSE disturbed
  /\ NextEvent
  /\ UNCHANGED <<mainVars, queueVars, dispatcher, events, heap, sock, clientVars,
                 orphaned>>

Accepts ==
  /\ dispatcher = "event"
  /\ epoll_events # <<>>
  /\ Head(epoll_events) = Listen
  /\ backlog # <<>>
  /\ NextEvent
  /\ backlog' = Tail(backlog)

FreeFds == {fd \in Fds : file[fd] = None}
FreeBlocks == {b \in Blocks : \A fd \in Fds : connections[fd] # b}

\* handle_new_connection with setup_new_connection: the lowest free descriptor,
\* a context that malloc finds, the first read and the watch for errors.
HandleNewConnection ==
  /\ Accepts
  /\ FreeFds # {}
  /\ LET c == Head(backlog)
         fd == CHOOSE n \in FreeFds : \A m \in FreeFds : n <= m
     IN \E b \in FreeBlocks :
          /\ connections' = [connections EXCEPT ![fd] = b]
          /\ heap' = [heap EXCEPT ![b] = Zeroed]
          /\ file' = [file EXCEPT ![fd] = c]
          /\ \/ watched' = watched \cup {fd}
             \/ "watch" \in Faults /\ UNCHANGED watched
          /\ SubmitOrOrphan(Operation("read", fd, b, BufSize - 1, c))
          /\ disturbed' = IF \E op \in InFlight : op.fd = fd \/ op.block = b
                          THEN disturbed \cup {c} ELSE disturbed
  /\ UNCHANGED <<mainVars, worker, stopped, completions, dispatcher, events, closed,
                 sock, sent, got>>

\* The descriptor is beyond the table or a call fails: it is closed again.
RefuseConnection ==
  /\ Accepts
  /\ FreeFds = {} \/ "refuse" \in Faults
  /\ closed' = closed \cup {Head(backlog)}
  /\ UNCHANGED <<mainVars, queueVars, dispatcher, events, connections, watched, file,
                 heap, sock, sent, got, historyVars>>

\* The exit event is written only by proactor_stop after running is cleared.
EventsDone ==
  /\ dispatcher = "event"
  /\ epoll_events = <<>>
  /\ dispatcher' = IF running THEN "reap" ELSE "stopped"
  /\ UNCHANGED <<mainVars, queueVars, epoll_events, events, tableVars, heap, sock,
                 clientVars, historyVars>>

-----------------------------------------------------------------------------
(***************************************************************************)
(* The dispatcher's completion loop and the completion handlers.  The      *)
(* result of io_getevents is unsigned in libaio: the handlers, and not     *)
(* handle_error, see the errors, and EAGAIN is resubmitted.                *)
(***************************************************************************)

\* io_getevents
Reap ==
  /\ dispatcher = "reap"
  /\ events' = SubSeq(completions, 1, Smaller(MaxEvents, Len(completions)))
  /\ completions' = Drop(completions, MaxEvents)
  /\ dispatcher' = "complete"
  /\ UNCHANGED <<mainVars, pending_ops, worker, stopped, epoll_events, tableVars, heap,
                 sock, clientVars, historyVars>>

\* The completion that the dispatcher handles.
Done == Head(events)

Handles ==
  /\ dispatcher = "complete"
  /\ events # <<>>
  /\ events' = Tail(events)

\* The connection is there and the operation's handler is the one of its context.
Matches == connections[Done.op.fd] # NoBlock /\ connections[Done.op.fd] = Done.op.block

\* The connection is gone, or the descriptor belongs to another one.
DropCompletion ==
  /\ Handles
  /\ ~Matches
  /\ UNCHANGED <<mainVars, queueVars, dispatcher, epoll_events, tableVars, heap, sock,
                 clientVars, historyVars>>

\* Mutant of CompleteAgain: EAGAIN is left to the handlers, which ignore it.
CompleteAgainFrees ==
  /\ Handles
  /\ Matches
  /\ Done.res = Again
  /\ UNCHANGED <<mainVars, queueVars, dispatcher, epoll_events, tableVars, heap, sock,
                 clientVars, historyVars>>

\* EAGAIN: the same operation again, after 10 ms.
CompleteAgain ==
  /\ Handles
  /\ Matches
  /\ Done.res = Again
  /\ Submit(Done.op)
  /\ UNCHANGED <<mainVars, worker, stopped, completions, dispatcher, epoll_events,
                 tableVars, heap, sock, clientVars, historyVars>>

\* Mutant of CompleteEnd: only an error removes the connection.
CompleteEndKeeps ==
  /\ Handles
  /\ Matches
  /\ Done.res \in {0, Error}
  /\ LET c == file[Done.op.fd]
         others == UnderWay(c) - (IF Done.op.client = c THEN 1 ELSE 0)
     IN disturbed' = IF others > 0 THEN disturbed \cup {c} ELSE disturbed
  /\ IF Done.res = Error THEN Remove(Done.op.fd) ELSE UNCHANGED tableVars
  /\ UNCHANGED <<mainVars, queueVars, dispatcher, epoll_events, heap, sock, clientVars,
                 orphaned>>

\* The end of the stream or an error.
CompleteEnd ==
  /\ Handles
  /\ Matches
  /\ Done.res \in {0, Error}
  /\ LET c == file[Done.op.fd]
         others == UnderWay(c) - (IF Done.op.client = c THEN 1 ELSE 0)
     IN disturbed' = IF others > 0 THEN disturbed \cup {c} ELSE disturbed
  /\ Remove(Done.op.fd)
  /\ UNCHANGED <<mainVars, queueVars, dispatcher, epoll_events, heap, sock, clientVars,
                 orphaned>>

\* An operation of the type on the connection of the completion.
NextOperation(type, size) ==
  Operation(type, Done.op.fd, Done.op.block, size, file[Done.op.fd])

\* Mutant of CompleteRead: the next read is submitted together with the echo.
CompleteReadBoth ==
  /\ Handles
  /\ Matches
  /\ Done.op.type = "read"
  /\ Done.res > 0
  /\ heap' = [heap EXCEPT ![Done.op.block].write_buf =
                Bytes(heap[Done.op.block].read_buf, Done.res)]
  /\ pending_ops' = <<NextOperation("write", Done.res), NextOperation("read", BufSize - 1)>>
                    \o pending_ops
  /\ UNCHANGED <<mainVars, worker, stopped, completions, dispatcher, epoll_events,
                 tableVars, sock, clientVars, historyVars>>

\* Mutant of CompleteRead: nothing follows a message that is too long.
CompleteReadShort ==
  /\ Handles
  /\ Matches
  /\ Done.op.type = "read"
  /\ Done.res > 0
  /\ heap' = [heap EXCEPT ![Done.op.block].write_buf =
                Bytes(heap[Done.op.block].read_buf, Done.res)]
  /\ IF Prefix + Done.res < BufSize
     THEN SubmitOrOrphan(NextOperation("write", Done.res))
     ELSE UNCHANGED <<pending_ops, orphaned>>
  /\ UNCHANGED <<mainVars, worker, stopped, completions, dispatcher, epoll_events,
                 tableVars, sock, clientVars, disturbed>>

CompleteRead ==
  /\ Handles
  /\ Matches
  /\ Done.op.type = "read"
  /\ Done.res > 0
  /\ \/ /\ Prefix + Done.res < BufSize       \* handle_read_completion echoes
        /\ heap' = [heap EXCEPT ![Done.op.block].write_buf =
                      Bytes(heap[Done.op.block].read_buf, Done.res)]
        /\ SubmitOrOrphan(NextOperation("write", Done.res))
     \/ /\ Prefix + Done.res >= BufSize      \* too long: the data are given up
        /\ SubmitOrOrphan(NextOperation("read", BufSize - 1))
        /\ UNCHANGED heap
  /\ UNCHANGED <<mainVars, worker, stopped, completions, dispatcher, epoll_events,
                 tableVars, sock, clientVars, disturbed>>

CompleteWrite ==
  /\ Handles
  /\ Matches
  /\ Done.op.type = "write"
  /\ Done.res > 0
  /\ SubmitOrOrphan(NextOperation("read", BufSize - 1))
  /\ UNCHANGED <<mainVars, worker, stopped, completions, dispatcher, epoll_events,
                 tableVars, heap, sock, clientVars, disturbed>>

CompletionsDone ==
  /\ dispatcher = "complete"
  /\ events = <<>>
  /\ dispatcher' = IF running THEN "epoll" ELSE "stopped"
  /\ UNCHANGED <<mainVars, queueVars, epoll_events, events, tableVars, heap, sock,
                 clientVars, historyVars>>

Dispatcher ==
  /\ Up
  /\ \/ WaitForEvents \/ Hangup \/ HandleNewConnection \/ RefuseConnection
     \/ EventsDone \/ Reap \/ DropCompletion \/ CompleteAgain \/ CompleteEnd
     \/ CompleteRead \/ CompleteWrite \/ CompletionsDone

-----------------------------------------------------------------------------
(***************************************************************************)
(* main: proactor_start, the wait for the end, proactor_stop               *)
(***************************************************************************)

serverVars == <<queueVars, dispatchVars, tableVars, heap, sock, clientVars, historyVars>>

CreateWorker(w) ==
  /\ main = "create"
  /\ w \notin threads
  /\ threads' = threads \cup {w}
  /\ UNCHANGED <<main, running, serverVars>>

CreateDispatcher ==
  /\ main = "create"
  /\ threads = Workers
  /\ dispatcher' = "epoll"
  /\ main' = "run"
  /\ UNCHANGED <<running, threads, queueVars, epoll_events, events, tableVars,
                 heap, sock, clientVars, historyVars>>

\* A thread cannot be created, or, before the first, the listening socket: main calls
\* proactor_stop.
CreateFails ==
  /\ "create" \in Faults
  /\ main = "create"
  /\ main' = "stop"
  /\ UNCHANGED <<running, threads, serverVars>>

\* Mutant of RunEnds: main joins the dispatcher before it calls proactor_stop.
RunEndsJoined ==
  /\ main = "run"
  /\ ~running
  /\ dispatcher = "stopped"
  /\ main' = "stop"
  /\ UNCHANGED <<running, threads, serverVars>>

\* The loop of main that sleeps while the proactor runs has ended.
RunEnds ==
  /\ main = "run"
  /\ ~running
  /\ main' = "stop"
  /\ UNCHANGED <<running, threads, serverVars>>

\* proactor_stop clears the flag and wakes the threads.
Stop ==
  /\ main = "stop"
  /\ running
  /\ running' = FALSE
  /\ main' = "join"
  /\ UNCHANGED <<threads, serverVars>>

\* It returns at once when the flag is cleared already.
StopReturns ==
  /\ main = "stop"
  /\ ~running
  /\ main' = "exit"
  /\ UNCHANGED <<running, threads, serverVars>>

\* It joins the threads, and cleanup_proactor_resources follows: what happens when
\* the ids of the threads that were not created are 0 or join harmlessly.
JoinAndClean ==
  /\ main = "join"
  /\ threads \subseteq stopped
  /\ dispatcher \in {"none", "stopped"}
  /\ main' = "exit"
  /\ connections' = [fd \in Fds |-> NoBlock]
  /\ closed' = closed \cup {file[fd] : fd \in {n \in Fds : connections[n] # NoBlock}}
  /\ file' = [fd \in Fds |-> None]
  /\ watched' = {}
  /\ UNCHANGED <<running, threads, queueVars, dispatchVars, heap, sock, clientVars,
                 historyVars>>

\* A failed start has left ids undefined: that of the dispatcher, which is joined
\* first, after its own pthread_create has failed; otherwise entries of
\* worker_threads, behind those of the workers that were created.
JoinUndefined ==
  /\ main = "join"
  /\ dispatcher = "none"
  /\ threads = Workers \/ threads \subseteq stopped
  /\ main' = "undefined"
  /\ UNCHANGED <<running, threads, serverVars>>

Main ==
  \/ \E w \in Workers : CreateWorker(w)
  \/ CreateDispatcher \/ CreateFails \/ RunEnds \/ Stop \/ StopReturns
  \/ JoinAndClean \/ JoinUndefined

\* signal_handler
Signal ==
  /\ "signal" \in Faults
  /\ Up
  /\ running
  /\ running' = FALSE
  /\ UNCHANGED <<main, threads, serverVars>>

-----------------------------------------------------------------------------
(***************************************************************************)
(* The clients                                                             *)
(***************************************************************************)

Accepted(c) == \E fd \in Fds : file[fd] = c
Connected(c) == c \in closed \/ Accepted(c) \/ \E i \in DOMAIN backlog : backlog[i] = c

Connect(c) ==
  /\ ~Connected(c)
  /\ backlog' = Append(backlog, c)
  /\ UNCHANGED <<mainVars, queueVars, dispatchVars, tableVars, heap, sock, sent, got,
                 historyVars>>

\* Client c acts on its connection that is still open.
OnSocket(c, s) ==
  /\ Connected(c)
  /\ c \notin closed
  /\ ~sock[c].err
  /\ sock' = [sock EXCEPT ![c] = s]
  /\ UNCHANGED <<mainVars, queueVars, dispatchVars, tableVars, heap, backlog,
                 historyVars>>

ClientSend(c) ==
  /\ sent[c] < MaxBytes
  /\ ~sock[c].fin
  /\ sent' = [sent EXCEPT ![c] = @ + 1]
  /\ OnSocket(c, [sock[c] EXCEPT !.rx = Append(@, <<c, sent[c] + 1>>)])
  /\ UNCHANGED got

ClientReceive(c) ==
  /\ sock[c].out # <<>>
  /\ got' = [got EXCEPT ![c] = Append(@, Head(sock[c].out))]
  /\ OnSocket(c, [sock[c] EXCEPT !.out = Tail(@)])
  /\ UNCHANGED sent

ClientFin(c) ==
  /\ "fin" \in Faults
  /\ ~sock[c].fin
  /\ OnSocket(c, [sock[c] EXCEPT !.fin = TRUE])
  /\ UNCHANGED <<sent, got>>

ClientReset(c) ==
  /\ "reset" \in Faults
  /\ OnSocket(c, [sock[c] EXCEPT !.err = TRUE, !.rx = <<>>, !.out = <<>>])
  /\ UNCHANGED <<sent, got>>

Client(c) ==
  Connect(c) \/ ClientSend(c) \/ ClientReceive(c) \/ ClientFin(c) \/ ClientReset(c)

Next ==
  \/ \E w \in Workers : Worker(w)
  \/ Dispatcher
  \/ Main
  \/ Signal
  \/ \E c \in Clients : Client(c)

Spec == Init /\ [][Next]_vars

\* Worker w takes the operation of client c from the stack.
Takes(w, c) ==
  /\ Up
  /\ pending_ops # <<>> /\ Head(pending_ops).client = c
  /\ TakeOperation(w)

\* Every thread runs.  The stack serves every client: the 10 ms that follow each
\* EAGAIN leave the workers time to empty it.  io_submit does not refuse for
\* ever, and clients read what is sent to them.
FairSpec ==
  /\ Spec
  /\ WF_vars(Dispatcher)
  /\ WF_vars(Main)
  /\ \A w \in Workers :
       /\ WF_vars(Worker(w))
       /\ SF_vars(Up /\ SubmitOk(w))
  /\ \A c \in Clients :
       /\ SF_vars(\E w \in Workers : Takes(w, c))
       /\ WF_vars(ClientReceive(c))

-----------------------------------------------------------------------------
(***************************************************************************)
(* Properties                                                              *)
(***************************************************************************)

\* The accepted clients whose connection the server has not closed.
Open == {file[fd] : fd \in Fds} \ {None}

\* The chain read, write, read of a connection has one operation under way at
\* every moment, through EAGAIN, full contexts and drops; a closed connection
\* has none.  It breaks only when epoll removes a connection whose operation is
\* under way, or when there is no memory (proactor.c:128, 301-333).
OneOperation ==
  \A c \in Clients \ (orphaned \cup disturbed) :
    UnderWay(c) = IF c \in Open THEN 1 ELSE 0

\* A client receives its own data in order and none of it twice, although it may
\* lose what a full socket or a long message gives up: the buffer of a write is
\* not overwritten before the write has left it (async_server_proactor.c:94-105).
EchoInOrder ==
  \A c \in Clients \ disturbed :
    LET r == got[c] \o sock[c].out IN
      \A i \in DOMAIN r : /\ r[i][1] = c
                         /\ i > 1 => r[i - 1][2] < r[i][2]

\* A connection the client has ended is closed in the end, by its read or by
\* epoll (proactor.c:174, async_server_proactor.c:58-80).
EndsClosed ==
  \A c \in Clients :
    (c \in Open /\ (sock[c].fin \/ sock[c].err))
      ~> (c \in closed \/ c \in orphaned \/ c \in disturbed \/ ~running)

\* The server keeps reading: no connection stops with unread input
\* (proactor.c:307-311, async_server_proactor.c:109-111, 165).
InputConsumed ==
  \A c \in Clients :
    (c \in Open /\ sock[c].rx # <<>>)
      ~> (sock[c].rx = <<>> \/ c \in closed \/ c \in orphaned \/ c \in disturbed \/ ~running)

\* The program ends after a signal and after a failed start: the workers see the
\* flag and leave, and main does not wait for a dispatcher that nothing wakes
\* (proactor.c:106-109, 432-491).  Only a failed start may end in a join of an id
\* that pthread_create has not set (proactor.c:68, 461-475).
Ends ==
  (~running \/ main = "stop")
    ~> (main = "exit" \/ (main = "undefined" /\ dispatcher = "none"))

\* What "check that the handler matches the connection" (proactor.c:294) is for:
\* a client receives replies to its own messages only.
ReplyToSender ==
  \A c \in Clients : \A i \in DOMAIN got[c] : got[c][i][1] = c

=============================================================================
