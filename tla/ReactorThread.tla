--------------------------- MODULE ReactorThread ---------------------------
(***************************************************************************)
(* One reactor thread of src/codes/network/reactor/reactor.c: its loop     *)
(* (reactor_thread_main), the connections it owns, its edge-triggered      *)
(* epoll instance, and the clients at the other end of the sockets.        *)
(*                                                                         *)
(* A client socket is named by its connection: the fd, the connection_t    *)
(* behind it and the event's data.ptr are one member of Conns.  Every      *)
(* system call is one step, so clients act between any two of them.  The   *)
(* accept queue is the FIFO that RingQueue implements with one producer    *)
(* and one consumer, apart from the hand-over faults shown there.          *)
(***************************************************************************)
EXTENDS Sockets, Integers, FiniteSets, Functions

CONSTANTS
  Conns,          \* the client connections
  MaxConns,       \* MAX_CONNECTIONS
  BufSize,        \* BUFFER_SIZE
  Batch,          \* BATCH_SIZE
  MaxEvents,      \* MAX_EVENTS
  TimerEvery,     \* loops between two idle checks (100)
  Faults,         \* what may go wrong: see FaultKinds
  MaxBytes,       \* bound: bytes a client sends
  Window          \* bytes a client sends ahead of their echo

\* "add": calloc, fcntl or EPOLL_CTL_ADD fails; "cas": the weak swap of
\* ring_queue_pop_batch fails; "eintr" and "wait": epoll_wait returns -1;
\* "idle": 30 s pass without an event; "fin" and "reset": the client ends its
\* side; "stop": reactor_stop clears running.
FaultKinds == {"add", "cas", "eintr", "wait", "idle", "fin", "reset", "stop"}

ASSUME ReactorAssumption ==
  /\ MaxConns \in Nat \ {0}
  /\ BufSize \in Nat \ {0}
  /\ Batch \in Nat \ {0}
  /\ MaxEvents \in Nat \ {0}
  /\ TimerEvery \in Nat \ {0}
  /\ Faults \subseteq FaultKinds
  /\ MaxBytes \in Nat
  /\ Window \in Nat \ {0}

VARIABLES
  running,           \* thread->running
  pc,                \* the phase of reactor_thread_main
  loop_count,        \* modulo TimerEvery
  accept_queue,      \* connections accepted and not yet popped
  fds,               \* local fds[] of process_new_connections_batch
  connections,       \* thread->connections, without the slot numbers
  connection_count,  \* and active_connections, which moves with it
  conn,              \* the connection_t of each connection
  quiet,             \* connections whose last_active_time is over 30 s ago
  read_conns,        \* the two lists of the current round, still to be served
  write_conns,
  interest,          \* epoll: events registered for a connection, {} for none
  ready,             \* epoll: the ready list
  sock,              \* the sockets
  closed,            \* sockets the server has closed
  sent, got          \* bytes each client has sent, bytes it has received

threadVars == <<running, pc, loop_count, accept_queue, fds>>
connVars == <<connections, connection_count, conn, quiet>>
listVars == <<read_conns, write_conns>>
kernelVars == <<interest, ready, sock, closed>>
clientVars == <<sent, got>>
vars == <<threadVars, connVars, listVars, kernelVars, clientVars>>

Byte == 1 .. MaxBytes

\* What calloc leaves in a connection_t: both buffers empty.
NewConn == [read_buf |-> <<>>, write_buf |-> <<>>, write_sent |-> 0]

UpTo(set, n) == UNION {[1 .. k -> set] : k \in 0 .. n}

\* Types and bounds: the table and the buffers stay within their sizes
\* (reactor.c:113, 182, 197).
TypeOK ==
  /\ running \in BOOLEAN
  /\ pc \in {"top", "add", "wait", "read", "write", "timer", "stopped"}
  /\ loop_count \in 0 .. TimerEvery - 1
  /\ accept_queue \in Seq(Conns)
  /\ fds \in UpTo(Conns, Batch)
  /\ connections \subseteq Conns
  /\ Cardinality(connections) <= MaxConns
  /\ connection_count = Cardinality(connections)
  /\ conn \in [Conns -> [read_buf   : UpTo(Byte, BufSize),
                         write_buf  : UpTo(Byte, BufSize),
                         write_sent : 0 .. BufSize]]
  /\ quiet \subseteq connections
  /\ read_conns \in UpTo(Conns, MaxEvents)
  /\ write_conns \in UpTo(Conns, MaxEvents)
  /\ interest \in [Conns -> SUBSET {"in", "out"}]
  /\ ready \subseteq Conns
  /\ sock \in [Conns -> SocketType(Byte)]
  /\ closed \subseteq Conns
  /\ sent \in [Conns -> 0 .. MaxBytes]
  /\ got \in [Conns -> Seq(Byte)]

Init ==
  /\ running = TRUE
  /\ pc = "top"
  /\ loop_count = 0
  /\ accept_queue = <<>>
  /\ fds = <<>>
  /\ connections = {}
  /\ connection_count = 0
  /\ conn = [c \in Conns |-> NewConn]
  /\ quiet = {}
  /\ read_conns = <<>>
  /\ write_conns = <<>>
  /\ interest = [c \in Conns |-> {}]
  /\ ready = {}
  /\ sock = [c \in Conns |-> NewSocket]
  /\ closed = {}
  /\ sent = [c \in Conns |-> 0]
  /\ got = [c \in Conns |-> <<>>]

\* Connections the accept thread has handed over.
Accepted == Range(accept_queue) \cup Range(fds) \cup connections \cup closed

-----------------------------------------------------------------------------
(***************************************************************************)
(* epoll                                                                   *)
(***************************************************************************)

\* EPOLL_CTL_MOD (and _ADD) with the socket in state s: the mask is replaced and
\* the socket polled once.
Arm(c, s, mask) ==
  /\ interest' = [interest EXCEPT ![c] = mask]
  /\ ready' = IF Events(s, mask) # {} THEN ready \cup {c} ELSE ready

\* A change of socket c that wakes pollers with the events in key.
Wake(c, key) ==
  ready' = IF interest[c] # {} /\ key \cap (interest[c] \cup {"err"}) # {}
           THEN ready \cup {c} ELSE ready

\* Mutant of Close: connection_count is not decremented.
CloseUncounted(dead) ==
  /\ interest' = [c \in Conns |-> IF c \in dead THEN {} ELSE interest[c]]
  /\ closed' = closed \cup dead
  /\ connections' = connections \ dead
  /\ UNCHANGED connection_count
  /\ conn' = [c \in Conns |-> IF c \in dead THEN NewConn ELSE conn[c]]

\* handle_close_event for every connection in dead: out of epoll, the socket
\* closed, out of the table, the connection_t freed.
Close(dead) ==
  /\ interest' = [c \in Conns |-> IF c \in dead THEN {} ELSE interest[c]]
  /\ closed' = closed \cup dead
  /\ connections' = connections \ dead
  /\ connection_count' = connection_count - Cardinality(dead \cap connections)
  /\ conn' = [c \in Conns |-> IF c \in dead THEN NewConn ELSE conn[c]]

-----------------------------------------------------------------------------
(***************************************************************************)
(* The loop of reactor_thread_main                                         *)
(***************************************************************************)

Exit ==
  /\ pc = "top"
  /\ ~running
  /\ pc' = "stopped"
  /\ UNCHANGED <<running, loop_count, accept_queue, fds,
                 connVars, listVars, kernelVars, clientVars>>

\* ring_queue_pop_batch takes n connections.
PopBatch(n) ==
  /\ pc = "top"
  /\ running
  /\ loop_count' = (loop_count + 1) % TimerEvery
  /\ fds' = SubSeq(accept_queue, 1, n)
  /\ accept_queue' = Drop(accept_queue, n)
  /\ pc' = IF n = 0 THEN "wait" ELSE "add"
  /\ UNCHANGED <<running, connVars, listVars, kernelVars, clientVars>>

PopNew == PopBatch(Smaller(Batch, Len(accept_queue)))

PopNothing == "cas" \in Faults /\ accept_queue # <<>> /\ PopBatch(0)

NextFd ==
  /\ fds' = Tail(fds)
  /\ pc' = IF Len(fds) = 1 THEN "wait" ELSE "add"

\* thread_add_connection succeeds.
AddConnection ==
  /\ pc = "add"
  /\ Cardinality(connections) < MaxConns
  /\ LET c == Head(fds) IN
       /\ connections' = connections \cup {c}
       /\ conn' = [conn EXCEPT ![c] = NewConn]
       /\ Arm(c, sock[c], {"in"})
  /\ connection_count' = connection_count + 1
  /\ NextFd
  /\ UNCHANGED <<running, loop_count, accept_queue, quiet, listVars, sock,
                 closed, clientVars>>

\* Mutant of RefuseConnection: the socket is not closed.
RefuseOpen ==
  /\ pc = "add"
  /\ Cardinality(connections) >= MaxConns \/ "add" \in Faults
  /\ NextFd
  /\ UNCHANGED <<running, loop_count, accept_queue, connVars, listVars,
                 kernelVars, clientVars>>

\* Mutant of RefuseConnection: the slot was taken before EPOLL_CTL_ADD failed.
RefuseListed ==
  /\ pc = "add"
  /\ "add" \in Faults
  /\ connections' = connections \cup {Head(fds)}
  /\ connection_count' = connection_count + 1
  /\ closed' = closed \cup {Head(fds)}
  /\ NextFd
  /\ UNCHANGED <<running, loop_count, accept_queue, conn, quiet, listVars,
                 interest, ready, sock, clientVars>>

\* It fails, and process_new_connections_batch closes the socket.
RefuseConnection ==
  /\ pc = "add"
  /\ Cardinality(connections) >= MaxConns \/ "add" \in Faults
  /\ closed' = closed \cup {Head(fds)}
  /\ NextFd
  /\ UNCHANGED <<running, loop_count, accept_queue, connVars, listVars,
                 interest, ready, sock, clientVars>>

\* The lists of the connections of S, one for each order of the events.
ListsOf(S) == Bijection(1 .. Cardinality(S), S)

\* epoll_wait returns the events of up to MaxEvents sockets and the loop sorts
\* them: resets are closed at once, the others go to the read and write lists.
\* With no event it times out after 10 ms.
WaitAndClassify ==
  /\ pc = "wait"
  /\ LET events == [c \in Conns |-> Events(sock[c], interest[c])]
         due == {c \in ready : events[c] # {}}
     IN \E reported \in SUBSET due :
          LET dead == {c \in reported : "err" \in events[c]}
              With(e) == {c \in reported \ dead : e \in events[c]}
          IN /\ Cardinality(reported) = Smaller(MaxEvents, Cardinality(due))
             /\ Close(dead)
             /\ ready' = due \ reported
             /\ quiet' = quiet \ reported
             /\ read_conns' \in ListsOf(With("in"))
             /\ write_conns' \in ListsOf(With("out"))
  /\ pc' = "read"
  /\ UNCHANGED <<running, loop_count, accept_queue, fds, sock, clientVars>>

\* epoll_wait is interrupted: the loop starts over, without the idle check.
WaitInterrupted ==
  /\ "eintr" \in Faults
  /\ pc = "wait"
  /\ pc' = "top"
  /\ UNCHANGED <<running, loop_count, accept_queue, fds,
                 connVars, listVars, kernelVars, clientVars>>

\* Any other error of epoll_wait ends the thread.
WaitFails ==
  /\ "wait" \in Faults
  /\ pc = "wait"
  /\ pc' = "stopped"
  /\ UNCHANGED <<running, loop_count, accept_queue, fds,
                 connVars, listVars, kernelVars, clientVars>>

-----------------------------------------------------------------------------
(***************************************************************************)
(* handle_read_event: one round of its loop for the first listed           *)
(* connection                                                              *)
(***************************************************************************)

\* The loop is left: on to the next connection.
ReadNext ==
  /\ read_conns' = Tail(read_conns)
  /\ UNCHANGED <<threadVars, write_conns, clientVars>>

\* Mutant of Echoed: write_buf is overwritten while it holds unsent bytes.
EchoedOver(k) ==
  IF k.write_sent + Len(k.read_buf) < BufSize
  THEN [k EXCEPT !.write_buf = k.read_buf, !.read_buf = <<>>]
  ELSE k

\* handle_add_write: what is in read_buf moves to write_buf if that is empty.
Echoed(k) ==
  IF k.write_buf = <<>> /\ k.write_sent + Len(k.read_buf) < BufSize
  THEN [k EXCEPT !.write_buf = k.read_buf, !.read_buf = <<>>]
  ELSE k

\* read puts the bytes behind those in read_buf.
Received(k, bytes) == [k EXCEPT !.read_buf = @ \o bytes]

\* Mutant of ReadBytes: EPOLLIN stays on while a reply is pending.
ReadBytesBoth ==
  /\ pc = "read"
  /\ read_conns # <<>>
  /\ LET c == Head(read_conns)
         remaining == BufSize - Len(conn[c].read_buf)
         bytes == Take(sock[c], remaining)
         s == AfterRead(sock[c], remaining)
     IN /\ bytes # <<>>
        /\ sock' = [sock EXCEPT ![c] = s]
        /\ conn' = [conn EXCEPT ![c] = Echoed(Received(@, bytes))]
        /\ Arm(c, s, {"in", "out"})
  /\ UNCHANGED <<threadVars, connections, connection_count, quiet, listVars,
                 closed, clientVars>>

\* Bytes are read, and the connection waits for EPOLLOUT from now on.
ReadBytes ==
  /\ pc = "read"
  /\ read_conns # <<>>
  /\ LET c == Head(read_conns)
         remaining == BufSize - Len(conn[c].read_buf)
         bytes == Take(sock[c], remaining)
         s == AfterRead(sock[c], remaining)
     IN /\ bytes # <<>>
        /\ sock' = [sock EXCEPT ![c] = s]
        /\ conn' = [conn EXCEPT ![c] = Echoed(Received(@, bytes))]
        /\ Arm(c, s, {"out"})
  /\ UNCHANGED <<threadVars, connections, connection_count, quiet, listVars,
                 closed, clientVars>>

\* read_buf is full: the loop is left without a read.
ReadFull ==
  /\ pc = "read"
  /\ read_conns # <<>>
  /\ Len(conn[Head(read_conns)].read_buf) = BufSize
  /\ ReadNext
  /\ UNCHANGED <<connVars, kernelVars>>

\* EAGAIN: everything received has been read.
ReadAgain ==
  /\ pc = "read"
  /\ read_conns # <<>>
  /\ LET c == Head(read_conns) IN
       /\ Len(conn[c].read_buf) < BufSize
       /\ sock[c].rx = <<>> /\ ~sock[c].fin /\ ~sock[c].err
  /\ ReadNext
  /\ UNCHANGED <<connVars, kernelVars>>

\* The client has closed its side (n == 0) or reset the connection (n == -1).
ReadEnds ==
  /\ pc = "read"
  /\ read_conns # <<>>
  /\ LET c == Head(read_conns) IN
       /\ Len(conn[c].read_buf) < BufSize
       /\ sock[c].rx = <<>> /\ (sock[c].fin \/ sock[c].err)
       /\ Close({c})
       /\ ready' = ready \ {c}
       /\ quiet' = quiet \ {c}
  /\ ReadNext
  /\ UNCHANGED sock

ReadsDone ==
  /\ pc = "read"
  /\ read_conns = <<>>
  /\ pc' = "write"
  /\ UNCHANGED <<running, loop_count, accept_queue, fds,
                 connVars, listVars, kernelVars, clientVars>>

-----------------------------------------------------------------------------
(***************************************************************************)
(* handle_write_events: one round of its loop                              *)
(***************************************************************************)

Unsent(k) == Drop(k.write_buf, k.write_sent)

WriteNext ==
  /\ write_conns' = Tail(write_conns)
  /\ UNCHANGED <<threadVars, read_conns, clientVars>>

\* Mutant of WriteBytes: EPOLLIN is armed after every write, complete or not.
WriteBytesOnce ==
  /\ pc = "write"
  /\ write_conns # <<>>
  /\ LET c == Head(write_conns)
         n == Len(Put(sock[c], Unsent(conn[c])))
         s == AfterWrite(sock[c], Unsent(conn[c]))
     IN /\ ~sock[c].err
        /\ n > 0
        /\ sock' = [sock EXCEPT ![c] = s]
        /\ conn' = IF conn[c].write_sent + n < Len(conn[c].write_buf)
                   THEN [conn EXCEPT ![c].write_sent = @ + n]
                   ELSE [conn EXCEPT ![c].write_buf = <<>>, ![c].write_sent = 0]
        /\ Arm(c, s, {"in"})
  /\ WriteNext
  /\ UNCHANGED <<connections, connection_count, quiet, closed>>

\* Mutant of WriteBytes: ">" for ">=" in handle_add_read_event.
WriteBytesStay ==
  /\ pc = "write"
  /\ write_conns # <<>>
  /\ LET c == Head(write_conns)
         n == Len(Put(sock[c], Unsent(conn[c])))
     IN /\ ~sock[c].err
        /\ n > 0
        /\ sock' = [sock EXCEPT ![c] = AfterWrite(@, Unsent(conn[c]))]
        /\ conn' = [conn EXCEPT ![c].write_sent = @ + n]
        /\ UNCHANGED <<interest, ready>>
  /\ WriteNext
  /\ UNCHANGED <<connections, connection_count, quiet, closed>>

\* write takes some bytes; handle_add_read_event waits for input again once
\* write_buf is sent.
WriteBytes ==
  /\ pc = "write"
  /\ write_conns # <<>>
  /\ LET c == Head(write_conns)
         n == Len(Put(sock[c], Unsent(conn[c])))
         s == AfterWrite(sock[c], Unsent(conn[c]))
     IN /\ ~sock[c].err
        /\ n > 0
        /\ sock' = [sock EXCEPT ![c] = s]
        /\ \/ /\ conn[c].write_sent + n < Len(conn[c].write_buf)
              /\ conn' = [conn EXCEPT ![c].write_sent = @ + n]
              /\ UNCHANGED <<interest, ready>>
           \/ /\ conn[c].write_sent + n >= Len(conn[c].write_buf)
              /\ conn' = [conn EXCEPT ![c].write_buf = <<>>, ![c].write_sent = 0]
              /\ Arm(c, s, {"in"})
  /\ WriteNext
  /\ UNCHANGED <<connections, connection_count, quiet, closed>>

\* There is nothing to write: the event is ignored.
WriteNothing ==
  /\ pc = "write"
  /\ write_conns # <<>>
  /\ Unsent(conn[Head(write_conns)]) = <<>>
  /\ WriteNext
  /\ UNCHANGED <<connVars, kernelVars>>

WriteFails ==
  /\ pc = "write"
  /\ write_conns # <<>>
  /\ LET c == Head(write_conns) IN
       /\ sock[c].err
       /\ Unsent(conn[c]) # <<>>
       /\ Close({c})
       /\ ready' = ready \ {c}
       /\ quiet' = quiet \ {c}
  /\ WriteNext
  /\ UNCHANGED sock

WritesDone ==
  /\ pc = "write"
  /\ write_conns = <<>>
  /\ pc' = "timer"
  /\ UNCHANGED <<running, loop_count, accept_queue, fds,
                 connVars, listVars, kernelVars, clientVars>>

\* Mutant of Timer: the modulus never matches.
TimerNever ==
  /\ pc = "timer"
  /\ LET dead == IF loop_count = TimerEvery THEN quiet ELSE {} IN
       /\ Close(dead)
       /\ ready' = ready \ dead
       /\ quiet' = quiet \ dead
  /\ pc' = "top"
  /\ UNCHANGED <<running, loop_count, accept_queue, fds, listVars, sock,
                 clientVars>>

\* Every TimerEvery rounds the connections without an event for 30 s go.
Timer ==
  /\ pc = "timer"
  /\ LET dead == IF loop_count = 0 THEN quiet ELSE {} IN
       /\ Close(dead)
       /\ ready' = ready \ dead
       /\ quiet' = quiet \ dead
  /\ pc' = "top"
  /\ UNCHANGED <<running, loop_count, accept_queue, fds, listVars, sock,
                 clientVars>>

Loop ==
  \/ Exit \/ PopNew \/ PopNothing \/ AddConnection \/ RefuseConnection
  \/ WaitAndClassify \/ WaitInterrupted \/ WaitFails
  \/ ReadBytes \/ ReadFull \/ ReadAgain \/ ReadEnds \/ ReadsDone
  \/ WriteBytes \/ WriteNothing \/ WriteFails \/ WritesDone
  \/ Timer

-----------------------------------------------------------------------------
(***************************************************************************)
(* The clients, the clock and the accept thread                            *)
(***************************************************************************)

\* The accept thread pushes a new connection.
Accept(c) ==
  /\ running
  /\ c \notin Accepted
  /\ accept_queue' = Append(accept_queue, c)
  /\ UNCHANGED <<running, pc, loop_count, fds, connVars, listVars, kernelVars,
                 clientVars>>

Live(c) == c \in Accepted \ closed /\ ~sock[c].err

\* The client sends its next byte.
ClientSend(c) ==
  /\ Live(c)
  /\ ~sock[c].fin
  /\ sent[c] < MaxBytes
  /\ sent[c] - Len(got[c]) < Window
  /\ sent' = [sent EXCEPT ![c] = @ + 1]
  /\ sock' = [sock EXCEPT ![c].rx = Append(@, sent[c] + 1)]
  /\ Wake(c, {"in"})
  /\ UNCHANGED <<threadVars, connVars, listVars, interest, closed, got>>

\* It receives a byte; the socket raises an edge if its send space was used up.
ClientReceive(c) ==
  /\ sock[c].out # <<>>
  /\ ~sock[c].err
  /\ got' = [got EXCEPT ![c] = Append(@, Head(sock[c].out))]
  /\ sock' = [sock EXCEPT ![c].out = Tail(@)]
  /\ Wake(c, IF Room(sock[c]) = 0 THEN {"out"} ELSE {})
  /\ UNCHANGED <<threadVars, connVars, listVars, interest, closed, sent>>

\* It shuts down its sending side.
ClientFin(c) ==
  /\ "fin" \in Faults
  /\ Live(c)
  /\ ~sock[c].fin
  /\ sock' = [sock EXCEPT ![c].fin = TRUE]
  /\ Wake(c, {"in"})
  /\ UNCHANGED <<threadVars, connVars, listVars, interest, closed, clientVars>>

\* The connection is reset; what was on its way to the client is lost.
ClientReset(c) ==
  /\ "reset" \in Faults
  /\ Live(c)
  /\ sock' = [sock EXCEPT ![c].err = TRUE, ![c].out = <<>>]
  /\ Wake(c, {"in", "out", "err"})
  /\ UNCHANGED <<threadVars, connVars, listVars, interest, closed, clientVars>>

\* 30 s have passed since last_active_time.
Age(c) ==
  /\ "idle" \in Faults
  /\ c \in connections \ quiet
  /\ quiet' = quiet \cup {c}
  /\ UNCHANGED <<threadVars, connections, connection_count, conn, listVars,
                 kernelVars, clientVars>>

\* reactor_stop.
Stop ==
  /\ "stop" \in Faults
  /\ running
  /\ running' = FALSE
  /\ UNCHANGED <<pc, loop_count, accept_queue, fds, connVars, listVars,
                 kernelVars, clientVars>>

Environment ==
  \/ \E c \in Conns : \/ Accept(c) \/ ClientSend(c) \/ ClientReceive(c)
                      \/ ClientFin(c) \/ ClientReset(c) \/ Age(c)
  \/ Stop

Next == Loop \/ Environment

Spec == Init /\ [][Next]_vars

\* The thread is scheduled, signals do not interrupt epoll_wait in every round
\* that ends with an idle check, a pop that can succeed does not fail for ever,
\* and clients read what they are sent.
FairSpec ==
  /\ Spec
  /\ WF_vars(Loop)
  /\ SF_vars(loop_count = 0 /\ WaitAndClassify)
  /\ SF_vars(PopNew)
  /\ \A c \in Conns : WF_vars(ClientReceive(c))

-----------------------------------------------------------------------------
(***************************************************************************)
(* Properties                                                              *)
(***************************************************************************)

\* No connection is used after free: whatever closes connections in the middle
\* of a round, the two lists of the round and the epoll instance only point to
\* connections that are still in the table (reactor.c frees a connection while
\* it works through the lists, lines 322, 337, 342; nothing but the interest
\* mask keeps one out of both lists).
NoDanglingUse ==
  /\ Range(read_conns) \cup Range(write_conns) \subseteq connections
  /\ Range(read_conns) \cap Range(write_conns) = {}
  /\ \A c \in Conns : c \in connections <=> interest[c] # {}

\* Every accepted socket is in exactly one place: in the queue, in the popped
\* batch, in the table or closed.
OwnedOnce ==
  /\ Len(accept_queue) + Len(fds) + Cardinality(connections)
       + Cardinality(closed) = Cardinality(Accepted)

Stage(c) ==
  IF c \in closed THEN "closed"
  ELSE IF c \in connections THEN "open"
  ELSE IF c \in Range(fds) THEN "popped"
  ELSE IF c \in Range(accept_queue) THEN "queued"
  ELSE "new"

CL == INSTANCE ConnLifecycle WITH state <- [c \in Conns |-> Stage(c)]

\* Each socket goes through its life in order: no step of the loop, a failure
\* included, loses an accepted socket without closing it or serves one that
\* was closed.
ImplementsLifecycle == CL!Spec

\* The echo keeps the stream: of a live connection, what the client has got,
\* what is in the kernel, unsent in write_buf, waiting in read_buf and unread
\* make up exactly what it sent, in order; nobody ever gets anything else.
Stream(c) ==
  got[c] \o sock[c].out \o Unsent(conn[c]) \o conn[c].read_buf \o sock[c].rx

StreamIntact ==
  \A c \in Conns :
    /\ Live(c) => Stream(c) = [i \in 1 .. sent[c] |-> i]
    /\ got[c] = [i \in 1 .. Len(got[c]) |-> i]

\* The edge triggers lose no output: whatever is in write_buf gets sent, however
\* the client delays its reads, or the connection is closed.
OutputSent ==
  \A c \in Conns : Unsent(conn[c]) # <<>> ~> Unsent(conn[c]) = <<>>

\* A connection that stays without events is closed by the timer.
IdleClosed == \A c \in Conns : c \in quiet ~> c \notin quiet

\* The bytes of read_buf are parked: they are not moved to write_buf although
\* that is empty, because handle_add_write found it busy, or they fill read_buf
\* (reactor.c line 182); only the client's next bytes can free the former.
Parked(c) == conn[c].write_buf = <<>> /\ conn[c].read_buf # <<>>

\* Every byte a client sends is echoed, however it runs ahead of the echo and
\* delays its reads, unless the connection ends or parks its input: that is the
\* only way in which the echo stalls.
EchoedUnlessParked ==
  \A c \in Conns, i \in Byte :
    sent[c] >= i ~> \/ Len(got[c]) >= i
                    \/ c \in closed
                    \/ sock[c].err
                    \/ Parked(c)

=============================================================================
