--------------------------- MODULE ReactorServer ---------------------------
(***************************************************************************)
(* The whole reactor server of src/codes/network/reactor: main (server.c), *)
(* the accept thread, the reactor threads and the accept queues between    *)
(* them, from reactor_create to reactor_destroy, and who owns each client  *)
(* socket meanwhile.                                                       *)
(*                                                                         *)
(* What a reactor thread does with an open connection is in ReactorThread; *)
(* here it may close any of them in its round.  A queue is the FIFO of     *)
(* RingQueue.                                                              *)
(***************************************************************************)
EXTENDS Integers, Sequences, FiniteSets, Functions

CONSTANTS
  ThreadCount,    \* reactor->thread_count
  Conns,          \* the clients that connect
  QueueSize,      \* RING_QUEUE_SIZE
  Batch,          \* BATCH_SIZE
  MaxConns,       \* MAX_CONNECTIONS
  SleepSuffices,  \* the 500 ms of main let every reactor thread start
  Faults          \* the calls that may fail: see FaultKinds

\* "epoll_create": in reactor_create; "spawn": pthread_create in reactor_run;
\* "stale_id": it leaves an id behind when it fails; "spawn_accept": the one in
\* main; "listen": create_server_socket; "accept": an error but EAGAIN; "add":
\* thread_add_connection; "wait": epoll_wait.
FaultKinds == {"epoll_create", "spawn", "stale_id", "spawn_accept", "listen",
               "accept", "add", "wait"}

ASSUME ServerAssumption ==
  /\ ThreadCount \in Nat \ {0}
  /\ QueueSize \in Nat \ {0}
  /\ Batch \in Nat \ {0}
  /\ MaxConns \in Nat \ {0}
  /\ SleepSuffices \in BOOLEAN
  /\ Faults \subseteq FaultKinds

Threads == 0 .. ThreadCount - 1

VARIABLES
  main,           \* where main is
  after,          \* where it goes on when reactor_stop returns
  i,              \* loop counter of reactor_run and reactor_stop
  running,        \* reactor->running
  freed,          \* free(reactor) was called
  thread_id,      \* reactor->threads[t].thread_id # 0
  thread_running, \* reactor->threads[t].running
  loop,           \* where each reactor thread is
  accept_queue,   \* reactor->threads[t].accept_queue
  fds,            \* sockets popped by thread t and not yet added
  connections,    \* reactor->threads[t].connections
  acceptor,       \* where the accept thread is
  client_fd,      \* the socket it has accepted, {} between two
  next_thread,    \* reactor->next_thread, modulo ThreadCount
  closed          \* client sockets that were closed

mainVars == <<main, after, i>>
loopVars == <<loop, fds, connections>>
acceptVars == <<acceptor, client_fd, next_thread>>
vars == <<mainVars, running, freed, thread_id, thread_running, loopVars,
          accept_queue, acceptVars, closed>>

MainPCs == {"create", "run", "spawn", "sleep", "spawn_accept", "getchar",
            "stop", "stop_store", "stop_join", "join_accept", "destroy",
            "exit", "undefined"}

Held == UNION {Range(accept_queue[t]) \cup Range(fds[t]) \cup connections[t] :
                 t \in Threads}

Accepted == client_fd \cup Held \cup closed

\* Types and bounds: queues, batches and tables stay within their sizes
\* (ring_queue.h:10, reactor.c:113, 149).
TypeOK ==
  /\ main \in MainPCs
  /\ after \in {"none", "join_accept", "destroy"}
  /\ i \in 0 .. ThreadCount
  /\ running \in BOOLEAN
  /\ freed \in BOOLEAN
  /\ thread_id \in [Threads -> BOOLEAN]
  /\ thread_running \in [Threads -> BOOLEAN]
  /\ loop \in [Threads -> {"none", "created", "top", "add", "serve", "stopped"}]
  /\ \A t \in Threads :
       /\ accept_queue[t] \in Seq(Conns) /\ Len(accept_queue[t]) <= QueueSize
       /\ fds[t] \in Seq(Conns) /\ Len(fds[t]) <= Batch
       /\ connections[t] \subseteq Conns /\ Cardinality(connections[t]) <= MaxConns
  /\ acceptor \in {"none", "start", "loop", "accept", "add", "push", "stopped"}
  /\ client_fd \subseteq Conns /\ Cardinality(client_fd) <= 1
  /\ next_thread \in Threads
  /\ closed \subseteq Conns

Init ==
  /\ main = "create"
  /\ after = "none"
  /\ i = 0
  /\ running = FALSE
  /\ freed = FALSE
  /\ thread_id = [t \in Threads |-> FALSE]
  /\ thread_running = [t \in Threads |-> FALSE]
  /\ loop = [t \in Threads |-> "none"]
  /\ accept_queue = [t \in Threads |-> <<>>]
  /\ fds = [t \in Threads |-> <<>>]
  /\ connections = [t \in Threads |-> {}]
  /\ acceptor = "none"
  /\ client_fd = {}
  /\ next_thread = 0
  /\ closed = {}

-----------------------------------------------------------------------------
(***************************************************************************)
(* main, reactor_create, reactor_run                                       *)
(***************************************************************************)

\* The reactor is allocated and main calls reactor_run.
Create ==
  /\ main = "create"
  /\ main' = "run"
  /\ UNCHANGED <<after, i, running, freed, thread_id, thread_running, loopVars,
                 accept_queue, acceptVars, closed>>

\* epoll_create1 fails: reactor_create frees what it has and main returns 1.
CreateFails ==
  /\ "epoll_create" \in Faults
  /\ main = "create"
  /\ main' = "exit"
  /\ freed' = TRUE
  /\ UNCHANGED <<after, i, running, thread_id, thread_running, loopVars,
                 accept_queue, acceptVars, closed>>

Run ==
  /\ main = "run"
  /\ running' = TRUE
  /\ i' = 0
  /\ main' = "spawn"
  /\ UNCHANGED <<after, freed, thread_id, thread_running, loopVars,
                 accept_queue, acceptVars, closed>>

SpawnThread ==
  /\ main = "spawn"
  /\ i < ThreadCount
  /\ thread_id' = [thread_id EXCEPT ![i] = TRUE]
  /\ loop' = [loop EXCEPT ![i] = "created"]
  /\ i' = i + 1
  /\ UNCHANGED <<main, after, running, freed, thread_running, fds, connections,
                 accept_queue, acceptVars, closed>>

\* pthread_create fails: reactor_run calls reactor_stop, main reactor_destroy.
\* The content of thread_id is then undefined.
SpawnFails ==
  /\ "spawn" \in Faults
  /\ main = "spawn"
  /\ i < ThreadCount
  /\ \/ UNCHANGED thread_id
     \/ /\ "stale_id" \in Faults
        /\ thread_id' = [thread_id EXCEPT ![i] = TRUE]
  /\ main' = "stop"
  /\ after' = "destroy"
  /\ UNCHANGED <<i, running, freed, thread_running, loopVars, accept_queue,
                 acceptVars, closed>>

RunReturns ==
  /\ main = "spawn"
  /\ i = ThreadCount
  /\ main' = "sleep"
  /\ UNCHANGED <<after, i, running, freed, thread_id, thread_running, loopVars,
                 accept_queue, acceptVars, closed>>

Sleep ==
  /\ main = "sleep"
  /\ SleepSuffices => \A t \in Threads : loop[t] # "created"
  /\ main' = "spawn_accept"
  /\ UNCHANGED <<after, i, running, freed, thread_id, thread_running, loopVars,
                 accept_queue, acceptVars, closed>>

SpawnAccept ==
  /\ main = "spawn_accept"
  /\ main' = "getchar"
  /\ acceptor' = "start"
  /\ UNCHANGED <<after, i, running, freed, thread_id, thread_running, loopVars,
                 accept_queue, client_fd, next_thread, closed>>

SpawnAcceptFails ==
  /\ "spawn_accept" \in Faults
  /\ main = "spawn_accept"
  /\ main' = "stop"
  /\ after' = "destroy"
  /\ UNCHANGED <<i, running, freed, thread_id, thread_running, loopVars,
                 accept_queue, acceptVars, closed>>

\* The user presses Enter.
Enter ==
  /\ main = "getchar"
  /\ main' = "stop"
  /\ after' = "join_accept"
  /\ UNCHANGED <<i, running, freed, thread_id, thread_running, loopVars,
                 accept_queue, acceptVars, closed>>

-----------------------------------------------------------------------------
(***************************************************************************)
(* reactor_stop and reactor_destroy                                        *)
(***************************************************************************)

StopBegins ==
  /\ main = "stop"
  /\ running' = FALSE
  /\ i' = 0
  /\ main' = "stop_store"
  /\ UNCHANGED <<after, freed, thread_id, thread_running, loopVars,
                 accept_queue, acceptVars, closed>>

StopStore ==
  /\ main = "stop_store"
  /\ i < ThreadCount
  /\ thread_running' = [thread_running EXCEPT ![i] = FALSE]
  /\ main' = "stop_join"
  /\ UNCHANGED <<after, i, running, freed, thread_id, loopVars, accept_queue,
                 acceptVars, closed>>

\* pthread_join of thread i, which waits for its end; a thread_id of no thread
\* makes it undefined.
StopJoin ==
  /\ main = "stop_join"
  /\ \/ /\ thread_id[i] => loop[i] = "stopped"
        /\ i' = i + 1
        /\ main' = "stop_store"
     \/ /\ thread_id[i] /\ loop[i] = "none"
        /\ main' = "undefined"
        /\ UNCHANGED i
  /\ UNCHANGED <<after, running, freed, thread_id, thread_running, loopVars,
                 accept_queue, acceptVars, closed>>

StopReturns ==
  /\ main = "stop_store"
  /\ i = ThreadCount
  /\ main' = after
  /\ UNCHANGED <<after, i, running, freed, thread_id, thread_running, loopVars,
                 accept_queue, acceptVars, closed>>

\* Mutant of JoinAccept: main does not wait for the accept thread.
JoinAcceptSkipped ==
  /\ main = "join_accept"
  /\ main' = "destroy"
  /\ UNCHANGED <<after, i, running, freed, thread_id, thread_running, loopVars,
                 accept_queue, acceptVars, closed>>

JoinAccept ==
  /\ main = "join_accept"
  /\ acceptor = "stopped"
  /\ main' = "destroy"
  /\ UNCHANGED <<after, i, running, freed, thread_id, thread_running, loopVars,
                 accept_queue, acceptVars, closed>>

\* reactor_destroy: its reactor_stop returns at once, the connections of every
\* table are closed, the reactor is freed, main returns.
Destroy ==
  /\ main = "destroy"
  /\ closed' = closed \cup UNION {connections[t] : t \in Threads}
  /\ connections' = [t \in Threads |-> {}]
  /\ freed' = TRUE
  /\ main' = "exit"
  /\ UNCHANGED <<after, i, running, thread_id, thread_running, loop, fds,
                 accept_queue, acceptVars>>

Main ==
  \/ Create \/ CreateFails \/ Run \/ SpawnThread \/ SpawnFails \/ RunReturns
  \/ Sleep \/ SpawnAccept \/ SpawnAcceptFails
  \/ StopBegins \/ StopStore \/ StopJoin \/ StopReturns \/ JoinAccept \/ Destroy

-----------------------------------------------------------------------------
(***************************************************************************)
(* accept_thread_main and reactor_add_connection                           *)
(***************************************************************************)

Listen ==
  /\ acceptor = "start"
  /\ \/ acceptor' = "loop"
     \/ "listen" \in Faults /\ acceptor' = "stopped"
  /\ UNCHANGED <<mainVars, running, freed, thread_id, thread_running, loopVars,
                 accept_queue, client_fd, next_thread, closed>>

\* Mutant of AcceptLoop: it loops without looking at reactor->running.
AcceptLoopForever ==
  /\ acceptor = "loop"
  /\ acceptor' = "accept"
  /\ UNCHANGED <<mainVars, running, freed, thread_id, thread_running, loopVars,
                 accept_queue, client_fd, next_thread, closed>>

AcceptLoop ==
  /\ acceptor = "loop"
  /\ acceptor' = IF running THEN "accept" ELSE "stopped"
  /\ UNCHANGED <<mainVars, running, freed, thread_id, thread_running, loopVars,
                 accept_queue, client_fd, next_thread, closed>>

AcceptClient ==
  /\ acceptor = "accept"
  /\ \E c \in Conns \ Accepted : client_fd' = {c}
  /\ acceptor' = "add"
  /\ UNCHANGED <<mainVars, running, freed, thread_id, thread_running, loopVars,
                 accept_queue, next_thread, closed>>

\* Nobody connects (EAGAIN), or another error ends the accept thread for good.
AcceptNothing ==
  /\ acceptor = "accept"
  /\ \/ acceptor' = "loop"
     \/ "accept" \in Faults /\ acceptor' = "stopped"
  /\ UNCHANGED <<mainVars, running, freed, thread_id, thread_running, loopVars,
                 accept_queue, client_fd, next_thread, closed>>

\* reactor_add_connection: the reactor must be running; the next thread in turn
\* is chosen.
ChooseThread ==
  /\ acceptor = "add"
  /\ running
  /\ next_thread' = (next_thread + 1) % ThreadCount
  /\ acceptor' = "push"
  /\ UNCHANGED <<mainVars, running, freed, thread_id, thread_running, loopVars,
                 accept_queue, client_fd, closed>>

\* The thread chosen by ChooseThread.
Chosen == (next_thread + ThreadCount - 1) % ThreadCount

PushConnection ==
  /\ acceptor = "push"
  /\ Len(accept_queue[Chosen]) < QueueSize
  /\ \E c \in client_fd :
       accept_queue' = [accept_queue EXCEPT ![Chosen] = Append(@, c)]
  /\ client_fd' = {}
  /\ acceptor' = "loop"
  /\ UNCHANGED <<mainVars, running, freed, thread_id, thread_running, loopVars,
                 next_thread, closed>>

\* reactor_add_connection fails, not running or queue full: accept_thread_main
\* closes the socket.
AddRefused ==
  /\ \/ acceptor = "add" /\ ~running
     \/ acceptor = "push" /\ Len(accept_queue[Chosen]) = QueueSize
  /\ closed' = closed \cup client_fd
  /\ client_fd' = {}
  /\ acceptor' = "loop"
  /\ UNCHANGED <<mainVars, running, freed, thread_id, thread_running, loopVars,
                 accept_queue, next_thread>>

AcceptThread ==
  \/ Listen \/ AcceptLoop \/ AcceptClient \/ AcceptNothing
  \/ ChooseThread \/ PushConnection \/ AddRefused

-----------------------------------------------------------------------------
(***************************************************************************)
(* reactor_thread_main, as far as sockets change hands                     *)
(***************************************************************************)

\* The thread begins and declares itself running.
ThreadStarts(t) ==
  /\ loop[t] = "created"
  /\ thread_running' = [thread_running EXCEPT ![t] = TRUE]
  /\ loop' = [loop EXCEPT ![t] = "top"]
  /\ UNCHANGED <<mainVars, running, freed, thread_id, fds, connections,
                 accept_queue, acceptVars, closed>>

\* Mutant of ThreadExits: it looks at running between two added sockets too.
ThreadExitsEarly(t) ==
  /\ loop[t] \in {"top", "add"}
  /\ ~thread_running[t]
  /\ loop' = [loop EXCEPT ![t] = "stopped"]
  /\ UNCHANGED <<mainVars, running, freed, thread_id, thread_running, fds,
                 connections, accept_queue, acceptVars, closed>>

ThreadExits(t) ==
  /\ loop[t] = "top"
  /\ ~thread_running[t]
  /\ loop' = [loop EXCEPT ![t] = "stopped"]
  /\ UNCHANGED <<mainVars, running, freed, thread_id, thread_running, fds,
                 connections, accept_queue, acceptVars, closed>>

\* Mutant of PopConnections: it waits for a full batch.
PopFullBatch(t) ==
  /\ loop[t] = "top"
  /\ thread_running[t]
  /\ LET size == Len(accept_queue[t])
         n == IF Batch <= size THEN Batch ELSE 0
     IN /\ fds' = [fds EXCEPT ![t] = SubSeq(accept_queue[t], 1, n)]
        /\ accept_queue' = [accept_queue EXCEPT ![t] = SubSeq(@, n + 1, size)]
        /\ loop' = [loop EXCEPT ![t] = IF n = 0 THEN "serve" ELSE "add"]
  /\ UNCHANGED <<mainVars, running, freed, thread_id, thread_running,
                 connections, acceptVars, closed>>

PopConnections(t) ==
  /\ loop[t] = "top"
  /\ thread_running[t]
  /\ LET size == Len(accept_queue[t])
         n == IF Batch < size THEN Batch ELSE size
     IN /\ fds' = [fds EXCEPT ![t] = SubSeq(accept_queue[t], 1, n)]
        /\ accept_queue' = [accept_queue EXCEPT ![t] = SubSeq(@, n + 1, size)]
        /\ loop' = [loop EXCEPT ![t] = IF n = 0 THEN "serve" ELSE "add"]
  /\ UNCHANGED <<mainVars, running, freed, thread_id, thread_running,
                 connections, acceptVars, closed>>

\* Mutant of AddOrClose: one connection more than the table has slots.
AddOneTooMany(t) ==
  /\ loop[t] = "add"
  /\ connections' = [connections EXCEPT ![t] = @ \cup {Head(fds[t])}]
  /\ fds' = [fds EXCEPT ![t] = Tail(@)]
  /\ loop' = [loop EXCEPT ![t] = IF Len(fds[t]) = 1 THEN "serve" ELSE "add"]
  /\ UNCHANGED <<mainVars, running, freed, thread_id, thread_running,
                 accept_queue, acceptVars, closed>>

\* Mutant of AddOrClose: a socket that cannot be added stays in the table.
AddAndClose(t) ==
  /\ loop[t] = "add"
  /\ LET c == Head(fds[t]) IN
       /\ Cardinality(connections[t]) < MaxConns
       /\ connections' = [connections EXCEPT ![t] = @ \cup {c}]
       /\ closed' = IF "add" \in Faults THEN closed \cup {c} ELSE closed
  /\ fds' = [fds EXCEPT ![t] = Tail(@)]
  /\ loop' = [loop EXCEPT ![t] = IF Len(fds[t]) = 1 THEN "serve" ELSE "add"]
  /\ UNCHANGED <<mainVars, running, freed, thread_id, thread_running,
                 accept_queue, acceptVars>>

\* Mutant of AddOrClose: a socket that cannot be added is forgotten.
AddOrForget(t) ==
  /\ loop[t] = "add"
  /\ \/ /\ Cardinality(connections[t]) < MaxConns
        /\ connections' = [connections EXCEPT ![t] = @ \cup {Head(fds[t])}]
     \/ /\ Cardinality(connections[t]) >= MaxConns \/ "add" \in Faults
        /\ UNCHANGED connections
  /\ fds' = [fds EXCEPT ![t] = Tail(@)]
  /\ loop' = [loop EXCEPT ![t] = IF Len(fds[t]) = 1 THEN "serve" ELSE "add"]
  /\ UNCHANGED <<mainVars, running, freed, thread_id, thread_running,
                 accept_queue, acceptVars, closed>>

\* The first popped socket is added to the table, or closed if that fails.
AddOrClose(t) ==
  /\ loop[t] = "add"
  /\ LET c == Head(fds[t]) IN
       \/ /\ Cardinality(connections[t]) < MaxConns
          /\ connections' = [connections EXCEPT ![t] = @ \cup {c}]
          /\ UNCHANGED closed
       \/ /\ Cardinality(connections[t]) >= MaxConns \/ "add" \in Faults
          /\ closed' = closed \cup {c}
          /\ UNCHANGED connections
  /\ fds' = [fds EXCEPT ![t] = Tail(@)]
  /\ loop' = [loop EXCEPT ![t] = IF Len(fds[t]) = 1 THEN "serve" ELSE "add"]
  /\ UNCHANGED <<mainVars, running, freed, thread_id, thread_running,
                 accept_queue, acceptVars>>

\* One round over the events; some connections end.
Serve(t) ==
  /\ loop[t] = "serve"
  /\ \E dead \in SUBSET connections[t] :
       /\ connections' = [connections EXCEPT ![t] = @ \ dead]
       /\ closed' = closed \cup dead
  /\ loop' = [loop EXCEPT ![t] = "top"]
  /\ UNCHANGED <<mainVars, running, freed, thread_id, thread_running, fds,
                 accept_queue, acceptVars>>

\* epoll_wait fails for good: the loop is left.
ServeFails(t) ==
  /\ "wait" \in Faults
  /\ loop[t] = "serve"
  /\ loop' = [loop EXCEPT ![t] = "stopped"]
  /\ UNCHANGED <<mainVars, running, freed, thread_id, thread_running, fds,
                 connections, accept_queue, acceptVars, closed>>

ReactorLoop(t) ==
  \/ ThreadStarts(t) \/ ThreadExits(t) \/ PopConnections(t) \/ AddOrClose(t)
  \/ Serve(t) \/ ServeFails(t)

-----------------------------------------------------------------------------
Next == Main \/ Enter \/ AcceptThread \/ \E t \in Threads : ReactorLoop(t)

Spec == Init /\ [][Next]_vars

\* Every thread of the process is scheduled; the user may never press Enter.
FairSpec ==
  /\ Spec
  /\ WF_vars(Main)
  /\ WF_vars(AcceptThread)
  /\ \A t \in Threads : WF_vars(ReactorLoop(t))

-----------------------------------------------------------------------------
(***************************************************************************)
(* Properties                                                              *)
(***************************************************************************)

\* No thread touches the reactor after reactor_destroy has freed it, whichever
\* call of the start-up failed and whatever the accept thread is doing when
\* the user stops the server (server.c lines 115-119, 129-135, 144-146).
NoUseAfterFree ==
  freed => /\ acceptor \in {"none", "stopped"}
           /\ \A t \in Threads : loop[t] \in {"none", "stopped"}

\* A socket is never in two hands: the accept thread's, a queue, a batch, the
\* table of one thread, or closed.
OneOwner ==
  \A c \in Conns :
    LET places == {<<"queue", t>> : t \in {u \in Threads : c \in Range(accept_queue[u])}}
             \cup {<<"batch", t>> : t \in {u \in Threads : c \in Range(fds[u])}}
             \cup {<<"table", t>> : t \in {u \in Threads : c \in connections[u]}}
             \cup (IF c \in client_fd THEN {<<"accept", 0>>} ELSE {})
             \cup (IF c \in closed THEN {<<"closed", 0>>} ELSE {})
    IN Cardinality(places) <= 1

Stage(c) ==
  IF c \in closed THEN "closed"
  ELSE IF \E t \in Threads : c \in connections[t] THEN "open"
  ELSE IF \E t \in Threads : c \in Range(fds[t]) THEN "popped"
  ELSE IF \E t \in Threads : c \in Range(accept_queue[t]) THEN "queued"
  ELSE "new"

CL == INSTANCE ConnLifecycle WITH state <- [c \in Conns |-> Stage(c)]

\* Across all threads each socket goes through its life in order, whatever
\* fails and whenever the server is stopped.
ImplementsLifecycle == CL!Spec

\* reactor_stop waits for nobody in vain and shuts the server down, if every
\* thread it joins had entered its loop when it was called: the accept thread
\* and the reactor threads then see their flags, whatever they are doing.
ShutdownCompletes ==
  /\ main = "stop"
  /\ \A t \in Threads : loop[t] # "created" /\ (thread_id[t] => loop[t] # "none")
  ~> main = "exit"

\* "Failed to start reactor" (server.c:116): when reactor_run or main gives up,
\* the threads that were started are stopped and main returns.
FailedStartExits == main = "stop" /\ after = "destroy" ~> main = "exit"

\* While the server runs and no reactor thread has died, every accepted socket
\* is served or closed.
AcceptedServed ==
  \A c \in Conns :
    c \in Accepted ~> \/ c \in UNION {connections[t] : t \in Threads} \cup closed
                      \/ ~running
                      \/ \E t \in Threads : loop[t] = "stopped"

\* When main has returned, the sockets that were not closed are exactly those
\* that waited in a queue: reactor_destroy looks into the tables only, and no
\* thread stops with a socket in its hands.
ClosedUnlessQueued ==
  main = "exit" =>
    Accepted \ closed = UNION {Range(accept_queue[t]) : t \in Threads}

=============================================================================
