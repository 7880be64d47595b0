------------------------ MODULE ReactorServerProofs ------------------------
(***************************************************************************)
(* Proofs about ReactorServer for every number of threads and clients, all *)
(* sizes and every set of calls that fail.                                 *)
(*                                                                         *)
(* reactor_destroy frees what every thread uses.  The argument that nobody *)
(* uses it afterwards follows main through its calls: what main has joined *)
(* or never started when it is at each of them.                            *)
(*                                                                         *)
(* A socket has one owner on its way from the accept thread through a      *)
(* queue and a batch to a table, and its way is that of ConnLifecycle.     *)
(***************************************************************************)
EXTENDS ReactorServer, ListProofs

Ended == {"none", "stopped"}

\* The part of the type that the control of the threads needs.
ControlType ==
  /\ main \in MainPCs
  /\ after \in {"none", "join_accept", "destroy"}
  /\ i \in 0 .. ThreadCount
  /\ freed \in BOOLEAN
  /\ thread_id \in [Threads -> BOOLEAN]
  /\ loop \in [Threads -> {"none", "created", "top", "add", "serve", "stopped"}]
  /\ acceptor \in {"none", "start", "loop", "accept", "add", "push", "stopped"}

\* Each thread that exists is known by its id; main creates them in order, and
\* has joined those below i while it stops them.
ThreadsKnown ==
  /\ \A t \in Threads : loop[t] # "none" => thread_id[t]
  /\ main \in {"create", "run"} => \A t \in Threads : loop[t] = "none"
  /\ main = "spawn" => \A t \in Threads : i <= t => loop[t] = "none"
  /\ main \in {"stop_store", "stop_join"} =>
       \A t \in Threads : t < i => loop[t] \in Ended
  /\ main = "stop_join" => i < ThreadCount
  /\ main \in {"join_accept", "destroy"} => \A t \in Threads : loop[t] \in Ended

\* The accept thread exists only after the reactor threads and is joined before
\* the reactor is destroyed.
AcceptorKnown ==
  /\ main \in {"create", "run", "spawn", "sleep", "spawn_accept"} => acceptor = "none"
  /\ main \in {"stop", "stop_store", "stop_join"} => after \in {"join_accept", "destroy"}
  /\ main \in {"stop", "stop_store", "stop_join"} /\ after = "destroy" => acceptor = "none"
  /\ main = "destroy" => acceptor \in Ended

FreedInv == freed => main = "exit" /\ NoUseAfterFree

ControlInv == ControlType /\ ThreadsKnown /\ AcceptorKnown /\ FreedInv

-----------------------------------------------------------------------------

\* Nothing exists at first.
LEMMA ControlInit == Init => ControlInv
BY ServerAssumption DEF Init, ControlInv, ControlType, ThreadsKnown, AcceptorKnown,
  FreedInv, NoUseAfterFree, Threads, MainPCs, Ended

\* The steps of main up to the wait for the user.
LEMMA StartStep ==
  ASSUME ControlInv,
         Create \/ CreateFails \/ Run \/ SpawnThread \/ SpawnFails \/ RunReturns
           \/ Sleep \/ SpawnAccept \/ SpawnAcceptFails
  PROVE  ControlInv'
<1> USE ServerAssumption
<1> USE DEF ControlInv, ControlType, ThreadsKnown, AcceptorKnown, FreedInv,
            NoUseAfterFree, Threads, MainPCs, Ended, loopVars, acceptVars
<1>1. CASE Create
  BY <1>1 DEF Create
<1>2. CASE CreateFails
  BY <1>2 DEF CreateFails
<1>3. CASE Run
  BY <1>3 DEF Run
<1>4. CASE SpawnThread
  BY <1>4 DEF SpawnThread
<1>5. CASE SpawnFails
  BY <1>5 DEF SpawnFails
<1>6. CASE RunReturns
  BY <1>6 DEF RunReturns
<1>7. CASE Sleep
  BY <1>7 DEF Sleep
<1>8. CASE SpawnAccept
  BY <1>8 DEF SpawnAccept
<1>9. CASE SpawnAcceptFails
  BY <1>9 DEF SpawnAcceptFails
<1> QED
  BY <1>1, <1>2, <1>3, <1>4, <1>5, <1>6, <1>7, <1>8, <1>9

\* The shutdown: what main has joined stays ended.
LEMMA StopStep ==
  ASSUME ControlInv,
         Enter \/ StopBegins \/ StopStore \/ StopJoin \/ StopReturns \/ JoinAccept
           \/ Destroy
  PROVE  ControlInv'
<1> USE ServerAssumption
<1> USE DEF ControlInv, ControlType, ThreadsKnown, AcceptorKnown, FreedInv,
            NoUseAfterFree, Threads, MainPCs, Ended, loopVars, acceptVars
<1>1. CASE Enter
  BY <1>1 DEF Enter
<1>2. CASE StopBegins
  BY <1>2 DEF StopBegins
<1>3. CASE StopStore
  BY <1>3 DEF StopStore
<1>4. CASE StopJoin
  <2>1. i \in Threads /\ i + 1 \in 0 .. ThreadCount
    BY <1>4 DEF StopJoin
  <2>2. CASE (thread_id[i] => loop[i] = "stopped") /\ i' = i + 1 /\ main' = "stop_store"
    <3>1. loop[i] \in Ended
      BY <2>1, <2>2
    <3>2. \A t \in Threads : t < i' => loop'[t] \in Ended
      BY <1>4, <2>1, <2>2, <3>1 DEF StopJoin
    <3> QED
      BY <1>4, <2>1, <2>2, <3>2 DEF StopJoin
  <2>3. CASE main' = "undefined" /\ UNCHANGED i
    BY <1>4, <2>3 DEF StopJoin
  <2> QED
    BY <1>4, <2>2, <2>3 DEF StopJoin
<1>5. CASE StopReturns
  <2>1. \A t \in Threads : loop[t] \in Ended
    BY <1>5 DEF StopReturns
  <2> QED
    BY <1>5, <2>1 DEF StopReturns
<1>6. CASE JoinAccept
  BY <1>6 DEF JoinAccept
<1>7. CASE Destroy
  BY <1>7 DEF Destroy
<1> QED
  BY <1>1, <1>2, <1>3, <1>4, <1>5, <1>6, <1>7

\* The accept thread acts only between its start and its end.
LEMMA AcceptStep ==
  ASSUME ControlInv, AcceptThread
  PROVE  ControlInv'
<1>1. /\ acceptor \notin Ended
      /\ acceptor' \in {"loop", "accept", "add", "push", "stopped"}
      /\ UNCHANGED <<main, after, i, freed, thread_id, loop>>
  BY DEF AcceptThread, Listen, AcceptLoop, AcceptClient, AcceptNothing, ChooseThread,
    PushConnection, AddRefused, mainVars, loopVars, Ended
<1> QED
  BY <1>1 DEF ControlInv, ControlType, ThreadsKnown, AcceptorKnown, FreedInv,
    NoUseAfterFree, Ended

\* A reactor thread acts only between its creation and its end.
LEMMA LoopStep ==
  ASSUME ControlInv, NEW t \in Threads, ReactorLoop(t)
  PROVE  ControlInv'
<1>1. /\ loop[t] \notin Ended
      /\ \E where \in {"top", "add", "serve", "stopped"} :
           loop' = [loop EXCEPT ![t] = where]
      /\ UNCHANGED <<main, after, i, freed, thread_id, acceptor>>
  BY DEF ReactorLoop, ThreadStarts, ThreadExits, PopConnections, AddOrClose, Serve,
    ServeFails, mainVars, acceptVars, Ended
<1>2. PICK where \in {"top", "add", "serve", "stopped"} :
        loop' = [loop EXCEPT ![t] = where]
  BY <1>1
<1> QED
  BY <1>1, <1>2 DEF ControlInv, ControlType, ThreadsKnown, AcceptorKnown, FreedInv,
    NoUseAfterFree, Ended

\* ControlInv is inductive.
THEOREM ControlInvariance == Spec => []ControlInv
<1>1. ControlInv /\ [Next]_vars => ControlInv'
  <2> SUFFICES ASSUME ControlInv, [Next]_vars
               PROVE  ControlInv'
    OBVIOUS
  <2>1. CASE Main \/ Enter
    BY <2>1, StartStep, StopStep DEF Main
  <2>2. CASE AcceptThread
    BY <2>2, AcceptStep
  <2>3. CASE \E t \in Threads : ReactorLoop(t)
    BY <2>3, LoopStep
  <2>4. CASE UNCHANGED vars
    BY <2>4 DEF vars, mainVars, loopVars, acceptVars, ControlInv, ControlType,
      ThreadsKnown, AcceptorKnown, FreedInv, NoUseAfterFree
  <2> QED
    BY <2>1, <2>2, <2>3, <2>4 DEF Next
<1> QED
  BY <1>1, ControlInit, PTL DEF Spec

\* No thread touches the reactor after reactor_destroy has freed it, whichever
\* calls fail (reactor.c:435-456, server.c:115-119, 129-135, 144-146).
THEOREM NobodyUsesFreed == Spec => []NoUseAfterFree
<1>1. ControlInv => NoUseAfterFree
  BY DEF ControlInv, FreedInv, NoUseAfterFree
<1> QED
  BY <1>1, ControlInvariance, PTL

-----------------------------------------------------------------------------
(***************************************************************************)
(* Type correctness                                                        *)
(***************************************************************************)

\* What TypeOK says of the sockets, with the domains of the functions, and that
\* a thread that adds sockets has one to add.
DataType ==
  /\ running \in BOOLEAN
  /\ thread_running \in [Threads -> BOOLEAN]
  /\ accept_queue \in [Threads -> Seq(Conns)]
  /\ fds \in [Threads -> Seq(Conns)]
  /\ connections \in [Threads -> SUBSET Conns]
  /\ \A t \in Threads :
       /\ Len(accept_queue[t]) <= QueueSize
       /\ Len(fds[t]) <= Batch
       /\ loop[t] = "add" => fds[t] # <<>>
       /\ IsFiniteSet(connections[t])
       /\ Cardinality(connections[t]) <= MaxConns
  /\ client_fd \subseteq Conns
  /\ IsFiniteSet(client_fd)
  /\ Cardinality(client_fd) <= 1
  /\ next_thread \in Threads
  /\ closed \subseteq Conns

LEMMA DataInit == Init => DataType
<1> SUFFICES ASSUME Init PROVE DataType
  OBVIOUS
<1>1. IsFiniteSet({}) /\ Cardinality({}) = 0
  BY FS_EmptySet
<1>2. <<>> \in Seq(Conns) /\ Len(<<>>) = 0
  BY EmptySeq
<1> QED
  BY <1>1, <1>2, ServerAssumption DEF Init, DataType, Threads

\* What main does to the sockets: nothing, until it destroys the tables.
LEMMA MainData ==
  ASSUME ControlInv, DataType, Main \/ Enter
  PROVE  DataType'
<1> USE DEF mainVars, loopVars, acceptVars, Threads
<1>1. CASE Create \/ CreateFails \/ SpawnFails \/ RunReturns \/ Sleep \/ SpawnAccept
             \/ SpawnAcceptFails \/ StopJoin \/ StopReturns \/ JoinAccept \/ Enter
  BY <1>1 DEF DataType, Create, CreateFails, SpawnFails, RunReturns, Sleep, SpawnAccept,
    SpawnAcceptFails, StopJoin, StopReturns, JoinAccept, Enter
<1>2. CASE Run \/ StopBegins \/ StopStore
  BY <1>2 DEF DataType, Run, StopBegins, StopStore
<1>3. CASE SpawnThread
  <2>1. \A t \in Threads : loop'[t] = "add" => loop[t] = "add"
    BY <1>3 DEF SpawnThread, ControlInv, ControlType
  <2> QED
    BY <1>3, <2>1 DEF DataType, SpawnThread
<1>4. CASE Destroy
  <2>1. IsFiniteSet({}) /\ Cardinality({}) = 0
    BY FS_EmptySet
  <2> QED
    BY <1>4, <2>1, ServerAssumption DEF DataType, Destroy
<1> QED
  BY <1>1, <1>2, <1>3, <1>4 DEF Main

\* The accept thread holds at most one socket and overfills no queue.
LEMMA AcceptData ==
  ASSUME DataType, AcceptThread
  PROVE  DataType'
<1> USE ServerAssumption DEF mainVars, loopVars, acceptVars
<1>0. IsFiniteSet({}) /\ Cardinality({}) = 0
  BY FS_EmptySet
<1>1. CASE Listen \/ AcceptLoop \/ AcceptNothing
  BY <1>1 DEF DataType, Listen, AcceptLoop, AcceptNothing
<1>2. CASE AcceptClient
  <2>1. PICK c \in Conns \ Accepted : client_fd' = {c}
    BY <1>2 DEF AcceptClient
  <2>2. IsFiniteSet({c}) /\ Cardinality({c}) = 1
    BY FS_Singleton
  <2>3. client_fd' \subseteq Conns /\ IsFiniteSet(client_fd') /\ Cardinality(client_fd') <= 1
    BY <2>1, <2>2
  <2> QED
    BY <1>2, <2>3 DEF DataType, AcceptClient
<1>3. CASE ChooseThread
  <2>1. next_thread' \in Threads
    BY <1>3 DEF ChooseThread, DataType, Threads
  <2> QED
    BY <1>3, <2>1 DEF DataType, ChooseThread
<1>4. CASE PushConnection
  <2>1. PICK c \in client_fd :
          accept_queue' = [accept_queue EXCEPT ![Chosen] = Append(@, c)]
    BY <1>4 DEF PushConnection
  <2>2. Chosen \in Threads
    BY DEF DataType, Chosen, Threads
  <2> DEFINE queue == accept_queue[Chosen]
  <2>3. queue \in Seq(Conns) /\ c \in Conns /\ Len(queue) < QueueSize
    BY <1>4, <2>2 DEF DataType, PushConnection
  <2>4. Append(queue, c) \in Seq(Conns) /\ Len(Append(queue, c)) <= QueueSize
    BY <2>3, AppendProperties, LenProperties
  <2> QED
    BY <1>0, <1>4, <2>1, <2>2, <2>4 DEF DataType, PushConnection
<1>5. CASE AddRefused
  BY <1>0, <1>5 DEF DataType, AddRefused
<1> QED
  BY <1>1, <1>2, <1>3, <1>4, <1>5 DEF AcceptThread

\* A batch that is popped and what it leaves behind are parts of the queue.
LEMMA PopType ==
  ASSUME NEW queue \in Seq(Conns), NEW n \in 0 .. Len(queue)
  PROVE  /\ SubSeq(queue, 1, n) \in Seq(Conns)
         /\ Len(SubSeq(queue, 1, n)) = n
         /\ SubSeq(queue, n + 1, Len(queue)) \in Seq(Conns)
         /\ Len(SubSeq(queue, n + 1, Len(queue))) = Len(queue) - n
<1>1. Len(queue) \in Nat /\ \A k \in 1 .. Len(queue) : queue[k] \in Conns
  BY LenProperties, ElementOfSeq
<1>2. /\ SubSeq(queue, 1, n) \in Seq(Conns)
      /\ Len(SubSeq(queue, 1, n)) = IF 1 <= n THEN n - 1 + 1 ELSE 0
  BY <1>1, SubSeqProperties
<1>3. /\ SubSeq(queue, n + 1, Len(queue)) \in Seq(Conns)
      /\ Len(SubSeq(queue, n + 1, Len(queue)))
           = IF n + 1 <= Len(queue) THEN Len(queue) - (n + 1) + 1 ELSE 0
  BY <1>1, SubSeqProperties
<1> QED
  BY <1>1, <1>2, <1>3

\* A reactor thread keeps its batch and its table within their sizes.
LEMMA LoopData ==
  ASSUME ControlInv, DataType, NEW t \in Threads, ReactorLoop(t)
  PROVE  DataType'
<1> USE ServerAssumption DEF mainVars, acceptVars
<1>0. loop \in [Threads -> {"none", "created", "top", "add", "serve", "stopped"}]
  BY DEF ControlInv, ControlType
<1>1. CASE ThreadStarts(t) \/ ThreadExits(t) \/ ServeFails(t)
  BY <1>0, <1>1 DEF DataType, ThreadStarts, ThreadExits, ServeFails
<1>2. CASE PopConnections(t)
  <2> DEFINE queue == accept_queue[t]
             n == IF Batch < Len(queue) THEN Batch ELSE Len(queue)
  <2>1. queue \in Seq(Conns) /\ Len(queue) \in Nat /\ Len(queue) <= QueueSize
    BY LenProperties DEF DataType
  <2>2. n \in 0 .. Len(queue) /\ n <= Batch
    BY <2>1
  <2>3. /\ fds' = [fds EXCEPT ![t] = SubSeq(queue, 1, n)]
        /\ accept_queue' = [accept_queue EXCEPT ![t] = SubSeq(queue, n + 1, Len(queue))]
        /\ loop' = [loop EXCEPT ![t] = IF n = 0 THEN "serve" ELSE "add"]
        /\ UNCHANGED <<running, thread_running, connections, client_fd, next_thread,
                       closed>>
    BY <1>2, Zenon DEF PopConnections, DataType
  <2> HIDE DEF n
  <2>4. /\ SubSeq(queue, 1, n) \in Seq(Conns)
        /\ Len(SubSeq(queue, 1, n)) = n
        /\ SubSeq(queue, n + 1, Len(queue)) \in Seq(Conns)
        /\ Len(SubSeq(queue, n + 1, Len(queue))) <= QueueSize
    BY <2>1, <2>2, PopType
  <2>5. n # 0 => SubSeq(queue, 1, n) # <<>>
    BY <2>4, EmptySeq
  <2> HIDE DEF queue
  <2> QED
    BY <1>0, <2>2, <2>3, <2>4, <2>5 DEF DataType
<1>3. CASE AddOrClose(t)
  <2> DEFINE c == Head(fds[t])
  <2>1. c \in Conns /\ Tail(fds[t]) \in Seq(Conns) /\ Len(Tail(fds[t])) = Len(fds[t]) - 1
    BY <1>3, HeadTailProperties DEF AddOrClose, DataType
  <2>2. Len(fds[t]) \in Nat \ {0}
    BY <1>3, EmptySeq DEF AddOrClose, DataType
  <2>3. /\ fds' = [fds EXCEPT ![t] = Tail(fds[t])]
        /\ loop' = [loop EXCEPT ![t] = IF Len(fds[t]) = 1 THEN "serve" ELSE "add"]
        /\ UNCHANGED <<running, thread_running, accept_queue, client_fd, next_thread>>
    BY <1>3 DEF AddOrClose, DataType
  <2>4. Len(fds[t]) # 1 => Tail(fds[t]) # <<>>
    <3>1. Len(<<>>) = 0
      BY EmptySeq
    <3> DEFINE rest == Tail(fds[t])
    <3>2. Len(rest) = Len(fds[t]) - 1
      BY <2>1
    <3> HIDE DEF rest
    <3>3. Len(fds[t]) # 1 => Len(rest) # 0
      BY <2>2, <3>2
    <3> QED
      BY <3>1, <3>3, Zenon DEF rest
  <2>5. CASE /\ Cardinality(connections[t]) < MaxConns
             /\ connections' = [connections EXCEPT ![t] = connections[t] \cup {c}]
             /\ UNCHANGED closed
    <3>1. /\ IsFiniteSet(connections[t] \cup {c})
          /\ Cardinality(connections[t] \cup {c}) <= MaxConns
      <4>1. IsFiniteSet(connections[t]) /\ Cardinality(connections[t]) \in Nat
        BY FS_CardinalityType DEF DataType
      <4>2. /\ IsFiniteSet(connections[t] \cup {c})
            /\ Cardinality(connections[t] \cup {c}) =
                 IF c \in connections[t] THEN Cardinality(connections[t])
                 ELSE Cardinality(connections[t]) + 1
        BY <4>1, FS_AddElement
      <4> HIDE DEF c
      <4> QED
        BY <2>5, <4>1, <4>2
    <3> HIDE DEF c
    <3> QED
      BY <1>0, <2>1, <2>2, <2>3, <2>4, <2>5, <3>1 DEF DataType
  <2>6. CASE closed' = closed \cup {c} /\ UNCHANGED connections
    BY <1>0, <2>1, <2>2, <2>3, <2>4, <2>6 DEF DataType
  <2> QED
    BY <1>3, <2>5, <2>6 DEF AddOrClose, DataType
<1>4. CASE Serve(t)
  <2>1. PICK dead \in SUBSET connections[t] :
          /\ connections' = [connections EXCEPT ![t] = @ \ dead]
          /\ closed' = closed \cup dead
    BY <1>4 DEF Serve
  <2>2. /\ IsFiniteSet(connections[t] \ dead)
        /\ Cardinality(connections[t] \ dead) <= MaxConns
    <3>1. connections[t] \ dead \in SUBSET connections[t]
      OBVIOUS
    <3> QED
      BY <3>1, FS_Subset, FS_CardinalityType DEF DataType
  <2> QED
    BY <1>0, <1>4, <2>1, <2>2 DEF DataType, Serve
<1> QED
  BY <1>1, <1>2, <1>3, <1>4 DEF ReactorLoop

\* Every variable keeps its type: queues, batches and tables stay within their
\* sizes, and main is never left without a place to return to.
THEOREM TypeCorrect == Spec => []TypeOK
<1>1. ControlInv /\ DataType /\ [Next]_vars => DataType'
  <2> SUFFICES ASSUME ControlInv, DataType, [Next]_vars
               PROVE  DataType'
    OBVIOUS
  <2>1. CASE Main \/ Enter
    BY <2>1, MainData
  <2>2. CASE AcceptThread
    BY <2>2, AcceptData
  <2>3. CASE \E t \in Threads : ReactorLoop(t)
    BY <2>3, LoopData
  <2>4. CASE UNCHANGED vars
    BY <2>4 DEF vars, mainVars, loopVars, acceptVars, DataType
  <2> QED
    BY <2>1, <2>2, <2>3, <2>4 DEF Next
<1>2. ControlInv /\ DataType => TypeOK
  BY DEF ControlInv, ControlType, DataType, TypeOK
<1> QED
  BY <1>1, <1>2, DataInit, ControlInvariance, PTL DEF Spec

-----------------------------------------------------------------------------
(***************************************************************************)
(* The sockets                                                             *)
(***************************************************************************)

\* The sockets that thread t answers for.
Hands(t) == Range(accept_queue[t]) \cup Range(fds[t]) \cup connections[t]

\* Within the hands of thread t no socket is in two places.
LocalApart(t) ==
  /\ IsInjective(accept_queue[t])
  /\ IsInjective(fds[t])
  /\ Disjoint(Range(accept_queue[t]), Range(fds[t]))
  /\ Disjoint(Range(accept_queue[t]), connections[t])
  /\ Disjoint(Range(fds[t]), connections[t])

Apart ==
  /\ \A t \in Threads : LocalApart(t)
  /\ \A t, u \in Threads : t # u => Disjoint(Hands(t), Hands(u))
  /\ \A t \in Threads : Disjoint(Hands(t), client_fd \cup closed)
  /\ Disjoint(client_fd, closed)

-----------------------------------------------------------------------------
(***************************************************************************)
(* Nobody shares a socket                                                  *)
(***************************************************************************)

\* Nobody holds a socket before the first client.
LEMMA ApartInit == Init => Apart
BY RangeEmpty DEF Init, Apart, LocalApart, Hands, Disjoint

\* A step of thread t that only moves its sockets among its places, or closes them.
LEMMA ThreadMoves ==
  ASSUME Apart, NEW t \in Threads, LocalApart(t)',
         \A u \in Threads \ {t} :
           UNCHANGED <<accept_queue[u], fds[u], connections[u]>>,
         UNCHANGED client_fd,
         NEW dead \in SUBSET Hands(t),
         closed' = closed \cup dead,
         Hands(t)' \subseteq Hands(t) \ dead
  PROVE  Apart'
<1>1. \A u \in Threads \ {t} : Hands(u)' = Hands(u) /\ LocalApart(u)'
  BY DEF Apart, LocalApart, Hands
<1>2. \A u, v \in Threads : u # v => Disjoint(Hands(u)', Hands(v)')
  BY <1>1 DEF Apart, Disjoint
<1>3. \A u \in Threads : Disjoint(Hands(u)', client_fd' \cup closed')
  BY <1>1 DEF Apart, Disjoint
<1>4. Disjoint(client_fd', closed')
  BY DEF Apart, Disjoint
<1> QED
  BY <1>1, <1>2, <1>3, <1>4 DEF Apart, Disjoint

\* Reactor threads share nothing, whatever they do.
LEMMA LoopApart ==
  ASSUME DataType, Apart, NEW t \in Threads, ReactorLoop(t)
  PROVE  Apart'
<1> USE DEF mainVars, acceptVars
<1>1. CASE ThreadStarts(t) \/ ThreadExits(t) \/ ServeFails(t)
  BY <1>1 DEF Apart, LocalApart, Hands, Disjoint, ThreadStarts, ThreadExits, ServeFails
<1>2. CASE PopConnections(t)
  <2> DEFINE queue == accept_queue[t]
             n == IF Batch < Len(queue) THEN Batch ELSE Len(queue)
             front == SubSeq(queue, 1, n)
             rest == SubSeq(queue, n + 1, Len(queue))
  <2>1. queue \in Seq(Conns) /\ n \in 0 .. Len(queue) /\ IsInjective(queue)
    BY LenProperties, ServerAssumption DEF DataType, Apart, LocalApart
  <2>2. /\ fds' = [fds EXCEPT ![t] = front]
        /\ accept_queue' = [accept_queue EXCEPT ![t] = rest]
        /\ UNCHANGED <<connections, client_fd, closed>>
    BY <1>2, Zenon DEF PopConnections, DataType
  <2> HIDE DEF n
  <2>3. /\ Range(queue) = Range(front) \cup Range(rest)
        /\ Disjoint(Range(front), Range(rest))
        /\ IsInjective(front)
        /\ IsInjective(rest)
    BY <2>1, RangeCut
  <2> HIDE DEF front, rest
  <2>4. fds'[t] = front /\ accept_queue'[t] = rest /\ connections'[t] = connections[t]
    BY <2>2 DEF DataType
  <2>5. LocalApart(t)'
    BY <2>3, <2>4 DEF Apart, LocalApart, Disjoint
  <2>6. Hands(t)' \subseteq Hands(t)
    <3>1. Hands(t)' = Range(rest) \cup Range(front) \cup connections[t]
      BY <2>4 DEF Hands
    <3> QED
      BY <2>3, <3>1 DEF Hands
  <2> HIDE DEF queue
  <2>7. \A u \in Threads \ {t} : UNCHANGED <<accept_queue[u], fds[u], connections[u]>>
    BY <2>2 DEF DataType
  <2>8. {} \in SUBSET Hands(t) /\ closed' = closed \cup {} /\ Hands(t)' \subseteq Hands(t) \ {}
    BY <2>2, <2>6
  <2> QED
    BY <2>2, <2>5, <2>7, <2>8, ThreadMoves
<1>3. CASE AddOrClose(t)
  <2> DEFINE c == Head(fds[t])
             rest == Tail(fds[t])
  <2>1. fds[t] \in Seq(Conns) /\ fds[t] # <<>> /\ IsInjective(fds[t])
    BY <1>3 DEF AddOrClose, DataType, Apart, LocalApart
  <2>2. /\ Range(fds[t]) = {c} \cup Range(rest)
        /\ c \notin Range(rest)
        /\ IsInjective(rest)
    BY <2>1, RangeTail
  <2>3. /\ fds' = [fds EXCEPT ![t] = rest]
        /\ UNCHANGED <<accept_queue, client_fd>>
        /\ \/ connections' = [connections EXCEPT ![t] = @ \cup {c}] /\ UNCHANGED closed
           \/ closed' = closed \cup {c} /\ UNCHANGED connections
    BY <1>3 DEF AddOrClose
  <2> HIDE DEF c, rest
  <2>4. fds'[t] = rest /\ accept_queue'[t] = accept_queue[t]
    BY <2>3 DEF DataType
  <2>5. \A u \in Threads \ {t} : UNCHANGED <<accept_queue[u], fds[u], connections[u]>>
    BY <2>3 DEF DataType
  <2>6. c \in Hands(t)
    BY <2>2 DEF Hands
  <2>7. CASE connections' = [connections EXCEPT ![t] = @ \cup {c}] /\ UNCHANGED closed
    <3>1. connections'[t] = connections[t] \cup {c}
      BY <2>7 DEF DataType
    <3>2. LocalApart(t)'
      BY <2>2, <2>4, <3>1 DEF Apart, LocalApart, Disjoint
    <3>3. Hands(t)' \subseteq Hands(t)
      BY <2>2, <2>4, <3>1 DEF Hands
    <3>4. {} \in SUBSET Hands(t) /\ closed' = closed \cup {} /\ Hands(t)' \subseteq Hands(t) \ {}
      BY <2>7, <3>3
    <3> QED
      BY <2>3, <2>5, <3>2, <3>4, ThreadMoves
  <2>8. CASE closed' = closed \cup {c} /\ UNCHANGED connections
    <3>1. LocalApart(t)'
      BY <2>2, <2>4, <2>8 DEF Apart, LocalApart, Disjoint
    <3>2. Hands(t)' \subseteq Hands(t) \ {c}
      BY <2>2, <2>4, <2>8 DEF Hands, Apart, LocalApart, Disjoint
    <3> QED
      BY <2>3, <2>5, <2>6, <2>8, <3>1, <3>2, ThreadMoves
  <2> QED
    BY <2>3, <2>7, <2>8
<1>4. CASE Serve(t)
  <2>1. PICK dead \in SUBSET connections[t] :
          /\ connections' = [connections EXCEPT ![t] = @ \ dead]
          /\ closed' = closed \cup dead
    BY <1>4 DEF Serve
  <2>2. connections'[t] = connections[t] \ dead
    BY <2>1 DEF DataType
  <2>3. UNCHANGED <<accept_queue, fds, client_fd>>
    BY <1>4 DEF Serve
  <2>4. LocalApart(t)'
    BY <2>2, <2>3 DEF Apart, LocalApart, Disjoint
  <2>5. Hands(t)' \subseteq Hands(t) \ dead /\ dead \in SUBSET Hands(t)
    BY <2>2, <2>3 DEF Hands, Apart, LocalApart, Disjoint
  <2>6. \A u \in Threads \ {t} : UNCHANGED <<accept_queue[u], fds[u], connections[u]>>
    BY <2>1, <2>3 DEF DataType
  <2> QED
    BY <2>1, <2>3, <2>4, <2>5, <2>6, ThreadMoves
<1> QED
  BY <1>1, <1>2, <1>3, <1>4 DEF ReactorLoop

\* The accept thread takes a socket that nobody has and hands it to one queue, or
\* closes it.
LEMMA AcceptApart ==
  ASSUME DataType, Apart, AcceptThread
  PROVE  Apart'
<1> USE DEF mainVars, loopVars
<1>1. CASE Listen \/ AcceptLoop \/ AcceptNothing \/ ChooseThread
  BY <1>1 DEF Apart, LocalApart, Hands, Disjoint, Listen, AcceptLoop, AcceptNothing,
    ChooseThread
<1>2. CASE AcceptClient
  <2>1. PICK c \in Conns \ Accepted : client_fd' = {c}
    BY <1>2 DEF AcceptClient
  <2>2. c \notin closed /\ \A t \in Threads : c \notin Hands(t)
    BY <2>1 DEF Accepted, Held, Hands
  <2> QED
    BY <1>2, <2>1, <2>2 DEF Apart, LocalApart, Hands, Disjoint, AcceptClient
<1>3. CASE PushConnection
  <2>0. Chosen \in Threads
    BY ServerAssumption DEF DataType, Chosen, Threads
  <2>1. PICK w \in Threads : w = Chosen
    BY <2>0
  <2> DEFINE queue == accept_queue[w]
  <2>2. PICK c \in client_fd : accept_queue' = [accept_queue EXCEPT ![w] = Append(queue, c)]
    BY <1>3, <2>1 DEF PushConnection
  <2>3. UNCHANGED <<fds, connections, closed>> /\ client_fd' = {}
    BY <1>3 DEF PushConnection
  <2>4. queue \in Seq(Conns) /\ c \in Conns /\ IsInjective(queue) /\ c \notin Range(queue)
    BY <2>1, <2>2 DEF DataType, Apart, LocalApart, Disjoint, Hands
  <2>5. accept_queue'[w] = Append(queue, c)
    BY <2>1, <2>2 DEF DataType
  <2>6. Range(accept_queue'[w]) = Range(queue) \cup {c} /\ IsInjective(accept_queue'[w])
    BY <2>4, <2>5, RangeAppend
  <2>7. \A t \in Threads \ {w} : accept_queue'[t] = accept_queue[t]
    BY <2>2 DEF DataType
  <2>8. \A t \in Threads : c \notin Hands(t)
    BY <2>2 DEF Apart, Disjoint
  <2>9. Hands(w)' = Hands(w) \cup {c} /\ \A t \in Threads \ {w} : Hands(t)' = Hands(t)
    BY <2>1, <2>3, <2>6, <2>7 DEF Hands
  <2>10. LocalApart(w)'
    <3>1. c \notin Range(fds[w]) /\ c \notin connections[w]
      BY <2>1, <2>8 DEF Hands
    <3> QED
      BY <2>1, <2>3, <2>6, <3>1 DEF Apart, LocalApart, Disjoint
  <2>11. \A t \in Threads \ {w} : LocalApart(t)'
    BY <2>3, <2>7 DEF Apart, LocalApart
  <2>12. \A t, u \in Threads : t # u => Disjoint(Hands(t)', Hands(u)')
    BY <2>8, <2>9 DEF Apart, Disjoint
  <2>13. \A t \in Threads : Disjoint(Hands(t)', client_fd' \cup closed')
    BY <2>2, <2>3, <2>9 DEF Apart, Disjoint
  <2>14. Disjoint(client_fd', closed')
    BY <2>3 DEF Disjoint
  <2> QED
    BY <2>10, <2>11, <2>12, <2>13, <2>14 DEF Apart, Disjoint
<1>4. CASE AddRefused
  <2>1. closed' = closed \cup client_fd /\ client_fd' = {}
    BY <1>4 DEF AddRefused
  <2>2. UNCHANGED <<accept_queue, fds, connections>>
    BY <1>4 DEF AddRefused
  <2> QED
    BY <2>1, <2>2 DEF Apart, LocalApart, Hands, Disjoint
<1> QED
  BY <1>1, <1>2, <1>3, <1>4 DEF AcceptThread

\* main touches no socket until it destroys the tables.
LEMMA MainApart ==
  ASSUME DataType, Apart, Main \/ Enter
  PROVE  Apart'
<1>1. CASE Destroy
  <2>1. /\ UNCHANGED <<accept_queue, fds, client_fd>>
        /\ \A t \in Threads : connections'[t] = {}
        /\ closed' = closed \cup UNION {connections[t] : t \in Threads}
    BY <1>1 DEF Destroy, acceptVars
  <2>2. \A t \in Threads : Hands(t)' \subseteq Hands(t) /\ LocalApart(t)'
    BY <2>1 DEF Hands, LocalApart, Disjoint, Apart
  <2>3. \A t \in Threads : Disjoint(Hands(t)', closed')
    <3> SUFFICES ASSUME NEW t \in Threads, NEW c \in Hands(t)', c \in closed'
                 PROVE  FALSE
      BY DEF Disjoint
    <3>1. c \in Range(accept_queue[t]) \cup Range(fds[t]) /\ c \notin closed
      BY <2>1 DEF Hands, Apart, Disjoint
    <3>2. PICK u \in Threads : c \in connections[u]
      BY <2>1, <3>1
    <3> QED
      BY <3>1, <3>2 DEF Hands, Apart, LocalApart, Disjoint
  <2>4. Disjoint(client_fd', closed')
    BY <2>1 DEF Hands, Apart, Disjoint
  <2> QED
    BY <2>1, <2>2, <2>3, <2>4 DEF Apart, Disjoint
<1>2. CASE ~Destroy
  <2>1. UNCHANGED <<accept_queue, fds, connections, client_fd, closed>>
    BY <1>2 DEF Main, Create, CreateFails, Run, SpawnThread, SpawnFails, RunReturns, Sleep,
      SpawnAccept, SpawnAcceptFails, StopBegins, StopStore, StopJoin, StopReturns,
      JoinAccept, Enter, loopVars, acceptVars
  <2> QED
    BY <2>1 DEF Apart, LocalApart, Hands, Disjoint
<1> QED
  BY <1>1, <1>2

\* The invariants of ReactorServerProofs hold too.
ServerInv == ControlInv /\ DataType /\ Apart

\* Apart holds together with them.
THEOREM ApartInvariance == Spec => []ServerInv
<1>1. Init => ServerInv
  BY ControlInit, DataInit, ApartInit DEF ServerInv
<1>2. ServerInv /\ [Next]_vars => ServerInv'
  <2> SUFFICES ASSUME ServerInv, [Next]_vars
               PROVE  ServerInv'
    OBVIOUS
  <2> USE DEF ServerInv
  <2>1. CASE Main \/ Enter
    BY <2>1, StartStep, StopStep, MainData, MainApart DEF Main
  <2>2. CASE AcceptThread
    BY <2>2, AcceptStep, AcceptData, AcceptApart
  <2>3. CASE \E t \in Threads : ReactorLoop(t)
    BY <2>3, LoopStep, LoopData, LoopApart
  <2>4. CASE UNCHANGED vars
    <3>1. ControlInv'
      BY <2>4 DEF vars, mainVars, loopVars, acceptVars, ControlInv, ControlType,
        ThreadsKnown, AcceptorKnown, FreedInv, NoUseAfterFree
    <3>2. DataType'
      BY <2>4 DEF vars, loopVars, acceptVars, DataType
    <3>3. Apart'
      BY <2>4 DEF vars, loopVars, acceptVars, Apart, LocalApart, Hands
    <3> QED
      BY <3>1, <3>2, <3>3
  <2> QED
    BY <2>1, <2>2, <2>3, <2>4 DEF Next
<1> QED
  BY <1>1, <1>2, PTL DEF Spec

\* At any time a socket is with the accept thread, in one queue, in one batch, in
\* one table, or closed, whichever threads are at work and whatever fails
\* (reactor.c:145-175, 363-388; server.c:71-92).
THEOREM SocketsOwnedOnce == Spec => []OneOwner
<1>1. ServerInv => OneOwner
  <2> SUFFICES ASSUME ServerInv, NEW c \in Conns
               PROVE  LET places ==
                            {<<"queue", t>> : t \in {u \in Threads : c \in Range(accept_queue[u])}}
                            \cup {<<"batch", t>> : t \in {u \in Threads : c \in Range(fds[u])}}
                            \cup {<<"table", t>> : t \in {u \in Threads : c \in connections[u]}}
                            \cup (IF c \in client_fd THEN {<<"accept", 0>>} ELSE {})
                            \cup (IF c \in closed THEN {<<"closed", 0>>} ELSE {})
                      IN Cardinality(places) <= 1
    BY Zenon DEF OneOwner
  <2> DEFINE queues == {u \in Threads : c \in Range(accept_queue[u])}
             batches == {u \in Threads : c \in Range(fds[u])}
             tables == {u \in Threads : c \in connections[u]}
             places == {<<"queue", t>> : t \in queues} \cup {<<"batch", t>> : t \in batches}
                       \cup {<<"table", t>> : t \in tables}
                       \cup (IF c \in client_fd THEN {<<"accept", 0>>} ELSE {})
                       \cup (IF c \in closed THEN {<<"closed", 0>>} ELSE {})
  <2>1. IsFiniteSet({}) /\ Cardinality({}) = 0
    BY FS_EmptySet
  <2>2. \A x : Cardinality({x}) = 1
    BY FS_Singleton
  <2>3. CASE \E t \in Threads : c \in Hands(t)
    <3>1. PICK t \in Threads : c \in Hands(t)
      BY <2>3
    <3>2. /\ c \notin client_fd /\ c \notin closed
          /\ \A u \in Threads \ {t} : c \notin Hands(u)
          /\ LocalApart(t)
      BY <3>1 DEF ServerInv, Apart, Disjoint
    <3>3. /\ queues = IF c \in Range(accept_queue[t]) THEN {t} ELSE {}
          /\ batches = IF c \in Range(fds[t]) THEN {t} ELSE {}
          /\ tables = IF c \in connections[t] THEN {t} ELSE {}
      BY <3>2 DEF Hands
    <3>4. \/ queues = {t} /\ batches = {} /\ tables = {}
          \/ queues = {} /\ batches = {t} /\ tables = {}
          \/ queues = {} /\ batches = {} /\ tables = {t}
      BY <3>1, <3>2, <3>3 DEF Hands, LocalApart, Disjoint
    <3> HIDE DEF queues, batches, tables
    <3>5. \E x : places = {x}
      <4>1. CASE queues = {t} /\ batches = {} /\ tables = {}
        <5>1. places = {<<"queue", t>>}
          BY <3>2, <4>1
        <5> QED
          BY <5>1
      <4>2. CASE queues = {} /\ batches = {t} /\ tables = {}
        <5>1. places = {<<"batch", t>>}
          BY <3>2, <4>2
        <5> QED
          BY <5>1
      <4>3. CASE queues = {} /\ batches = {} /\ tables = {t}
        <5>1. places = {<<"table", t>>}
          BY <3>2, <4>3
        <5> QED
          BY <5>1
      <4> QED
        BY <3>4, <4>1, <4>2, <4>3
    <3>6. Cardinality(places) = 1
      <4> HIDE DEF places
      <4> QED
        BY <2>2, <3>5
    <3> QED
      BY <3>6 DEF queues, batches, tables
  <2>4. CASE \A t \in Threads : c \notin Hands(t)
    <3>1. queues = {} /\ batches = {} /\ tables = {} /\ ~(c \in client_fd /\ c \in closed)
      BY <2>4 DEF Hands, ServerInv, Apart, Disjoint
    <3> HIDE DEF queues, batches, tables
    <3>2. places = {} \/ \E x : places = {x}
      <4>1. CASE c \in client_fd
        <5>1. places = {<<"accept", 0>>}
          BY <3>1, <4>1
        <5> QED
          BY <5>1
      <4>2. CASE c \in closed
        <5>1. places = {<<"closed", 0>>}
          BY <3>1, <4>2
        <5> QED
          BY <5>1
      <4>3. CASE c \notin client_fd /\ c \notin closed
        BY <3>1, <4>3
      <4> QED
        BY <4>1, <4>2, <4>3
    <3>3. Cardinality(places) <= 1
      <4> HIDE DEF places
      <4>1. CASE places = {}
        BY <2>1, <4>1
      <4>2. CASE \E x : places = {x}
        BY <2>2, <4>2
      <4> QED
        BY <3>2, <4>1, <4>2
    <3> QED
      BY <3>3 DEF queues, batches, tables
  <2> QED
    BY <2>3, <2>4
<1> QED
  BY <1>1, ApartInvariance, PTL

-----------------------------------------------------------------------------
(***************************************************************************)
(* No socket is left in a hand that has gone                               *)
(***************************************************************************)

\* Only a thread that has something in hand is in the middle of its work, and main
\* ends after the tables have been emptied.
HandsBusy ==
  /\ client_fd # {} => acceptor \in {"add", "push"}
  /\ \A t \in Threads : fds[t] # <<>> => loop[t] = "add"
  /\ \A t \in Threads : loop[t] = "none" => connections[t] = {}
  /\ main = "exit" => freed /\ \A t \in Threads : connections[t] = {}

\* At the start all hands are empty.
LEMMA BusyInit == Init => HandsBusy
BY DEF Init, HandsBusy

\* main ends only when the tables have been emptied.
LEMMA BusyMain ==
  ASSUME ControlInv, DataType, HandsBusy, Main \/ Enter
  PROVE  HandsBusy'
<1> USE DEF mainVars, loopVars, acceptVars
<1>1. CASE CreateFails
  <2>1. \A t \in Threads : connections[t] = {}
    BY <1>1 DEF CreateFails, ControlInv, ThreadsKnown, HandsBusy
  <2> QED
    BY <1>1, <2>1 DEF CreateFails, HandsBusy
<1>2. CASE SpawnThread
  <2>1. i \in Threads /\ loop[i] = "none"
    BY <1>2, ServerAssumption DEF SpawnThread, ControlInv, ControlType, ThreadsKnown, Threads
  <2>2. loop' = [loop EXCEPT ![i] = "created"] /\ fds[i] = <<>> /\ main' # "exit"
    BY <1>2, <2>1 DEF SpawnThread, HandsBusy
  <2>3. \A t \in Threads : t # i => loop'[t] = loop[t]
    BY <2>1, <2>2 DEF ControlInv, ControlType
  <2>4. loop'[i] = "created"
    BY <2>1, <2>2 DEF ControlInv, ControlType
  <2> QED
    BY <1>2, <2>2, <2>3, <2>4 DEF SpawnThread, HandsBusy
<1>3. CASE StopReturns
  <2>1. main' # "exit"
    BY <1>3 DEF StopReturns, ControlInv, AcceptorKnown
  <2> QED
    BY <1>3, <2>1 DEF StopReturns, HandsBusy
<1>4. CASE SpawnAccept
  BY <1>4 DEF SpawnAccept, HandsBusy, ControlInv, AcceptorKnown
<1>5. CASE Destroy
  BY <1>5 DEF Destroy, HandsBusy
<1>6. CASE Create \/ Run \/ SpawnFails \/ RunReturns \/ Sleep \/ SpawnAcceptFails \/ StopBegins
             \/ StopStore \/ StopJoin \/ JoinAccept \/ Enter
  <2>1. main' # "exit" /\ UNCHANGED <<client_fd, acceptor, fds, loop, connections>>
    BY <1>6 DEF Create, Run, SpawnFails, RunReturns, Sleep, SpawnAcceptFails, StopBegins,
      StopStore, StopJoin, JoinAccept, Enter
  <2> QED
    BY <2>1 DEF HandsBusy
<1> QED
  BY <1>1, <1>2, <1>3, <1>4, <1>5, <1>6 DEF Main

\* The accept thread goes back to accept with empty hands.
LEMMA BusyAccept ==
  ASSUME HandsBusy, AcceptThread
  PROVE  HandsBusy'
<1>1. UNCHANGED <<main, freed, loop, fds, connections>>
  BY DEF AcceptThread, Listen, AcceptLoop, AcceptClient, AcceptNothing, ChooseThread,
    PushConnection, AddRefused, mainVars, loopVars
<1>2. client_fd' # {} => acceptor' \in {"add", "push"}
  BY DEF HandsBusy, AcceptThread, Listen, AcceptLoop, AcceptClient, AcceptNothing,
    ChooseThread, PushConnection, AddRefused
<1> QED
  BY <1>1, <1>2 DEF HandsBusy

\* A reactor thread leaves its loop with an empty batch.
LEMMA BusyLoop ==
  ASSUME ControlInv, DataType, HandsBusy, NEW t \in Threads, ReactorLoop(t)
  PROVE  HandsBusy'
<1>1. UNCHANGED <<client_fd, acceptor, main, freed>>
  BY DEF ReactorLoop, ThreadStarts, ThreadExits, PopConnections, AddOrClose, Serve,
    ServeFails, mainVars, acceptVars
<1>2. main # "exit"
  BY DEF HandsBusy, ControlInv, FreedInv, NoUseAfterFree, ReactorLoop, ThreadStarts,
    ThreadExits, PopConnections, AddOrClose, Serve, ServeFails
<1>3. \A u \in Threads \ {t} : UNCHANGED <<loop[u], fds[u], connections[u]>>
  BY DEF ReactorLoop, ThreadStarts, ThreadExits, PopConnections, AddOrClose, Serve,
    ServeFails, DataType, ControlInv, ControlType
<1>4. loop'[t] # "none"
  BY DEF ReactorLoop, ThreadStarts, ThreadExits, PopConnections, AddOrClose, Serve,
    ServeFails, ControlInv, ControlType
<1>5. fds'[t] # <<>> => loop'[t] = "add"
  <2> USE DEF ControlInv, ControlType
  <2>1. CASE ThreadStarts(t) \/ ThreadExits(t) \/ Serve(t) \/ ServeFails(t)
    BY <2>1 DEF HandsBusy, ThreadStarts, ThreadExits, Serve, ServeFails
  <2>2. CASE PopConnections(t)
    <3> DEFINE queue == accept_queue[t]
               n == IF Batch < Len(queue) THEN Batch ELSE Len(queue)
               front == SubSeq(queue, 1, n)
    <3>1. queue \in Seq(Conns) /\ n \in 0 .. Len(queue)
      BY ServerAssumption, LenProperties DEF DataType
    <3>2. fds' = [fds EXCEPT ![t] = front] /\ loop' = [loop EXCEPT ![t] = IF n = 0 THEN "serve" ELSE "add"]
      BY <2>2, Zenon DEF PopConnections
    <3> HIDE DEF n
    <3>3. front \in Seq(Conns) /\ Len(front) = n
      BY <3>1, PopType
    <3> HIDE DEF front
    <3>4. n = 0 => front = <<>>
      BY <3>3, EmptySeq
    <3> QED
      BY <3>2, <3>4 DEF DataType
  <2>3. CASE AddOrClose(t)
    <3> DEFINE rest == Tail(fds[t])
    <3>1. fds[t] \in Seq(Conns) /\ fds[t] # <<>>
      BY <2>3 DEF AddOrClose, DataType
    <3>2. rest \in Seq(Conns) /\ Len(rest) = Len(fds[t]) - 1
      BY <3>1, HeadTailProperties
    <3>3. /\ fds' = [fds EXCEPT ![t] = rest]
          /\ loop' = [loop EXCEPT ![t] = IF Len(fds[t]) = 1 THEN "serve" ELSE "add"]
      BY <2>3 DEF AddOrClose
    <3> HIDE DEF rest
    <3>4. Len(fds[t]) = 1 => rest = <<>>
      BY <3>2, EmptySeq
    <3> QED
      BY <3>3, <3>4 DEF DataType
  <2> QED
    BY <2>1, <2>2, <2>3 DEF ReactorLoop
<1> QED
  BY <1>1, <1>2, <1>3, <1>4, <1>5 DEF HandsBusy

\* HandsBusy holds together with the other invariants.
THEOREM BusyInvariance == Spec => [](ServerInv /\ HandsBusy)
<1>1. ServerInv /\ HandsBusy /\ [Next]_vars => HandsBusy'
  <2> SUFFICES ASSUME ServerInv, HandsBusy, [Next]_vars
               PROVE  HandsBusy'
    OBVIOUS
  <2> USE DEF ServerInv
  <2>1. CASE Main \/ Enter
    BY <2>1, BusyMain
  <2>2. CASE AcceptThread
    BY <2>2, BusyAccept
  <2>3. CASE \E t \in Threads : ReactorLoop(t)
    BY <2>3, BusyLoop
  <2>4. CASE UNCHANGED vars
    BY <2>4 DEF vars, mainVars, loopVars, acceptVars, HandsBusy
  <2> QED
    BY <2>1, <2>2, <2>3, <2>4 DEF Next
<1> QED
  BY <1>1, BusyInit, ApartInvariance, PTL DEF Spec

\* When main has returned, only sockets that waited in a queue have not been closed
\* (reactor.c:435-456; server.c:144-146).
THEOREM ClosedAtExit == Spec => []ClosedUnlessQueued
<1>1. ServerInv /\ HandsBusy => ClosedUnlessQueued
  <2> SUFFICES ASSUME ServerInv, HandsBusy, main = "exit"
               PROVE  Accepted \ closed = UNION {Range(accept_queue[t]) : t \in Threads}
    BY DEF ClosedUnlessQueued
  <2>1. client_fd = {}
    BY DEF ServerInv, ControlInv, FreedInv, NoUseAfterFree, HandsBusy
  <2>2. \A t \in Threads : connections[t] = {} /\ fds[t] = <<>>
    BY DEF ServerInv, ControlInv, FreedInv, NoUseAfterFree, HandsBusy
  <2>3. \A t \in Threads : Range(fds[t]) = {}
    BY <2>2, RangeEmpty
  <2>4. \A t \in Threads : Disjoint(Range(accept_queue[t]), closed)
    BY DEF ServerInv, Apart, Hands, Disjoint
  <2>5. \A c : c \in Held <=> \E t \in Threads : c \in Range(accept_queue[t])
    BY <2>2, <2>3 DEF Held
  <2> QED
    BY <2>1, <2>4, <2>5 DEF Accepted, Disjoint
<1> QED
  BY <1>1, BusyInvariance, PTL

-----------------------------------------------------------------------------
(***************************************************************************)
(* The life of a socket                                                    *)
(***************************************************************************)

\* Where sockets have one owner, it determines the stage.
StageKnown ==
  /\ \A c \in closed : Stage(c) = "closed"
  /\ \A t \in Threads : \A c \in connections[t] : Stage(c) = "open"
  /\ \A t \in Threads : \A c \in Range(fds[t]) : Stage(c) = "popped"
  /\ \A t \in Threads : \A c \in Range(accept_queue[t]) : Stage(c) = "queued"
  /\ \A c \in Conns : c \notin closed /\ (\A t \in Threads : c \notin Hands(t))
                    => Stage(c) = "new"

\* Having one owner is what makes the stage known.
LEMMA StageOfOwner == Apart => StageKnown
<1> SUFFICES ASSUME Apart PROVE StageKnown
  OBVIOUS
<1>1. \A t \in Threads : \A c \in Hands(t) :
        c \notin closed /\ \A u \in Threads \ {t} : c \notin Hands(u)
  BY DEF Apart, Disjoint
<1>2. \A c \in closed : Stage(c) = "closed"
  BY DEF Stage
<1>3. \A t \in Threads : \A c \in connections[t] : Stage(c) = "open"
  BY <1>1 DEF Stage, Hands
<1>4. \A t \in Threads : \A c \in Range(fds[t]) : Stage(c) = "popped"
  BY <1>1 DEF Stage, Hands, Apart, LocalApart, Disjoint
<1>5. \A t \in Threads : \A c \in Range(accept_queue[t]) : Stage(c) = "queued"
  BY <1>1 DEF Stage, Hands, Apart, LocalApart, Disjoint
<1>6. \A c \in Conns : c \notin closed /\ (\A t \in Threads : c \notin Hands(t))
                     => Stage(c) = "new"
  BY DEF Stage, Hands
<1> QED
  BY <1>2, <1>3, <1>4, <1>5, <1>6 DEF StageKnown

\* No place of socket c changes.
Stays(c) ==
  /\ c \in closed' <=> c \in closed
  /\ \A t \in Threads :
       /\ c \in connections'[t] <=> c \in connections[t]
       /\ c \in Range(fds'[t]) <=> c \in Range(fds[t])
       /\ c \in Range(accept_queue'[t]) <=> c \in Range(accept_queue[t])

\* Then its stage does not change either.
LEMMA StageStays ==
  ASSUME NEW c, Stays(c)
  PROVE  Stage(c)' = Stage(c)
BY DEF Stage, Stays

\* The moves that ConnLifecycle allows.
Moves == {<<"new", "queued">>, <<"new", "closed">>, <<"queued", "popped">>,
          <<"popped", "open">>, <<"popped", "closed">>, <<"open", "closed">>}

\* A step that takes the sockets of S from one stage to the next and leaves the others.
LEMMA StageMoves ==
  ASSUME NEW S \in SUBSET Conns, NEW from, NEW to, <<from, to>> \in Moves,
         \A c \in S : Stage(c) = from /\ Stage(c)' = to,
         \A c \in Conns \ S : Stays(c)
  PROVE  CL!Next
<1>1. \A c \in Conns \ S : Stage(c)' = Stage(c)
  BY StageStays
<1>2. CL!Move(S, from, to)
  BY <1>1 DEF CL!Move
<1> QED
  BY <1>2 DEF CL!Next, Moves

\* A step that takes one socket along.
LEMMA OneMoves ==
  ASSUME NEW c \in Conns, NEW from, NEW to, <<from, to>> \in Moves,
         Stage(c) = from, Stage(c)' = to,
         \A d \in Conns \ {c} : Stays(d)
  PROVE  CL!Next
<1>1. PICK S \in SUBSET Conns : S = {c}
  OBVIOUS
<1>2. \A d \in S : Stage(d) = from /\ Stage(d)' = to
  BY <1>1
<1>3. \A d \in Conns \ S : Stays(d)
  BY <1>1
<1> QED
  BY <1>2, <1>3, StageMoves

\* A step that takes no socket along.
LEMMA NoneMoves ==
  ASSUME \A d \in Conns : Stays(d)
  PROVE  CL!Next
<1>1. PICK S \in SUBSET Conns : S = {}
  OBVIOUS
<1>2. <<"new", "queued">> \in Moves
  BY DEF Moves
<1>3. \A d \in S : Stage(d) = "new" /\ Stage(d)' = "queued"
  BY <1>1
<1>4. \A d \in Conns \ S : Stays(d)
  OBVIOUS
<1> QED
  BY <1>2, <1>3, <1>4, StageMoves

\* main's steps move nothing, but reactor_destroy closes all that is open.
LEMMA MainImplements ==
  ASSUME ServerInv, StageKnown, StageKnown', Main \/ Enter
  PROVE  CL!Next
<1>1. CASE Destroy
  <2> DEFINE S == UNION {connections[t] : t \in Threads}
  <2>1. /\ UNCHANGED <<accept_queue, fds>>
        /\ \A t \in Threads : connections'[t] = {}
        /\ closed' = closed \cup S
    BY <1>1 DEF Destroy
  <2>2. S \in SUBSET Conns
    BY DEF ServerInv, DataType
  <2>3. \A c \in S : Stage(c) = "open" /\ Stage(c)' = "closed"
    BY <2>1 DEF StageKnown
  <2>4. \A c \in Conns \ S : Stays(c)
    BY <2>1 DEF Stays
  <2> HIDE DEF S
  <2> QED
    BY <2>2, <2>3, <2>4, StageMoves DEF Moves
<1>2. CASE ~Destroy
  <2>1. UNCHANGED <<accept_queue, fds, connections, closed>>
    BY <1>2 DEF Main, Create, CreateFails, Run, SpawnThread, SpawnFails, RunReturns, Sleep,
      SpawnAccept, SpawnAcceptFails, StopBegins, StopStore, StopJoin, StopReturns,
      JoinAccept, Enter, loopVars, acceptVars
  <2>2. \A c \in Conns : Stays(c)
    BY <2>1 DEF Stays
  <2> QED
    BY <2>2, NoneMoves
<1> QED
  BY <1>1, <1>2

\* The accept thread queues a new socket or closes it.
LEMMA AcceptImplements ==
  ASSUME ServerInv, StageKnown, StageKnown', AcceptThread
  PROVE  CL!Next
<1> USE DEF mainVars, loopVars
<1>1. CASE Listen \/ AcceptLoop \/ AcceptClient \/ AcceptNothing \/ ChooseThread
  <2>1. \A c \in Conns : Stays(c)
    BY <1>1 DEF Stays, Listen, AcceptLoop, AcceptClient, AcceptNothing, ChooseThread
  <2> QED
    BY <2>1, NoneMoves
<1>2. CASE PushConnection
  <2>1. Chosen \in Threads
    BY ServerAssumption DEF ServerInv, DataType, Chosen, Threads
  <2>2. PICK w \in Threads : w = Chosen
    BY <2>1
  <2> DEFINE queue == accept_queue[w]
  <2>3. PICK c \in client_fd : accept_queue' = [accept_queue EXCEPT ![w] = Append(queue, c)]
    BY <1>2, <2>2 DEF PushConnection
  <2>4. UNCHANGED <<fds, connections, closed>>
    BY <1>2 DEF PushConnection
  <2>5. queue \in Seq(Conns) /\ c \in Conns
    BY <2>3 DEF ServerInv, DataType
  <2>6. Range(accept_queue'[w]) = Range(queue) \cup {c}
    BY <2>3, <2>5, RangeAppend DEF ServerInv, DataType
  <2>7. \A t \in Threads \ {w} : accept_queue'[t] = accept_queue[t]
    BY <2>3 DEF ServerInv, DataType
  <2>8. Stage(c) = "new"
    BY <2>3, <2>5 DEF StageKnown, ServerInv, Apart, Disjoint
  <2>9. Stage(c)' = "queued"
    BY <2>6 DEF StageKnown
  <2>10. \A d \in Conns \ {c} : Stays(d)
    BY <2>4, <2>6, <2>7 DEF Stays
  <2> QED
    <3>1. <<"new", "queued">> \in Moves
      BY DEF Moves
    <3> QED
      BY <3>1, <2>5, <2>8, <2>9, <2>10, OneMoves
<1>3. CASE AddRefused
  <2>1. closed' = closed \cup client_fd /\ UNCHANGED <<accept_queue, fds, connections>>
    BY <1>3 DEF AddRefused
  <2>2. PICK S \in SUBSET Conns : S = client_fd
    BY DEF ServerInv, DataType
  <2>3. \A c \in S : Stage(c) = "new"
    BY <2>2 DEF StageKnown, ServerInv, Apart, Disjoint
  <2>4. \A c \in S : Stage(c)' = "closed"
    BY <2>1, <2>2 DEF StageKnown
  <2>5. \A c \in Conns \ S : Stays(c)
    BY <2>1, <2>2 DEF Stays
  <2>6. <<"new", "closed">> \in Moves
    BY DEF Moves
  <2> QED
    BY <2>3, <2>4, <2>5, <2>6, StageMoves
<1> QED
  BY <1>1, <1>2, <1>3 DEF AcceptThread

\* A reactor thread pops a batch, opens or closes its first socket, closes open ones.
LEMMA LoopImplements ==
  ASSUME ServerInv, HandsBusy, StageKnown, StageKnown', NEW t \in Threads, ReactorLoop(t)
  PROVE  CL!Next
<1> USE DEF mainVars, acceptVars
<1>1. CASE ThreadStarts(t) \/ ThreadExits(t) \/ ServeFails(t)
  <2>1. \A c \in Conns : Stays(c)
    BY <1>1 DEF Stays, ThreadStarts, ThreadExits, ServeFails
  <2> QED
    BY <2>1, NoneMoves
<1>2. CASE PopConnections(t)
  <2> DEFINE queue == accept_queue[t]
             n == IF Batch < Len(queue) THEN Batch ELSE Len(queue)
             front == SubSeq(queue, 1, n)
             rest == SubSeq(queue, n + 1, Len(queue))
  <2>1. queue \in Seq(Conns) /\ n \in 0 .. Len(queue) /\ IsInjective(queue)
    BY LenProperties, ServerAssumption DEF ServerInv, DataType, Apart, LocalApart
  <2>2. /\ fds' = [fds EXCEPT ![t] = front]
        /\ accept_queue' = [accept_queue EXCEPT ![t] = rest]
        /\ UNCHANGED <<connections, closed>>
    BY <1>2, Zenon DEF PopConnections
  <2> HIDE DEF n
  <2>3. /\ Range(queue) = Range(front) \cup Range(rest)
        /\ Disjoint(Range(front), Range(rest))
    BY <2>1, RangeCut
  <2> HIDE DEF front, rest
  <2>4. fds'[t] = front /\ accept_queue'[t] = rest
    BY <2>2 DEF ServerInv, DataType
  <2>5. \A u \in Threads \ {t} : UNCHANGED <<accept_queue[u], fds[u]>>
    BY <2>2 DEF ServerInv, DataType
  <2>6. Range(fds[t]) = {}
    <3>1. fds[t] = <<>>
      BY <1>2 DEF HandsBusy, PopConnections
    <3> QED
      BY <3>1, RangeEmpty
  <2>7. \A k \in DOMAIN queue : queue[k] \in Conns
    BY <2>1, LenProperties, ElementOfSeq
  <2>8. Range(queue) \in SUBSET Conns
    BY <2>7 DEF Range
  <2>9. \A c \in Range(front) : Stage(c) = "queued" /\ Stage(c)' = "popped"
    BY <2>3, <2>4 DEF StageKnown
  <2>10. \A c \in Conns \ Range(front) : Stays(c)
    BY <2>2, <2>3, <2>4, <2>5, <2>6 DEF Stays
  <2> QED
    BY <2>3, <2>8, <2>9, <2>10, StageMoves DEF Moves
<1>3. CASE AddOrClose(t)
  <2> DEFINE rest == Tail(fds[t])
  <2>1. fds[t] \in Seq(Conns) /\ fds[t] # <<>> /\ IsInjective(fds[t])
    BY <1>3 DEF AddOrClose, ServerInv, DataType, Apart, LocalApart
  <2>2. PICK c \in Conns : c = Head(fds[t])
    BY <2>1, HeadTailProperties
  <2>3. Range(fds[t]) = {c} \cup Range(rest) /\ c \notin Range(rest)
    BY <2>1, <2>2, RangeTail
  <2>4. /\ fds' = [fds EXCEPT ![t] = rest]
        /\ UNCHANGED accept_queue
        /\ \/ connections' = [connections EXCEPT ![t] = @ \cup {c}] /\ UNCHANGED closed
           \/ closed' = closed \cup {c} /\ UNCHANGED connections
    BY <1>3, <2>2 DEF AddOrClose
  <2> HIDE DEF rest
  <2>5. fds'[t] = rest /\ \A u \in Threads \ {t} : fds'[u] = fds[u]
    BY <2>4 DEF ServerInv, DataType
  <2>6. Stage(c) = "popped"
    BY <2>3 DEF StageKnown
  <2>7. CASE connections' = [connections EXCEPT ![t] = @ \cup {c}] /\ UNCHANGED closed
    <3>1. /\ connections'[t] = connections[t] \cup {c}
          /\ \A u \in Threads \ {t} : connections'[u] = connections[u]
      BY <2>7 DEF ServerInv, DataType
    <3>2. Stage(c)' = "open"
      BY <3>1 DEF StageKnown
    <3>3. \A d \in Conns \ {c} : Stays(d)
      BY <2>3, <2>4, <2>5, <2>7, <3>1 DEF Stays
    <3> QED
      <4>1. <<"popped", "open">> \in Moves
        BY DEF Moves
      <4> QED
        BY <4>1, <2>6, <3>2, <3>3, OneMoves
  <2>8. CASE closed' = closed \cup {c} /\ UNCHANGED connections
    <3>1. Stage(c)' = "closed"
      BY <2>8 DEF StageKnown
    <3>2. \A d \in Conns \ {c} : Stays(d)
      BY <2>3, <2>4, <2>5, <2>8 DEF Stays
    <3> QED
      <4>1. <<"popped", "closed">> \in Moves
        BY DEF Moves
      <4> QED
        BY <4>1, <2>6, <3>1, <3>2, OneMoves
  <2> QED
    BY <2>4, <2>7, <2>8
<1>4. CASE Serve(t)
  <2>1. PICK dead \in SUBSET connections[t] :
          /\ connections' = [connections EXCEPT ![t] = @ \ dead]
          /\ closed' = closed \cup dead
    BY <1>4 DEF Serve
  <2>2. UNCHANGED <<accept_queue, fds>>
    BY <1>4 DEF Serve
  <2>3. /\ connections'[t] = connections[t] \ dead
        /\ \A u \in Threads \ {t} : connections'[u] = connections[u]
    BY <2>1 DEF ServerInv, DataType
  <2>4. dead \in SUBSET Conns
    BY DEF ServerInv, DataType
  <2>5. \A c \in dead : Stage(c) = "open" /\ Stage(c)' = "closed"
    BY <2>1 DEF StageKnown
  <2>6. \A c \in Conns \ dead : Stays(c)
    BY <2>1, <2>2, <2>3 DEF Stays
  <2> QED
    BY <2>4, <2>5, <2>6, StageMoves DEF Moves
<1> QED
  BY <1>1, <1>2, <1>3, <1>4 DEF ReactorLoop

\* The whole server, with every thread and every failing call, takes each socket
\* through the life of ConnLifecycle (reactor.c:41-61, 111-175, 363-388; server.c:71-92).
THEOREM LifecycleRefinement == Spec => ImplementsLifecycle
<1>1. Init => CL!Init
  BY RangeEmpty DEF Init, CL!Init, Stage
<1>2. StageKnown /\ StageKnown' /\ ServerInv /\ HandsBusy /\ [Next]_vars
        => [CL!Next]_([c \in Conns |-> Stage(c)])
  <2> SUFFICES ASSUME StageKnown, StageKnown', ServerInv, HandsBusy, [Next]_vars
               PROVE  [CL!Next]_([c \in Conns |-> Stage(c)])
    OBVIOUS
  <2>1. CASE Main \/ Enter
    BY <2>1, MainImplements
  <2>2. CASE AcceptThread
    BY <2>2, AcceptImplements
  <2>3. CASE \E t \in Threads : ReactorLoop(t)
    BY <2>3, LoopImplements
  <2>4. CASE UNCHANGED vars
    <3>1. \A c \in Conns : Stays(c)
      BY <2>4 DEF vars, loopVars, Stays
    <3>2. \A c \in Conns : Stage(c)' = Stage(c)
      BY <3>1, StageStays
    <3> QED
      BY <3>2
  <2> QED
    BY <2>1, <2>2, <2>3, <2>4 DEF Next
<1>3. ServerInv => StageKnown
  BY StageOfOwner DEF ServerInv
<1> QED
  BY <1>1, <1>2, <1>3, BusyInvariance, PTL DEF Spec, ImplementsLifecycle, CL!Spec

=============================================================================
