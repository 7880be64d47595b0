------------------------ MODULE ReactorThreadProofs ------------------------
(***************************************************************************)
(* Proofs about ReactorThread for every number of connections and bytes,   *)
(* all sizes and every set of faults.                                      *)
(*                                                                         *)
(* A connection is freed in the middle of a round.  That the two lists of  *)
(* the round never hold it afterwards rests on the interest mask: it names *)
(* one direction at a time, so that a connection is in one list only.      *)
(***************************************************************************)
EXTENDS ReactorThread, ListProofs

\* The connections in epoll are those of the table.
TableInv ==
  /\ connections \subseteq Conns
  /\ IsFiniteSet(connections)
  /\ ready \subseteq connections
  /\ quiet \subseteq connections
  /\ interest \in [Conns -> {{}, {"in"}, {"out"}}]
  /\ \A c \in Conns : c \in connections <=> interest[c] # {}
  /\ fds \in Seq(Conns)
  /\ accept_queue \in Seq(Conns)
  /\ pc = "add" <=> fds # <<>>

\* The lists of a round: each connection is in one of them, once, and they are
\* used up when the round ends.
RoundInv ==
  /\ read_conns \in Seq(Conns)
  /\ write_conns \in Seq(Conns)
  /\ IsInjective(read_conns)
  /\ IsInjective(write_conns)
  /\ Disjoint(Range(read_conns), Range(write_conns))
  /\ Range(read_conns) \cup Range(write_conns) \subseteq connections
  /\ pc # "read" => read_conns = <<>>
  /\ pc \notin {"read", "write"} => write_conns = <<>>

ThreadInv == TableInv /\ RoundInv

-----------------------------------------------------------------------------
(***************************************************************************)
(* The table and epoll agree                                               *)
(***************************************************************************)

\* What handle_close_event does to the table and to epoll.
LEMMA CloseTable ==
  ASSUME TableInv, NEW dead \in SUBSET Conns, Close(dead),
         ready' \subseteq ready \ dead, quiet' \subseteq quiet \ dead
  PROVE  /\ connections' = connections \ dead
         /\ connections' \subseteq Conns
         /\ IsFiniteSet(connections')
         /\ ready' \subseteq connections'
         /\ quiet' \subseteq connections'
         /\ interest' \in [Conns -> {{}, {"in"}, {"out"}}]
         /\ \A c \in Conns : c \in connections' <=> interest'[c] # {}
<1>1. connections' = connections \ dead
  BY DEF Close
<1>2. IsFiniteSet(connections')
  BY <1>1, FS_Subset DEF TableInv
<1> QED
  BY <1>1, <1>2 DEF Close, TableInv

\* Registering a connection that is in the table, or the one being added.
LEMMA ArmTable ==
  ASSUME TableInv, NEW c \in Conns, NEW s, NEW mask \in {{"in"}, {"out"}},
         Arm(c, s, mask), connections' = connections \cup {c}
  PROVE  /\ connections' \subseteq Conns
         /\ IsFiniteSet(connections')
         /\ ready' \subseteq connections'
         /\ interest' \in [Conns -> {{}, {"in"}, {"out"}}]
         /\ \A d \in Conns : d \in connections' <=> interest'[d] # {}
<1>1. IsFiniteSet(connections')
  BY FS_AddElement DEF TableInv
<1>2. mask # {}
  OBVIOUS
<1> QED
  BY <1>1, <1>2 DEF Arm, TableInv

\* A popped batch is not empty while it is added to the table.
LEMMA NextFdTable ==
  ASSUME TableInv, pc = "add", NextFd
  PROVE  fds' \in Seq(Conns) /\ (pc' = "add" <=> fds' # <<>>)
<1>1. /\ fds \in Seq(Conns) /\ fds # <<>>
      /\ Tail(fds) \in Seq(Conns)
      /\ Len(fds) \in Nat \ {0}
      /\ Len(Tail(fds)) = Len(fds) - 1
  BY EmptySeq, HeadTailProperties DEF TableInv
<1>2. Len(fds) # 1 <=> Tail(fds) # <<>>
  <2> DEFINE rest == Tail(fds)
  <2>1. Len(rest) = Len(fds) - 1
    BY <1>1
  <2>2. Len(<<>>) = 0
    OBVIOUS
  <2> HIDE DEF rest
  <2>3. rest = <<>> => Len(fds) = 1
    BY <1>1, <2>1, <2>2
  <2>4. rest # <<>> => Len(rest) # 0
    BY <1>1, EmptySeq DEF rest
  <2>5. Len(rest) # 0 => Len(fds) # 1
    BY <1>1, <2>1
  <2> QED
    BY <2>3, <2>4, <2>5 DEF rest
<1> QED
  BY <1>1, <1>2 DEF NextFd

\* Popping a batch.
LEMMA PopTable ==
  ASSUME TableInv, NEW n \in 0 .. Len(accept_queue), PopBatch(n)
  PROVE  TableInv'
<1> DEFINE front == SubSeq(accept_queue, 1, n)
<1>1. Len(accept_queue) \in Nat /\ \A k \in 1 .. Len(accept_queue) : accept_queue[k] \in Conns
  BY LenProperties, ElementOfSeq DEF TableInv
<1>2. front \in Seq(Conns) /\ Len(front) = n
  BY <1>1, SubSeqProperties
<1>3. Drop(accept_queue, n) \in Seq(Conns)
  BY <1>1, SubSeqProperties DEF Drop
<1>4. n # 0 <=> front # <<>>
  BY <1>2, EmptySeq
<1> QED
  BY <1>2, <1>3, <1>4 DEF PopBatch, TableInv, connVars, kernelVars

\* A batch is not longer than the queue.
LEMMA PopSize ==
  ASSUME TableInv
  PROVE  /\ Smaller(Batch, Len(accept_queue)) \in 0 .. Len(accept_queue)
         /\ 0 \in 0 .. Len(accept_queue)
<1>1. Len(accept_queue) \in Nat /\ Batch \in Nat
  BY LenProperties, ReactorAssumption DEF TableInv
<1> QED
  BY <1>1 DEF Smaller

\* Nothing is in the table at first.
LEMMA TableInit == Init => TableInv
BY FS_EmptySet, EmptySeq DEF Init, TableInv

\* The steps of the loop keep table and epoll together.
LEMMA LoopTable ==
  ASSUME TableInv, RoundInv, Loop
  PROVE  TableInv'
<1> USE DEF threadVars, connVars, kernelVars, listVars
<1>1. CASE Exit \/ WaitInterrupted \/ WaitFails \/ ReadsDone \/ WritesDone
  BY <1>1 DEF Exit, WaitInterrupted, WaitFails, ReadsDone, WritesDone, TableInv
<1>2. CASE PopNew \/ PopNothing
  BY <1>2, PopTable, PopSize DEF PopNew, PopNothing
<1>3. CASE AddConnection
  <2>1. PICK c \in Conns : c = Head(fds)
    BY <1>3, HeadTailProperties DEF TableInv, AddConnection
  <2>2. /\ connections' = connections \cup {c}
        /\ Arm(c, sock[c], {"in"})
        /\ NextFd /\ pc = "add"
        /\ UNCHANGED <<accept_queue, quiet>>
    BY <1>3, <2>1 DEF AddConnection
  <2>3. fds' \in Seq(Conns) /\ (pc' = "add" <=> fds' # <<>>)
    BY <2>2, NextFdTable
  <2>4. /\ connections' \subseteq Conns
        /\ IsFiniteSet(connections')
        /\ ready' \subseteq connections'
        /\ interest' \in [Conns -> {{}, {"in"}, {"out"}}]
        /\ \A d \in Conns : d \in connections' <=> interest'[d] # {}
    BY <2>2, ArmTable
  <2> QED
    BY <2>2, <2>3, <2>4 DEF TableInv
<1>4. CASE RefuseConnection
  <2>1. fds' \in Seq(Conns) /\ (pc' = "add" <=> fds' # <<>>)
    BY <1>4, NextFdTable DEF RefuseConnection
  <2> QED
    BY <1>4, <2>1 DEF RefuseConnection, TableInv
<1>5. CASE WaitAndClassify
  <2>1. PICK reported \in SUBSET ready, dead \in SUBSET ready :
          /\ dead \subseteq reported
          /\ Close(dead)
          /\ ready' \subseteq ready \ reported
          /\ quiet' = quiet \ reported
    BY <1>5 DEF WaitAndClassify
  <2>2. ready' \subseteq ready \ dead /\ quiet' \subseteq quiet \ dead
    BY <2>1
  <2>3. dead \in SUBSET Conns
    BY DEF TableInv
  <2>4. pc = "wait" /\ pc' = "read" /\ UNCHANGED <<fds, accept_queue>>
    BY <1>5 DEF WaitAndClassify
  <2> QED
    BY <2>1, <2>2, <2>3, <2>4, CloseTable DEF TableInv
<1>6. CASE ReadBytes
  <2>1. PICK c \in Range(read_conns) :
          \E s : Arm(c, s, {"out"})
    BY <1>6, HeadInRange DEF ReadBytes, RoundInv
  <2>2. c \in connections /\ c \in Conns /\ connections' = connections \cup {c}
    BY <1>6 DEF ReadBytes, RoundInv, TableInv
  <2>3. /\ ready' \subseteq connections'
        /\ interest' \in [Conns -> {{}, {"in"}, {"out"}}]
        /\ \A d \in Conns : d \in connections' <=> interest'[d] # {}
    BY <2>1, <2>2, ArmTable
  <2> QED
    BY <1>6, <2>3 DEF ReadBytes, TableInv
<1>7. CASE ReadFull \/ ReadAgain \/ WriteNothing
  BY <1>7 DEF ReadFull, ReadAgain, WriteNothing, ReadNext, WriteNext, TableInv
<1>8. CASE ReadEnds
  <2>1. PICK c \in Range(read_conns) :
          Close({c}) /\ ready' = ready \ {c} /\ quiet' = quiet \ {c}
    BY <1>8, HeadInRange DEF ReadEnds, RoundInv
  <2>2. {c} \in SUBSET Conns
    BY DEF RoundInv, TableInv
  <2>3. UNCHANGED threadVars
    BY <1>8 DEF ReadEnds, ReadNext
  <2> QED
    BY <2>1, <2>2, <2>3, CloseTable DEF TableInv
<1>9. CASE WriteBytes
  <2>1. PICK c \in Range(write_conns) :
          \/ UNCHANGED <<interest, ready>>
          \/ \E s : Arm(c, s, {"in"})
    BY <1>9, HeadInRange DEF WriteBytes, RoundInv
  <2>2. c \in connections /\ c \in Conns /\ connections' = connections \cup {c}
    BY <1>9 DEF WriteBytes, RoundInv, TableInv
  <2>3. /\ ready' \subseteq connections'
        /\ interest' \in [Conns -> {{}, {"in"}, {"out"}}]
        /\ \A d \in Conns : d \in connections' <=> interest'[d] # {}
    <3>1. CASE UNCHANGED <<interest, ready>>
      BY <2>2, <3>1 DEF TableInv
    <3>2. CASE \E s : Arm(c, s, {"in"})
      BY <2>2, <3>2, ArmTable
    <3> QED
      BY <2>1, <3>1, <3>2
  <2> QED
    BY <1>9, <2>3 DEF WriteBytes, WriteNext, TableInv
<1>10. CASE WriteFails
  <2>1. PICK c \in Range(write_conns) :
          Close({c}) /\ ready' = ready \ {c} /\ quiet' = quiet \ {c}
    BY <1>10, HeadInRange DEF WriteFails, RoundInv
  <2>2. {c} \in SUBSET Conns
    BY DEF RoundInv, TableInv
  <2>3. UNCHANGED threadVars
    BY <1>10 DEF WriteFails, WriteNext
  <2> QED
    BY <2>1, <2>2, <2>3, CloseTable DEF TableInv
<1>11. CASE Timer
  <2>1. PICK dead \in SUBSET quiet :
          Close(dead) /\ ready' = ready \ dead /\ quiet' = quiet \ dead
    BY <1>11 DEF Timer
  <2>2. dead \in SUBSET Conns
    BY DEF TableInv
  <2>3. pc = "timer" /\ pc' = "top" /\ UNCHANGED <<fds, accept_queue>>
    BY <1>11 DEF Timer
  <2> QED
    BY <2>1, <2>2, <2>3, CloseTable DEF TableInv
<1> QED
  BY <1>1, <1>2, <1>3, <1>4, <1>5, <1>6, <1>7, <1>8, <1>9, <1>10, <1>11 DEF Loop

-----------------------------------------------------------------------------
(***************************************************************************)
(* The lists of a round                                                    *)
(***************************************************************************)

\* The lists are not touched and no listed connection is closed.
LEMMA ListsKept ==
  ASSUME RoundInv, UNCHANGED listVars, connections \subseteq connections',
         pc' = pc \/ pc \notin {"read", "write"}
           \/ (pc = "read" /\ read_conns = <<>> /\ pc' = "write")
           \/ (pc = "write" /\ write_conns = <<>> /\ pc' = "timer")
  PROVE  RoundInv'
BY DEF RoundInv, listVars

\* The first connection of the read list is done with, and may be closed.
LEMMA ReadListNext ==
  ASSUME RoundInv, pc = "read", read_conns # <<>>, ReadNext,
         connections \ {Head(read_conns)} \subseteq connections'
  PROVE  RoundInv'
<1>1. /\ Range(read_conns) = {Head(read_conns)} \cup Range(Tail(read_conns))
      /\ Head(read_conns) \notin Range(Tail(read_conns))
      /\ IsInjective(Tail(read_conns))
      /\ Tail(read_conns) \in Seq(Conns)
  BY RangeTail, HeadTailProperties DEF RoundInv
<1> QED
  BY <1>1 DEF RoundInv, ReadNext, threadVars, Disjoint

\* The same for the write list.
LEMMA WriteListNext ==
  ASSUME RoundInv, pc = "write", write_conns # <<>>, WriteNext,
         connections \ {Head(write_conns)} \subseteq connections'
  PROVE  RoundInv'
<1>1. /\ Range(write_conns) = {Head(write_conns)} \cup Range(Tail(write_conns))
      /\ Head(write_conns) \notin Range(Tail(write_conns))
      /\ IsInjective(Tail(write_conns))
      /\ Tail(write_conns) \in Seq(Conns)
  BY RangeTail, HeadTailProperties DEF RoundInv
<1> QED
  BY <1>1 DEF RoundInv, WriteNext, threadVars, Disjoint

\* A connection that waits for one direction is not listed for the other.
LEMMA OneDirection ==
  ASSUME TableInv, NEW c \in Conns
  PROVE  ~("in" \in Events(sock[c], interest[c]) /\ "out" \in Events(sock[c], interest[c]))
BY DEF TableInv, Events

\* epoll_wait starts a round with the connections that it has not closed.
LEMMA WaitRound ==
  ASSUME TableInv, WaitAndClassify
  PROVE  RoundInv'
<1> DEFINE events == [c \in Conns |-> Events(sock[c], interest[c])]
<1>1. PICK reported \in SUBSET ready, dead \in SUBSET ready :
        /\ Close(dead)
        /\ read_conns' \in ListsOf({c \in reported \ dead : "in" \in events[c]})
        /\ write_conns' \in ListsOf({c \in reported \ dead : "out" \in events[c]})
  BY DEF WaitAndClassify
<1> DEFINE ins == {c \in reported \ dead : "in" \in events[c]}
           outs == {c \in reported \ dead : "out" \in events[c]}
<1>2. ins \subseteq connections \ dead /\ outs \subseteq connections \ dead
  BY DEF TableInv
<1>3. Disjoint(ins, outs)
  BY OneDirection DEF Disjoint, TableInv
<1>4. IsFiniteSet(ins) /\ IsFiniteSet(outs) /\ ins \subseteq Conns /\ outs \subseteq Conns
  BY <1>2, FS_Subset DEF TableInv
<1>5. read_conns' \in ListsOf(ins) /\ write_conns' \in ListsOf(outs)
  BY <1>1
<1> HIDE DEF ins, outs, events
<1>6. /\ read_conns' \in Seq(ins) /\ Range(read_conns') = ins /\ IsInjective(read_conns')
      /\ write_conns' \in Seq(outs) /\ Range(write_conns') = outs /\ IsInjective(write_conns')
  BY <1>4, <1>5, ListOfSet DEF ListsOf
<1>7. read_conns' \in Seq(Conns) /\ write_conns' \in Seq(Conns)
  BY <1>4, <1>6, SeqMonotonic
<1>8. connections' = connections \ dead /\ pc' = "read"
  BY <1>1 DEF Close, WaitAndClassify
<1> QED
  BY <1>2, <1>3, <1>6, <1>7, <1>8 DEF RoundInv

LEMMA RoundInit == Init => RoundInv
<1>1. <<>> \in Seq(Conns)
  BY EmptySeq
<1> QED
  BY <1>1, RangeEmpty DEF Init, RoundInv, Disjoint

\* The steps of the loop keep the lists apart.
LEMMA LoopRound ==
  ASSUME TableInv, RoundInv, Loop
  PROVE  RoundInv'
<1> USE DEF threadVars, connVars, kernelVars
<1>1. CASE Exit \/ WaitInterrupted \/ WaitFails \/ ReadsDone \/ WritesDone
  BY <1>1, ListsKept DEF Exit, WaitInterrupted, WaitFails, ReadsDone, WritesDone
<1>2. CASE PopNew \/ PopNothing
  BY <1>2, ListsKept DEF PopNew, PopNothing, PopBatch
<1>3. CASE AddConnection
  BY <1>3, ListsKept DEF AddConnection
<1>4. CASE RefuseConnection
  BY <1>4, ListsKept DEF RefuseConnection
<1>5. CASE WaitAndClassify
  BY <1>5, WaitRound
<1>6. CASE ReadBytes
  BY <1>6, ListsKept DEF ReadBytes
<1>7. CASE ReadFull \/ ReadAgain
  BY <1>7, ReadListNext DEF ReadFull, ReadAgain
<1>8. CASE ReadEnds
  BY <1>8, ReadListNext DEF ReadEnds, Close
<1>9. CASE WriteBytes \/ WriteNothing
  BY <1>9, WriteListNext DEF WriteBytes, WriteNothing
<1>10. CASE WriteFails
  BY <1>10, WriteListNext DEF WriteFails, Close
<1>11. CASE Timer
  <2>1. read_conns = <<>> /\ write_conns = <<>> /\ UNCHANGED listVars
    BY <1>11 DEF Timer, RoundInv
  <2>2. Range(read_conns) = {} /\ Range(write_conns) = {}
    BY <2>1, RangeEmpty
  <2> QED
    BY <2>1, <2>2 DEF RoundInv, listVars
<1> QED
  BY <1>1, <1>2, <1>3, <1>4, <1>5, <1>6, <1>7, <1>8, <1>9, <1>10, <1>11 DEF Loop

-----------------------------------------------------------------------------
(***************************************************************************)
(* Memory safety of the thread                                             *)
(***************************************************************************)

\* The environment appends to the accept queue, makes connections ready that
\* are in epoll, and lets connections of the table grow old.
LEMMA EnvironmentKeeps ==
  ASSUME ThreadInv, Environment
  PROVE  ThreadInv'
<1> USE DEF threadVars, connVars, kernelVars, listVars, clientVars
<1> DEFINE Kept ==
      /\ UNCHANGED <<pc, fds, connections, interest, read_conns, write_conns>>
      /\ ready' \subseteq ready \cup {c \in Conns : interest[c] # {}}
      /\ quiet' \subseteq connections
      /\ accept_queue' \in Seq(Conns)
<1>1. Kept
  <2>1. ASSUME NEW c \in Conns, Accept(c)
        PROVE  Kept
    BY <2>1, AppendProperties DEF Accept, ThreadInv, TableInv
  <2>2. ASSUME NEW c \in Conns,
               ClientSend(c) \/ ClientReceive(c) \/ ClientFin(c) \/ ClientReset(c)
        PROVE  Kept
    BY <2>2 DEF ClientSend, ClientReceive, ClientFin, ClientReset, Wake, ThreadInv, TableInv
  <2>3. ASSUME NEW c \in Conns, Age(c)
        PROVE  Kept
    BY <2>3 DEF Age, ThreadInv, TableInv
  <2>4. CASE Stop
    BY <2>4 DEF Stop, ThreadInv, TableInv
  <2> QED
    BY <2>1, <2>2, <2>3, <2>4 DEF Environment
<1>2. TableInv'
  BY <1>1 DEF ThreadInv, TableInv
<1>3. RoundInv'
  BY <1>1, ListsKept DEF ThreadInv
<1> QED
  BY <1>2, <1>3 DEF ThreadInv

\* The table, epoll and the lists agree in every state.
THEOREM ThreadInvariance == Spec => []ThreadInv
<1>1. Init => ThreadInv
  BY TableInit, RoundInit DEF ThreadInv
<1>2. ThreadInv /\ [Next]_vars => ThreadInv'
  <2> SUFFICES ASSUME ThreadInv, [Next]_vars
               PROVE  ThreadInv'
    OBVIOUS
  <2>1. CASE Loop
    BY <2>1, LoopTable, LoopRound DEF ThreadInv
  <2>2. CASE Environment
    BY <2>2, EnvironmentKeeps
  <2>3. CASE UNCHANGED vars
    BY <2>3 DEF vars, threadVars, connVars, kernelVars, listVars, ThreadInv, TableInv, RoundInv
  <2> QED
    BY <2>1, <2>2, <2>3 DEF Next
<1> QED
  BY <1>1, <1>2, PTL DEF Spec

\* No connection is used after free: the lists of a round and epoll only point
\* to connections of the table, whatever is closed in the middle of the round
\* (reactor.c:41-61, 303-343).
THEOREM NoUseAfterClose == Spec => []NoDanglingUse
<1>1. ThreadInv => NoDanglingUse
  BY DEF ThreadInv, TableInv, RoundInv, NoDanglingUse, Disjoint
<1> QED
  BY <1>1, ThreadInvariance, PTL

-----------------------------------------------------------------------------
(***************************************************************************)
(* The sockets: who answers for one, and its life                          *)
(***************************************************************************)

\* Everything that a step does to the places of the sockets is one of these.
Queues ==
  \E c \in Conns :
    /\ c \notin Accepted
    /\ accept_queue' = Append(accept_queue, c)
    /\ UNCHANGED <<fds, connections, closed>>

Pops ==
  /\ fds = <<>>
  /\ \E n \in 0 .. Len(accept_queue) :
       /\ fds' = SubSeq(accept_queue, 1, n)
       /\ accept_queue' = SubSeq(accept_queue, n + 1, Len(accept_queue))
  /\ UNCHANGED <<connections, closed>>

Opens ==
  /\ fds # <<>>
  /\ fds' = Tail(fds)
  /\ connections' = connections \cup {Head(fds)}
  /\ UNCHANGED <<accept_queue, closed>>

Refuses ==
  /\ fds # <<>>
  /\ fds' = Tail(fds)
  /\ closed' = closed \cup {Head(fds)}
  /\ UNCHANGED <<accept_queue, connections>>

Closes ==
  /\ \E dead \in SUBSET connections :
       /\ connections' = connections \ dead
       /\ closed' = closed \cup dead
  /\ UNCHANGED <<accept_queue, fds>>

Rests == UNCHANGED <<accept_queue, fds, connections, closed>>

\* Nothing else happens to a socket.
LEMMA SocketSteps ==
  ASSUME ThreadInv, [Next]_vars
  PROVE  Queues \/ Pops \/ Opens \/ Refuses \/ Closes \/ Rests
<1> USE DEF threadVars, connVars, kernelVars, listVars, clientVars
<1>1. CASE \E c \in Conns : Accept(c)
  BY <1>1 DEF Accept, Queues
<1>2. CASE PopNew \/ PopNothing
  <2>1. PICK n \in 0 .. Len(accept_queue) : PopBatch(n)
    BY <1>2, PopSize DEF PopNew, PopNothing, ThreadInv
  <2>2. fds = <<>>
    BY <2>1 DEF PopBatch, ThreadInv, TableInv
  <2> QED
    BY <2>1, <2>2 DEF PopBatch, Drop, Pops
<1>3. CASE AddConnection
  BY <1>3 DEF AddConnection, NextFd, Opens, ThreadInv, TableInv
<1>4. CASE RefuseConnection
  BY <1>4 DEF RefuseConnection, NextFd, Refuses, ThreadInv, TableInv
<1>5. CASE WaitAndClassify
  <2>1. PICK dead \in SUBSET connections : Close(dead)
    BY <1>5 DEF WaitAndClassify, ThreadInv, TableInv
  <2> QED
    BY <1>5, <2>1 DEF WaitAndClassify, Close, Closes
<1>6. CASE ReadEnds
  <2>1. {Head(read_conns)} \in SUBSET connections
    BY <1>6, HeadInRange DEF ReadEnds, ThreadInv, RoundInv
  <2> QED
    BY <1>6, <2>1 DEF ReadEnds, ReadNext, Close, Closes
<1>7. CASE WriteFails
  <2>1. {Head(write_conns)} \in SUBSET connections
    BY <1>7, HeadInRange DEF WriteFails, ThreadInv, RoundInv
  <2> QED
    BY <1>7, <2>1 DEF WriteFails, WriteNext, Close, Closes
<1>8. CASE Timer
  <2>1. PICK dead \in SUBSET connections : Close(dead)
    BY <1>8 DEF Timer, ThreadInv, TableInv
  <2> QED
    BY <1>8, <2>1 DEF Timer, Close, Closes
<1>9. CASE \/ Exit \/ WaitInterrupted \/ WaitFails \/ ReadBytes \/ ReadFull \/ ReadAgain
           \/ ReadsDone \/ WriteBytes \/ WriteNothing \/ WritesDone
  BY <1>9 DEF Exit, WaitInterrupted, WaitFails, ReadBytes, ReadFull, ReadAgain, ReadNext,
    ReadsDone, WriteBytes, WriteNothing, WriteNext, WritesDone, Rests
<1>10. CASE Environment /\ ~\E c \in Conns : Accept(c)
  BY <1>10 DEF Environment, ClientSend, ClientReceive, ClientFin, ClientReset, Age, Stop, Rests
<1>11. CASE UNCHANGED vars
  BY <1>11 DEF vars, Rests
<1> QED
  BY <1>1, <1>2, <1>3, <1>4, <1>5, <1>6, <1>7, <1>8, <1>9, <1>10, <1>11 DEF Next, Loop, Environment

\* No socket is in two places, or twice in one.
Apart ==
  /\ accept_queue \in Seq(Conns)
  /\ fds \in Seq(Conns)
  /\ connections \subseteq Conns
  /\ closed \subseteq Conns
  /\ IsFiniteSet(connections)
  /\ IsFiniteSet(closed)
  /\ IsInjective(accept_queue)
  /\ IsInjective(fds)
  /\ Disjoint(Range(accept_queue), Range(fds) \cup connections \cup closed)
  /\ Disjoint(Range(fds), connections \cup closed)
  /\ Disjoint(connections, closed)

LEMMA ApartInit == Init => Apart
<1>1. <<>> \in Seq(Conns)
  BY EmptySeq
<1> QED
  BY <1>1, RangeEmpty, FS_EmptySet DEF Init, Apart, Disjoint

\* Each of the steps hands the socket on.
LEMMA ApartStep ==
  ASSUME Apart, Queues \/ Pops \/ Opens \/ Refuses \/ Closes \/ Rests
  PROVE  Apart'
<1>1. CASE Queues
  <2>1. PICK c \in Conns :
          /\ c \notin Accepted
          /\ accept_queue' = Append(accept_queue, c)
          /\ UNCHANGED <<fds, connections, closed>>
    BY <1>1 DEF Queues
  <2>2. /\ Range(accept_queue') = Range(accept_queue) \cup {c}
        /\ IsInjective(accept_queue')
        /\ accept_queue' \in Seq(Conns)
    BY <2>1, RangeAppend, AppendProperties DEF Apart, Accepted
  <2> QED
    BY <2>1, <2>2 DEF Apart, Disjoint, Accepted
<1>2. CASE Pops
  <2>1. PICK n \in 0 .. Len(accept_queue) :
          /\ fds' = SubSeq(accept_queue, 1, n)
          /\ accept_queue' = SubSeq(accept_queue, n + 1, Len(accept_queue))
    BY <1>2 DEF Pops
  <2>2. /\ Range(accept_queue) = Range(fds') \cup Range(accept_queue')
        /\ Disjoint(Range(fds'), Range(accept_queue'))
        /\ IsInjective(fds')
        /\ IsInjective(accept_queue')
    BY <2>1, RangeCut DEF Apart
  <2>3. Len(accept_queue) \in Nat /\ \A k \in 1 .. Len(accept_queue) : accept_queue[k] \in Conns
    BY LenProperties, ElementOfSeq DEF Apart
  <2>4. fds' \in Seq(Conns) /\ accept_queue' \in Seq(Conns)
    BY <2>1, <2>3, SubSeqProperties
  <2> QED
    BY <1>2, <2>2, <2>4 DEF Pops, Apart, Disjoint
<1>3. CASE Opens \/ Refuses
  <2>1. /\ Range(fds) = {Head(fds)} \cup Range(Tail(fds))
        /\ Head(fds) \notin Range(Tail(fds))
        /\ IsInjective(Tail(fds))
        /\ Tail(fds) \in Seq(Conns)
        /\ Head(fds) \in Conns
    BY <1>3, RangeTail, HeadTailProperties DEF Opens, Refuses, Apart
  <2>2. IsFiniteSet(connections') /\ IsFiniteSet(closed')
    BY <1>3, FS_AddElement DEF Opens, Refuses, Apart
  <2> QED
    BY <1>3, <2>1, <2>2 DEF Opens, Refuses, Apart, Disjoint
<1>4. CASE Closes
  <2>1. PICK dead \in SUBSET connections :
          /\ connections' = connections \ dead
          /\ closed' = closed \cup dead
    BY <1>4 DEF Closes
  <2>2. IsFiniteSet(connections') /\ IsFiniteSet(closed')
    BY <2>1, FS_Subset, FS_Union DEF Apart
  <2> QED
    BY <1>4, <2>1, <2>2 DEF Closes, Apart, Disjoint
<1>5. CASE Rests
  BY <1>5 DEF Rests, Apart
<1> QED
  BY <1>1, <1>2, <1>3, <1>4, <1>5

LEMMA ApartInvariance == Spec => [](ThreadInv /\ Apart)
<1>1. ThreadInv /\ Apart /\ [Next]_vars => Apart'
  BY SocketSteps, ApartStep
<1> QED
  BY <1>1, ApartInit, ThreadInvariance, PTL DEF Spec

\* Every accepted socket is in exactly one place: no hand-over between the queue,
\* the batch and the table loses one or keeps it twice (reactor.c:41-61, 111-175).
THEOREM SocketInOnePlace == Spec => []OwnedOnce
<1>1. Apart => OwnedOnce
  <2> SUFFICES ASSUME Apart PROVE OwnedOnce
    OBVIOUS
  <2> DEFINE A == Range(accept_queue)
             B == Range(fds)
  <2>1. /\ IsFiniteSet(A) /\ Cardinality(A) = Len(accept_queue)
        /\ IsFiniteSet(B) /\ Cardinality(B) = Len(fds)
        /\ IsFiniteSet(connections) /\ IsFiniteSet(closed)
        /\ Disjoint(A, B \cup connections \cup closed)
        /\ Disjoint(B, connections \cup closed)
        /\ Disjoint(connections, closed)
    BY ListLength DEF Apart
  <2> HIDE DEF A, B
  <2>2. /\ IsFiniteSet(A \cup B)
        /\ Cardinality(A \cup B) = Cardinality(A) + Cardinality(B)
    BY <2>1, DisjointUnion DEF Disjoint
  <2>3. /\ IsFiniteSet(A \cup B \cup connections)
        /\ Cardinality(A \cup B \cup connections)
             = Cardinality(A \cup B) + Cardinality(connections)
    BY <2>1, <2>2, DisjointUnion DEF Disjoint
  <2>4. Cardinality(A \cup B \cup connections \cup closed)
          = Cardinality(A \cup B \cup connections) + Cardinality(closed)
    BY <2>1, <2>3, DisjointUnion DEF Disjoint
  <2> QED
    BY <2>1, <2>2, <2>3, <2>4 DEF OwnedOnce, Accepted, A, B
<1> QED
  BY <1>1, ApartInvariance, PTL

-----------------------------------------------------------------------------

\* Where a socket is in one place, that place is its stage.
LEMMA StageOfPlace ==
  ASSUME Apart
  PROVE  /\ \A c \in closed : Stage(c) = "closed"
         /\ \A c \in connections : Stage(c) = "open"
         /\ \A c \in Range(fds) : Stage(c) = "popped"
         /\ \A c \in Range(accept_queue) : Stage(c) = "queued"
         /\ \A c : c \notin Accepted => Stage(c) = "new"
BY DEF Apart, Disjoint, Stage, Accepted

\* The moves that ConnLifecycle allows.
Moves == {<<"new", "queued">>, <<"queued", "popped">>, <<"popped", "open">>,
          <<"popped", "closed">>, <<"open", "closed">>}

\* A step that takes the sockets of S from one stage to the next and leaves the others.
LEMMA StageMoves ==
  ASSUME NEW S \in SUBSET Conns, NEW from, NEW to, <<from, to>> \in Moves,
         \A c \in S : Stage(c) = from /\ Stage(c)' = to,
         \A c \in Conns \ S : Stage(c)' = Stage(c)
  PROVE  CL!Next
<1>1. CL!Move(S, from, to)
  BY DEF CL!Move
<1> QED
  BY <1>1 DEF CL!Next, Moves

\* A step that takes one socket along.
LEMMA OneMoves ==
  ASSUME NEW c \in Conns, NEW from, NEW to, <<from, to>> \in Moves,
         Stage(c) = from, Stage(c)' = to,
         \A d \in Conns \ {c} : Stage(d)' = Stage(d)
  PROVE  CL!Next
<1>1. PICK S \in SUBSET Conns : S = {c}
  OBVIOUS
<1>2. /\ \A d \in S : Stage(d) = from /\ Stage(d)' = to
      /\ \A d \in Conns \ S : Stage(d)' = Stage(d)
  BY <1>1
<1> QED
  BY <1>2, StageMoves

\* Every step is a move of ConnLifecycle, or changes no stage.
LEMMA LifecycleStep ==
  ASSUME Apart, Apart', Queues \/ Pops \/ Opens \/ Refuses \/ Closes \/ Rests
  PROVE  CL!Next \/ UNCHANGED [c \in Conns |-> Stage(c)]
<1>0. /\ \A c \in closed' : Stage(c)' = "closed"
      /\ \A c \in connections' : Stage(c)' = "open"
      /\ \A c \in Range(fds') : Stage(c)' = "popped"
      /\ \A c \in Range(accept_queue') : Stage(c)' = "queued"
  BY DEF Apart, Disjoint, Stage
<1>1. CASE Queues
  <2>1. PICK c \in Conns :
          /\ c \notin Accepted
          /\ accept_queue' = Append(accept_queue, c)
          /\ UNCHANGED <<fds, connections, closed>>
    BY <1>1 DEF Queues
  <2>2. Range(accept_queue') = Range(accept_queue) \cup {c}
    BY <2>1, RangeAppend DEF Apart
  <2>3. Stage(c) = "new" /\ Stage(c)' = "queued"
    BY <1>0, <2>1, <2>2, StageOfPlace
  <2>4. \A d \in Conns \ {c} : Stage(d)' = Stage(d)
    BY <2>1, <2>2 DEF Stage
  <2> QED
    BY <2>3, <2>4, OneMoves DEF Moves
<1>2. CASE Pops
  <2>1. PICK n \in 0 .. Len(accept_queue) :
          /\ fds' = SubSeq(accept_queue, 1, n)
          /\ accept_queue' = SubSeq(accept_queue, n + 1, Len(accept_queue))
    BY <1>2 DEF Pops
  <2>2. Range(accept_queue) = Range(fds') \cup Range(accept_queue')
    BY <2>1, RangeCut DEF Apart
  <2>3. Range(fds) = {}
    BY <1>2, RangeEmpty DEF Pops
  <2>4. \A c \in Range(fds') : Stage(c) = "queued" /\ Stage(c)' = "popped"
    BY <1>0, <2>2, StageOfPlace
  <2>5. \A c \in Conns \ Range(fds') : Stage(c)' = Stage(c)
    BY <1>2, <2>2, <2>3 DEF Pops, Stage
  <2>6. Range(fds') \in SUBSET Conns
    <3>1. \A k \in DOMAIN accept_queue : accept_queue[k] \in Conns
      BY LenProperties, ElementOfSeq DEF Apart
    <3> QED
      BY <2>2, <3>1 DEF Range
  <2> QED
    BY <2>4, <2>5, <2>6, StageMoves DEF Moves
<1>3. CASE Opens \/ Refuses
  <2>1. PICK c \in Conns : c = Head(fds)
    BY <1>3, HeadTailProperties DEF Opens, Refuses, Apart
  <2>2. Range(fds) = {c} \cup Range(fds') /\ c \notin Range(fds')
    BY <1>3, <2>1, RangeTail DEF Opens, Refuses, Apart
  <2>3. Stage(c) = "popped"
    BY <2>2, StageOfPlace
  <2>4. \A d \in Conns \ {c} : Stage(d)' = Stage(d)
    BY <1>3, <2>1, <2>2 DEF Opens, Refuses, Stage
  <2>5. CASE Opens
    <3>1. Stage(c)' = "open"
      BY <1>0, <2>1, <2>5 DEF Opens
    <3> QED
      BY <2>3, <2>4, <3>1, OneMoves DEF Moves
  <2>6. CASE Refuses
    <3>1. Stage(c)' = "closed"
      BY <1>0, <2>1, <2>6 DEF Refuses
    <3> QED
      BY <2>3, <2>4, <3>1, OneMoves DEF Moves
  <2> QED
    BY <1>3, <2>5, <2>6
<1>4. CASE Closes
  <2>1. PICK dead \in SUBSET connections :
          /\ connections' = connections \ dead
          /\ closed' = closed \cup dead
    BY <1>4 DEF Closes
  <2>2. \A c \in dead : Stage(c) = "open" /\ Stage(c)' = "closed"
    BY <1>0, <2>1, StageOfPlace
  <2>3. \A c \in Conns \ dead : Stage(c)' = Stage(c)
    BY <1>4, <2>1 DEF Closes, Stage
  <2>4. dead \in SUBSET Conns
    BY DEF Apart
  <2> QED
    BY <2>2, <2>3, <2>4, StageMoves DEF Moves
<1>5. CASE Rests
  BY <1>5 DEF Rests, Stage
<1> QED
  BY <1>1, <1>2, <1>3, <1>4, <1>5

\* The thread, whatever fails in it, takes every socket through the life of
\* ConnLifecycle (reactor.c:41-61, 111-175, 278-360).
THEOREM LifecycleRefinement == Spec => ImplementsLifecycle
<1>1. Init => CL!Init
  BY RangeEmpty DEF Init, CL!Init, Stage
<1>2. ThreadInv /\ Apart /\ Apart' /\ [Next]_vars
        => [CL!Next]_([c \in Conns |-> Stage(c)])
  BY SocketSteps, LifecycleStep
<1> QED
  BY <1>1, <1>2, ApartInvariance, PTL DEF Spec, ImplementsLifecycle, CL!Spec

=============================================================================
