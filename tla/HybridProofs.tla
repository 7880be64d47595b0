---------------------------- MODULE HybridProofs ----------------------------
(***************************************************************************)
(* Proofs about HybridProactor for every number of clients, workers and    *)
(* blocks, all sizes and bounds, and every set of faults.                  *)
(*                                                                         *)
(* The invariant comes in parts, each with its lemmas: Types; MainInv, what *)
(* there is before the threads and after them; HeapInv, whose a block is;  *)
(* ComesBack and WatchInv, what a worker still has to handle; OwnerInv, who *)
(* leads to a connection; ReadInv and WriteInv, what is read, pending and  *)
(* written.  The lemmas named ...Is and ...Moves say what single actions do *)
(* and which actions can change a part of the state.                       *)
(***************************************************************************)
EXTENDS HybridProactor, ListProofs

\* Where a thread has a connection in hand.
ConnSteps ==
  {"add", "welcome", "out", "write", "again", "settle", "async", "async_read", "remove",
   "free"}

\* Where it goes on when it is done with one.
Rests == {"none", "loop", "event", "complete", "left"}

Place ==
  [at : Steps, ptr : Pointers \cup {NoPtr}, n : 0 .. SendSpace, out : BOOLEAN, back : Rests]

\* A thread has a pointer exactly where it has a connection in hand.
Placed(l) ==
  /\ l \in Place
  /\ l.at \in ConnSteps => l.ptr \in Pointers
  /\ l.at \notin ConnSteps => l = Local(l.at)

MaskType == SUBSET {"in", "out", "err"}
EventType == [ptr : Pointers, mask : MaskType] \cup {Exit}
ResultType == [ptr : Pointers, res : Pipe .. BufSize]
WatchType == [worker : Workers, block : Blocks] \cup {NoWatch}

\* What is pending fits into write_buf.
Fitting(conn) == conn \in Connection /\ Len(conn.pending) < BufSize

\* A socket holds no more than there is space for.
Spaced(s) == s \in SocketType(Unit) /\ Len(s.out) <= SendSpace

ControlType ==
  /\ main \in {"start", "join", "stop", "exit", "undefined"}
  /\ running \in BOOLEAN
  /\ graceful_shutdown \in BOOLEAN
  /\ next_worker \in Workers

ThreadType == thread \in [Threads -> Place] /\ \A t \in Threads : Placed(thread[t])

QueueType ==
  /\ events \in [Workers -> Seq(EventType)]
  /\ aio_ctx \in [Workers -> Seq(ResultType)]
  /\ aio_events \in [Workers -> Seq(ResultType)]

HeapType ==
  /\ heap \in [Blocks -> Connection]
  /\ \A b \in Blocks : Fitting(heap[b])
  /\ allocated \subseteq Blocks
  /\ connections \in [Workers -> SUBSET Blocks]

SocketsType ==
  /\ watched \in [Clients -> WatchType]
  /\ sock \in [Clients -> SocketType(Unit)]
  /\ \A c \in Clients : Spaced(sock[c])
  /\ ready \subseteq Clients

ClientType ==
  /\ backlog \in Seq(Clients)
  /\ sent \in [Clients -> 0 .. MaxBytes]
  /\ got \in [Clients -> Unit \cup {Nothing}]
  /\ closed \subseteq Clients /\ mixed \subseteq Clients
  /\ cut \subseteq Clients /\ behind \subseteq Clients /\ missed \subseteq Clients

Types == ControlType /\ ThreadType /\ QueueType /\ HeapType /\ SocketsType /\ ClientType

-----------------------------------------------------------------------------
(***************************************************************************)
(* Constants                                                               *)
(***************************************************************************)

LEMMA Sizes ==
  /\ NumClients \in Nat /\ NumWorkers \in Nat \ {0} /\ BufSize \in Nat \ {0, 1}
  /\ Prefix \in Nat /\ MaxBytes \in Nat /\ SendSpace \in Nat \ {0}
  /\ Again = -1 /\ Reset = -2 /\ Pipe = -3 /\ None = -1
BY HybridAssumption, SendSpaceAssumption DEF Again, Reset, Pipe, None

\* Nothing that is not there is a client, a block or a worker.
LEMMA Apart ==
  /\ None \notin Clients /\ None \notin Blocks /\ Stdin \notin Clients /\ Stdin # None
  /\ Acceptor \notin Workers
  /\ NoPtr \notin Pointers /\ NoPtr.block = None /\ Exit.ptr = NoPtr
  /\ NoWatch \notin [worker : Workers, block : Blocks] /\ NoWatch.block = None
  /\ Workers \subseteq Threads /\ Acceptor \in Threads
  /\ \A t \in Threads : t \in Workers \/ t = Acceptor
<1>1. None \notin Clients /\ None \notin Blocks /\ Stdin \notin Clients /\ Stdin # None
  BY DEF None, Clients, Blocks, Stdin
<1>2. Acceptor \notin Workers
  BY Sizes DEF Acceptor, Workers
<1>3. NoPtr \notin Pointers /\ NoPtr.block = None /\ Exit.ptr = NoPtr
  BY <1>1 DEF NoPtr, Pointers, Exit, Event
<1>4. NoWatch \notin [worker : Workers, block : Blocks] /\ NoWatch.block = None
  BY <1>1 DEF NoWatch
<1> QED
  BY <1>1, <1>2, <1>3, <1>4 DEF Threads

\* What the types say of the pointers.
LEMMA PointerParts ==
  /\ \A p \in Pointers : p # NoPtr /\ p.block \in Blocks /\ p.client \in Clients
  /\ \A b \in Blocks, c \in Clients : [block |-> b, client |-> c] \in Pointers
BY Apart DEF Pointers

LEMMA ChosenWorker == next_worker \in Workers => NextWorker \in Workers
<1> QED
  BY Sizes DEF NextWorker, Workers

LEMMA ContextIs ==
  ASSUME ControlType, NEW t \in Threads
  PROVE  Context(t) \in Workers
<1>1. PICK n \in Nat : n = NumWorkers /\ n > 0
  BY Sizes
<1>2. (next_worker - 1) % n \in 0 .. n - 1
  BY <1>1 DEF ControlType, Workers
<1> QED
  BY <1>1, <1>2, Apart DEF Context, Workers

LEMMA TypesImplyTypeOK == Types => TypeOK
<1> SUFFICES ASSUME Types
             PROVE  TypeOK
  OBVIOUS
<1> USE DEF Types
<1>1. {running, graceful_shutdown} \subseteq BOOLEAN
  BY DEF ControlType
<1>2. thread \in [Threads ->
       [at : Steps, ptr : Pointers \cup {NoPtr}, n : 0 .. SendSpace, out : BOOLEAN,
        back : {"none", "loop", "event", "complete", "left"}]]
  BY DEF ThreadType, Place, Rests
<1>3. events \in [Workers -> Seq([ptr : Pointers \cup {NoPtr}, mask : SUBSET {"in", "out", "err"}])]
  <2> DEFINE E == [ptr : Pointers \cup {NoPtr}, mask : SUBSET {"in", "out", "err"}]
  <2>1. EventType \subseteq E
    BY DEF EventType, Exit, Event, MaskType
  <2> HIDE DEF E
  <2>2. ASSUME NEW w \in Workers
        PROVE  events[w] \in Seq(E)
    <3>1. PICK s \in Seq(EventType) : s = events[w]
      BY DEF QueueType
    <3>2. s \in [1 .. Len(s) -> E] /\ Len(s) \in Nat
      BY <2>1, LenProperties, ElementOfSeq
    <3> QED
      BY <3>1, <3>2, SeqDef
  <2> QED
    BY <2>2 DEF QueueType, E
<1>4. \A S \in {ready, closed, mixed, cut, behind, missed} : S \subseteq Clients
  BY DEF SocketsType, ClientType
<1> QED
  BY <1>1, <1>2, <1>3, <1>4
     DEF TypeOK, ControlType, QueueType, HeapType, SocketsType, ClientType, ResultType, WatchType

-----------------------------------------------------------------------------
(***************************************************************************)
(* What is read and written                                                *)
(***************************************************************************)

LEMMA SpacedIs ==
  ASSUME NEW s, Spaced(s)
  PROVE  /\ s.rx \in Seq(Unit) /\ s.out \in Seq(Unit)
         /\ Len(s.rx) \in Nat /\ Len(s.out) \in Nat /\ Room(s) \in Nat /\ Room(s) <= SendSpace
<1>1. s.rx \in Seq(Unit) /\ s.out \in Seq(Unit) /\ Len(s.out) <= SendSpace
  BY DEF Spaced, SocketType
<1>2. Len(s.rx) \in Nat /\ Len(s.out) \in Nat
  BY <1>1, LenProperties
<1>3. PICK m \in Nat, n \in Nat : m = Len(s.out) /\ n = SendSpace /\ m <= n
  BY <1>1, <1>2, Sizes
<1>4. n - m \in Nat /\ n - m <= n
  BY <1>3
<1> QED
  BY <1>1, <1>2, <1>3, <1>4 DEF Room

\* A read takes data from socket old and leaves socket s.
Reads(old, data, s) ==
  /\ Spaced(s) /\ s.fin = old.fin /\ s.err = old.err /\ s.out = old.out
  /\ data \in Seq(Unit) /\ old.rx = data \o s.rx

LEMMA TakeIs ==
  ASSUME NEW s, Spaced(s), NEW n \in Nat
  PROVE  /\ Take(s, n) \in Seq(Unit) /\ Len(Take(s, n)) \in 0 .. n
         /\ Reads(s, Take(s, n), AfterRead(s, n))
         /\ Take(s, n) = <<>> /\ n > 0 => s.rx = <<>>
<1>1. PICK rx \in Seq(Unit) : rx = s.rx
  BY SpacedIs
<1>2. PICK m \in 0 .. Len(rx) : m = Smaller(n, Len(rx)) /\ m <= n
  BY <1>1, LenProperties DEF Smaller
<1>3. /\ SubSeq(rx, 1, m) \in Seq(Unit) /\ Len(SubSeq(rx, 1, m)) = m
      /\ SubSeq(rx, m + 1, Len(rx)) \in Seq(Unit)
  BY <1>2, SubSeqProperties, LenProperties
<1>4. rx = SubSeq(rx, 1, m) \o SubSeq(rx, m + 1, Len(rx))
  BY <1>2, CutOfList
<1>5. Take(s, n) = SubSeq(rx, 1, m)
  BY <1>1, <1>2 DEF Take
<1>6. AfterRead(s, n) = [s EXCEPT !.rx = SubSeq(rx, m + 1, Len(rx))]
  BY <1>1, <1>2 DEF AfterRead, Drop
<1>7. Take(s, n) = <<>> /\ n > 0 => rx = <<>>
  <2>1. SUFFICES ASSUME Take(s, n) = <<>>, n > 0
                 PROVE  Len(rx) = 0
    BY EmptySeq
  <2>2. m = 0
    BY <1>3, <1>5, <2>1, EmptySeq
  <2> QED
    BY <1>2, <2>1, <2>2, LenProperties DEF Smaller
<1>8. Len(SubSeq(rx, 1, m)) \in 0 .. n
  BY <1>2, <1>3, LenProperties
<1>9. PICK rest \in Seq(Unit) : rest = SubSeq(rx, m + 1, Len(rx))
  BY <1>3
<1>10. AfterRead(s, n) = [s EXCEPT !.rx = rest] /\ s \in SocketType(Unit) /\ Len(s.out) <= SendSpace
  BY <1>6, <1>9 DEF Spaced
<1>11. Reads(s, Take(s, n), AfterRead(s, n))
  BY <1>1, <1>3, <1>4, <1>5, <1>9, <1>10 DEF Reads, Spaced, SocketType
<1> QED
  BY <1>1, <1>3, <1>5, <1>7, <1>8, <1>11

\* What a write puts into the socket and what it leaves of the bytes.
LEMMA PutIs ==
  ASSUME NEW s, Spaced(s), NEW bytes \in Seq(Unit)
  PROVE  /\ Put(s, bytes) \in Seq(Unit)
         /\ Len(Put(s, bytes)) \in 0 .. Len(bytes) /\ Len(Put(s, bytes)) \in 0 .. SendSpace
         /\ AfterWrite(s, bytes) = [s EXCEPT !.out = s.out \o Put(s, bytes)]
         /\ s.out \o Put(s, bytes) \in Seq(Unit)
         /\ Len(s.out \o Put(s, bytes)) <= SendSpace
         /\ Drop(bytes, Len(Put(s, bytes))) \in Seq(Unit)
         /\ bytes = Put(s, bytes) \o Drop(bytes, Len(Put(s, bytes)))
<1>1. PICK out \in Seq(Unit) : out = s.out
  BY SpacedIs
<1>2. PICK r \in Nat, l \in Nat, k \in Nat, z \in Nat :
        /\ r = Room(s) /\ l = Len(bytes) /\ k = Len(out) /\ z = SendSpace
        /\ r <= z /\ r = z - k
  <2>1. /\ Room(s) \in Nat /\ Len(bytes) \in Nat /\ Len(out) \in Nat /\ SendSpace \in Nat
        /\ Room(s) <= SendSpace
    BY <1>1, SpacedIs, LenProperties, Sizes
  <2>2. Room(s) = SendSpace - Len(out)
    BY <1>1 DEF Room
  <2> QED
    BY <2>1, <2>2
<1>3. PICK m \in 0 .. Len(bytes) : m = Smaller(r, l) /\ m <= r /\ m \in 0 .. l
  BY <1>2 DEF Smaller
<1>4. PICK p \in Seq(Unit) : p = SubSeq(bytes, 1, m) /\ Len(p) = m
  <2>1. \A i \in 1 .. m : bytes[i] \in Unit
    BY <1>2, <1>3, LenProperties
  <2>2. SubSeq(bytes, 1, m) \in Seq(Unit) /\ Len(SubSeq(bytes, 1, m)) = m
    BY <1>2, <1>3, <2>1, SubSeqProperties
  <2> QED
    BY <2>2
<1>5. Put(s, bytes) = p
  BY <1>2, <1>3, <1>4 DEF Put
<1>6. out \o p \in Seq(Unit) /\ Len(out \o p) = k + m
  BY <1>2, <1>4, ConcatProperties
<1>7. k + m <= z /\ m \in 0 .. z
  BY <1>2, <1>3
<1>8. /\ Drop(bytes, m) \in Seq(Unit)
      /\ bytes = p \o Drop(bytes, m)
  BY <1>2, <1>3, <1>4, CutOfList DEF Drop
<1> QED
  BY <1>1, <1>2, <1>3, <1>4, <1>5, <1>6, <1>7, <1>8 DEF AfterWrite

\* The first bytes of a buffer.
LEMMA BytesIs ==
  ASSUME NEW buf \in Seq(Unit), NEW n \in Nat
  PROVE  Bytes(buf, n) \in Seq(Unit) /\ Len(Bytes(buf, n)) <= n
<1>1. PICK m \in 0 .. Len(buf) : m = Smaller(n, Len(buf)) /\ m <= n
  BY LenProperties DEF Smaller
<1>2. SubSeq(buf, 1, m) \in Seq(Unit) /\ Len(SubSeq(buf, 1, m)) = m
  BY <1>1, SubSeqProperties
<1> QED
  BY <1>1, <1>2 DEF Bytes

\* The rest of a buffer, however long it is.
LEMMA DropIs ==
  ASSUME NEW buf \in Seq(Unit), NEW n \in Nat
  PROVE  Drop(buf, n) \in Seq(Unit) /\ Len(Drop(buf, n)) <= Len(buf)
<1>1. PICK l \in Nat : l = Len(buf)
  BY LenProperties
<1>2. CASE n <= l
  <2>1. SubSeq(buf, n + 1, l) \in Seq(Unit) /\ Len(SubSeq(buf, n + 1, l)) = l - n
    <3>1. n + 1 \in 1 .. l + 1 /\ (n + 1 <= l \/ n = l)
      BY <1>2
    <3> QED
      BY <1>1, <1>2, <3>1, SubSeqProperties
  <2>2. l - n <= l
    BY <1>2
  <2> QED
    BY <1>1, <2>1, <2>2 DEF Drop
<1>3. CASE ~(n <= l)
  <2>1. SubSeq(buf, n + 1, l) = <<>>
    BY <1>1, <1>3
  <2> QED
    BY <1>1, <2>1, EmptySeq DEF Drop
<1> QED
  BY <1>2, <1>3

-----------------------------------------------------------------------------
(***************************************************************************)
(* Types                                                                   *)
(***************************************************************************)

\* The places a thread comes to.
LEMMA Places ==
  /\ \A at \in Rests : Placed(Local(at))
  /\ \A l : Placed(l) => Placed(Finished(l))
  /\ \A l, step : Placed(l) /\ l.at \in ConnSteps /\ step \in ConnSteps => Placed([l EXCEPT !.at = step])
<1> USE Apart, Sizes DEF Placed, Place, Rests, Steps, ConnSteps, Local
<1>1. \A at \in Rests : Placed(Local(at))
  OBVIOUS
<1>2. ASSUME NEW l, Placed(l)
      PROVE  Placed(Finished(l))
  <2>1. CASE l.out
    <3>1. l.at \in ConnSteps
      BY <1>2, <2>1
    <3>2. Finished(l) = [l EXCEPT !.at = "out"]
      BY <2>1 DEF Finished
    <3> QED
      BY <1>2, <3>1, <3>2
  <2>2. CASE ~l.out
    <3>1. Finished(l) = Local(l.back) /\ l.back \in Rests
      BY <1>2, <2>2 DEF Finished
    <3> QED
      BY <1>1, <3>1
  <2> QED
    BY <2>1, <2>2
<1>3. ASSUME NEW l, NEW step, Placed(l), l.at \in ConnSteps, step \in ConnSteps
      PROVE  Placed([l EXCEPT !.at = step])
  BY <1>3
<1> QED
  BY <1>1, <1>2, <1>3

LEMMA ThreadSet ==
  ASSUME ThreadType, NEW t \in Threads, NEW l, Placed(l), thread' = [thread EXCEPT ![t] = l]
  PROVE  ThreadType'
<1>1. l \in Place
  BY DEF Placed
<1> QED
  BY <1>1 DEF ThreadType

\* What a thread has in hand.
LEMMA InHand ==
  ASSUME ThreadType, HeapType, NEW t \in Threads, thread[t].at \in ConnSteps
  PROVE  /\ thread[t] \in Place /\ Placed(thread[t])
         /\ thread[t].ptr \in Pointers /\ Block(t) \in Blocks
         /\ Conn(t) \in Connection /\ Fitting(Conn(t))
<1>1. thread[t] \in Place /\ Placed(thread[t]) /\ thread[t].ptr \in Pointers
  BY DEF ThreadType, Placed
<1>2. Block(t) \in Blocks
  BY <1>1, PointerParts DEF Block
<1> QED
  BY <1>1, <1>2 DEF Conn, HeapType

\* The next event of a worker, and its next completion.
LEMMA NextEvent ==
  ASSUME QueueType, NEW w \in Workers, events[w] # <<>>
  PROVE  /\ Head(events[w]) \in EventType /\ Tail(events[w]) \in Seq(EventType)
         /\ Head(events[w]) # Exit => /\ Head(events[w]).ptr \in Pointers
                                      /\ Head(events[w]).ptr.block \in Blocks
                                      /\ EventMask(w) \in MaskType
<1>1. PICK s \in Seq(EventType) : s = events[w]
  BY DEF QueueType
<1>2. Head(s) \in EventType /\ Tail(s) \in Seq(EventType)
  BY <1>1, EmptySeq, HeadTailProperties
<1>3. Head(s) # Exit => Head(s) \in [ptr : Pointers, mask : MaskType]
  BY <1>2 DEF EventType
<1> QED
  BY <1>1, <1>2, <1>3, PointerParts DEF EventMask

LEMMA NextCompletion ==
  ASSUME QueueType, NEW w \in Workers, aio_events[w] # <<>>
  PROVE  /\ Head(aio_events[w]) \in ResultType /\ Tail(aio_events[w]) \in Seq(ResultType)
         /\ Head(aio_events[w]).ptr \in Pointers /\ Head(aio_events[w]).ptr.block \in Blocks
         /\ Head(aio_events[w]).res \in Pipe .. BufSize
<1>1. PICK s \in Seq(ResultType) : s = aio_events[w]
  BY DEF QueueType
<1>2. Head(s) \in ResultType /\ Tail(s) \in Seq(ResultType)
  BY <1>1, EmptySeq, HeadTailProperties
<1> QED
  BY <1>1, <1>2, PointerParts DEF ResultType

\* A descriptor that is a client's leads to its socket.
LEMMA SocketOf ==
  ASSUME SocketsType, NEW c \in Clients
  PROVE  /\ sock[c] \in SocketType(Unit) /\ Spaced(sock[c])
         /\ sock[c].rx \in Seq(Unit) /\ sock[c].out \in Seq(Unit)
         /\ sock[c].fin \in BOOLEAN /\ sock[c].err \in BOOLEAN
BY DEF SocketsType, SocketType

LEMMA TypesInit == Init => Types
<1> SUFFICES ASSUME Init
             PROVE  Types
  OBVIOUS
<1> USE Apart, Sizes DEF Init
<1>1. ControlType
  <2>1. 0 \in Workers
    BY DEF Workers
  <2> QED
    BY <2>1 DEF ControlType
<1>2. ThreadType
  <2>1. Placed(Local("none")) /\ Local("none") \in Place
    BY Places DEF Rests, Placed
  <2> QED
    BY <2>1 DEF ThreadType
<1>3. QueueType
  BY EmptySeq DEF QueueType
<1>4. HeapType
  <2>1. Blank \in Connection /\ Fitting(Blank)
    BY EmptySeq DEF Blank, Connection, Fitting
  <2> QED
    BY <2>1 DEF HeapType
<1>5. SocketsType
  <2>1. Spaced(NewSocket)
    BY EmptySeq DEF Spaced, SocketType, NewSocket
  <2> QED
    BY <2>1 DEF SocketsType, WatchType, Spaced
<1>6. ClientType
  BY EmptySeq DEF ClientType
<1> QED
  BY <1>1, <1>2, <1>3, <1>4, <1>5, <1>6 DEF Types

\* A handler that takes up the next event.
LEMMA HandlesPlaced ==
  ASSUME ThreadType, QueueType, NEW w \in Workers, HasEvent(w),
         NEW step \in ConnSteps \cup {"done"}, Handles(w, step)
  PROVE  /\ ThreadType'
         /\ \E l : /\ thread' = [thread EXCEPT ![w] = l] /\ Placed(l)
                   /\ l.ptr \in {Head(events[w]).ptr, NoPtr}
                   /\ l.at = step \/ (step = "done" /\ l.at \in {"out", "event"})
                   /\ l.back = "event"
<1>1. /\ w \in Threads /\ thread[w] = Local("event")
      /\ Head(events[w]).ptr \in Pointers /\ EventMask(w) \in MaskType
  BY NextEvent, Apart DEF HasEvent, At, ThreadType, Placed, ConnSteps
<1>2. PICK p \in Pointers : p = Head(events[w]).ptr
  BY <1>1
<1> DEFINE l == [Local("event") EXCEPT !.ptr = p, !.out = "out" \in EventMask(w)]
<1>3. l \in Place /\ l.at = "event" /\ l.ptr = p /\ l.back = "event"
  <2>1. PICK e : e = Local("event")
    OBVIOUS
  <2>2. e \in Place /\ e.at = "event" /\ e.back = "event"
    BY <1>1, <2>1, Apart, Places DEF ThreadType, Local, Rests, Placed
  <2>3. ASSUME NEW o \in BOOLEAN
        PROVE  LET m == [e EXCEPT !.ptr = p, !.out = o] IN
                 m \in Place /\ m.at = "event" /\ m.ptr = p /\ m.back = "event"
    BY <2>2 DEF Place
  <2>4. ("out" \in EventMask(w)) \in BOOLEAN
    OBVIOUS
  <2> QED
    BY <2>1, <2>3, <2>4
<1>4. thread' = [thread EXCEPT ![w] = IF step = "done" THEN Finished(l) ELSE [l EXCEPT !.at = step]]
  BY <1>1, <1>2 DEF Handles
<1> HIDE DEF l
<1>5. ASSUME NEW s \in ConnSteps
      PROVE  Placed([l EXCEPT !.at = s])
  BY <1>3, Apart DEF Placed, Place, ConnSteps, Steps
<1>6. CASE step = "done"
  <2>1. Finished(l) = IF l.out THEN [l EXCEPT !.at = "out"] ELSE Local("event")
    BY <1>3 DEF Finished
  <2>2. /\ Placed(Finished(l)) /\ Finished(l).ptr \in {p, NoPtr} /\ Finished(l).at \in {"out", "event"}
        /\ Finished(l).back = "event"
    <3>1. CASE l.out
      BY <1>3, <1>5, <2>1, <3>1 DEF ConnSteps, Place
    <3>2. CASE ~l.out
      BY <2>1, <3>2, Places DEF Rests, Local
    <3> QED
      BY <3>1, <3>2
  <2>3. thread' = [thread EXCEPT ![w] = Finished(l)]
    BY <1>4, <1>6
  <2> QED
    BY <1>1, <1>2, <1>6, <2>2, <2>3, ThreadSet
<1>7. CASE step # "done"
  <2>1. step \in ConnSteps
    BY <1>7
  <2>2. thread' = [thread EXCEPT ![w] = [l EXCEPT !.at = step]]
    BY <1>4, <1>7
  <2>3. PICK m : m = [l EXCEPT !.at = step]
    OBVIOUS
  <2>4. Placed(m) /\ m.ptr = p /\ m.at = step /\ m.back = "event"
    BY <1>3, <1>5, <2>1, <2>3
  <2>5. thread' = [thread EXCEPT ![w] = m]
    BY <2>2, <2>3
  <2>6. ThreadType'
    BY <1>1, <2>4, <2>5, ThreadSet
  <2> QED
    <3>1. p = Head(events[w]).ptr /\ step # "done"
      BY <1>2, <1>7
    <3>2. /\ thread' = [thread EXCEPT ![w] = m] /\ Placed(m)
          /\ m.ptr \in {Head(events[w]).ptr, NoPtr}
          /\ m.at = step \/ (step = "done" /\ m.at \in {"out", "event"})
          /\ m.back = "event"
      BY <2>4, <2>5, <3>1
    <3> QED
      BY <2>6, <3>2
<1> QED
  BY <1>6, <1>7

\* A thread goes on with the connection in hand, or is done with it.
LEMMA GoesOn ==
  ASSUME ThreadType, NEW t \in Threads
  PROVE  /\ Finish(t) => ThreadType'
         /\ \A step \in ConnSteps : thread[t].at \in ConnSteps /\ Goto(t, step) => ThreadType'
<1>1. thread[t] \in Place /\ Placed(thread[t]) /\ thread \in [Threads -> Place]
  BY DEF ThreadType
<1>2. Finish(t) => ThreadType'
  <2>1. Placed(Finished(thread[t]))
    BY <1>1, Places
  <2>2. Finish(t) => thread' = [thread EXCEPT ![t] = Finished(thread[t])]
    BY <1>1 DEF Finish
  <2> QED
    BY <2>1, <2>2, ThreadSet
<1>3. ASSUME NEW step \in ConnSteps, thread[t].at \in ConnSteps, Goto(t, step)
      PROVE  ThreadType'
  <2>1. Placed([thread[t] EXCEPT !.at = step])
    BY <1>1, <1>3, Places
  <2>2. thread' = [thread EXCEPT ![t] = [thread[t] EXCEPT !.at = step]]
    BY <1>1, <1>3 DEF Goto
  <2> QED
    BY <2>1, <2>2, ThreadSet
<1> QED
  BY <1>2, <1>3

\* A thread rests.
LEMMA GoesToRest ==
  ASSUME ThreadType, NEW t \in Threads, NEW at \in Rests,
         thread' = [thread EXCEPT ![t] = Local(at)]
  PROVE  ThreadType'
BY Places, ThreadSet

\* WriteSome, which is the only one to note what it took.
LEMMA WritesSome ==
  ASSUME ThreadType, HeapType, SocketsType, NEW t \in Threads, WriteSome(t)
  PROVE  /\ Conn(t).fd \in Clients
         /\ \E n \in 0 .. SendSpace :
              /\ n = Len(Put(sock[Conn(t).fd], Conn(t).pending))
              /\ thread' = [thread EXCEPT ![t] = [thread[t] EXCEPT !.at = "settle", !.n = n]]
              /\ Placed([thread[t] EXCEPT !.at = "settle", !.n = n])
         /\ ThreadType'
<1>1. Conn(t).fd \in Clients /\ thread[t].at = "write" /\ thread \in [Threads -> Place]
  BY DEF WriteSome, Writes, Writable, At, ThreadType
<1>2. thread[t] \in Place /\ Placed(thread[t]) /\ Conn(t).pending \in Seq(Unit)
  BY <1>1, InHand DEF ConnSteps, Connection
<1>3. PICK n \in 0 .. SendSpace : n = Len(Put(sock[Conn(t).fd], Conn(t).pending))
  BY <1>1, <1>2, SocketOf, PutIs
<1>4. thread' = [thread EXCEPT ![t].at = "settle", ![t].n = n]
  BY <1>3 DEF WriteSome
<1>5. thread' = [thread EXCEPT ![t] = [thread[t] EXCEPT !.at = "settle", !.n = n]]
  BY <1>1, <1>4
<1>6. Placed([thread[t] EXCEPT !.at = "settle", !.n = n])
  BY <1>1, <1>2 DEF Placed, Place, ConnSteps, Steps
<1>7. ThreadType'
  BY <1>5, <1>6, ThreadSet
<1> QED
  BY <1>1, <1>3, <1>5, <1>6, <1>7

LEMMA ConnectionThread ==
  ASSUME ThreadType, HeapType, SocketsType, NEW t \in Threads, OnConnection(t)
  PROVE  ThreadType'
<1>1. CASE Finish(t)
  BY <1>1, GoesOn
<1>2. CASE WriteSome(t)
  BY <1>2, WritesSome
<1>3. CASE WriteAgain(t) \/ ClearWritable(t)
  <2>1. thread[t].at \in ConnSteps /\ (Goto(t, "again") \/ Goto(t, "async"))
    BY <1>3 DEF WriteAgain, ClearWritable, Writes, At, ConnSteps
  <2> QED
    BY <2>1, GoesOn DEF ConnSteps
<1>4. CASE WriteFails(t)
  <2>1. thread[t].at \in ConnSteps /\ Goto(t, "remove")
    BY <1>4 DEF WriteFails, Writes, At, ConnSteps
  <2> QED
    BY <2>1, GoesOn DEF ConnSteps
<1>5. CASE BeginRemove(t)
  <2>1. thread[t].at \in ConnSteps /\ Goto(t, "free")
    BY <1>5 DEF BeginRemove, At, ConnSteps
  <2> QED
    BY <2>1, GoesOn DEF ConnSteps
<1> QED
  BY <1>1, <1>2, <1>3, <1>4, <1>5
     DEF OnConnection, TryWrite, WriteNothing, Settle, SubmitAsyncWrite, SubmitAsyncRead,
         SubmitFails, AlreadyRemoving, EndRemove

\* The steps of a worker that take up an event.
TakesEvent(w) == HangupEvent(w) \/ OutputEvent(w) \/ ReadEvent(w) \/ ReadNothing(w)

LEMMA TakesEventIs ==
  ASSUME NEW w, TakesEvent(w)
  PROVE  HasEvent(w) /\ \E step \in ConnSteps \cup {"done"} : Handles(w, step)
<1> USE DEF ConnSteps
<1>1. CASE HangupEvent(w) \/ OutputEvent(w)
  BY <1>1 DEF HangupEvent, OutputEvent
<1>2. CASE ReadEvent(w)
  BY <1>2 DEF ReadEvent
<1>3. CASE ReadNothing(w)
  BY <1>3 DEF ReadNothing
<1> QED
  BY <1>1, <1>2, <1>3 DEF TakesEvent

LEMMA WorkerThread ==
  ASSUME Types, NEW w \in Workers, Worker(w) \/ WaitFails(w)
  PROVE  ThreadType'
<1> USE DEF Types
<1>0. w \in Threads
  BY Apart
<1>1. CASE OnConnection(w)
  BY <1>0, <1>1, ConnectionThread
<1>2. CASE TakesEvent(w)
  BY <1>2, TakesEventIs, HandlesPlaced
<1>3. CASE \E at \in Rests : thread' = [thread EXCEPT ![w] = Local(at)]
  BY <1>0, <1>3, GoesToRest
<1>4. CASE HandleOutput(w)
  <2>1. thread[w].at = "out" /\ thread \in [Threads -> Place]
    BY <1>4 DEF HandleOutput, At, ThreadType
  <2>2. thread' = [thread EXCEPT ![w] = [thread[w] EXCEPT !.at = "write", !.out = FALSE]]
    BY <1>0, <1>4, <2>1 DEF HandleOutput
  <2>3. Placed([thread[w] EXCEPT !.at = "write", !.out = FALSE])
    BY <1>0, <2>1 DEF ThreadType, Placed, Place, ConnSteps, Steps
  <2> QED
    BY <1>0, <2>2, <2>3, ThreadSet
<1>5. CASE CompleteData(w)
  <2>1. /\ thread[w].at = "complete" /\ thread \in [Threads -> Place]
        /\ aio_events[w] # <<>>
    BY <1>5 DEF CompleteData, At, ThreadType
  <2>2. PICK p \in Pointers : p = Head(aio_events[w]).ptr
    BY <2>1, NextCompletion
  <2>3. thread' = [thread EXCEPT ![w] = [thread[w] EXCEPT !.at = "write", !.ptr = p]]
    BY <1>0, <1>5, <2>1, <2>2 DEF CompleteData
  <2>4. Placed([thread[w] EXCEPT !.at = "write", !.ptr = p])
    BY <1>0, <2>1 DEF ThreadType, Placed, Place, ConnSteps, Steps
  <2> QED
    BY <1>0, <2>3, <2>4, ThreadSet
<1>6. CASE UNCHANGED thread
  BY <1>6 DEF ThreadType
<1> QED
  BY <1>1, <1>2, <1>3, <1>4, <1>5, <1>6
     DEF Worker, WaitFails, WaitForEvents, ExitEvent, TakesEvent, EventsDone, CompleteNothing,
         CompletePipe, CompletionsDone, restVars, Rests

LEMMA AcceptorThread ==
  ASSUME Types, AcceptThread \/ AcceptFails
  PROVE  ThreadType'
<1> USE DEF Types
<1>0. Acceptor \in Threads
  BY Apart
<1>1. CASE OnConnection(Acceptor)
  BY <1>0, <1>1, ConnectionThread
<1>2. CASE Refuse
  BY <1>2 DEF Refuse, ThreadType
<1>3. CASE AcceptConnection
  <2>1. thread[Acceptor].at = "loop" /\ thread \in [Threads -> Place] /\ backlog # <<>>
    BY <1>3 DEF AcceptConnection, At, ThreadType
  <2>2. Head(backlog) \in Clients
    BY <2>1, EmptySeq, HeadTailProperties DEF ClientType
  <2>3. PICK b \in Blocks : thread' = [thread EXCEPT ![Acceptor].at = "add",
                                   ![Acceptor].ptr = [block |-> b, client |-> Head(backlog)]]
    BY <1>3 DEF AcceptConnection
  <2>4. PICK p \in Pointers : p = [block |-> b, client |-> Head(backlog)]
    BY <2>2, PointerParts
  <2>5. thread' = [thread EXCEPT ![Acceptor] = [thread[Acceptor] EXCEPT !.at = "add", !.ptr = p]]
    BY <1>0, <2>1, <2>3, <2>4
  <2>6. Placed([thread[Acceptor] EXCEPT !.at = "add", !.ptr = p])
    BY <1>0, <2>1 DEF ThreadType, Placed, Place, ConnSteps, Steps
  <2> QED
    BY <1>0, <2>5, <2>6, ThreadSet
<1>4. CASE AddConnection \/ AddFails \/ SendWelcome
  <2>1. /\ thread[Acceptor].at \in ConnSteps
        /\ Goto(Acceptor, "welcome") \/ Goto(Acceptor, "write")
    BY <1>4 DEF AddConnection, AddFails, SendWelcome, At, ConnSteps
  <2> QED
    BY <1>0, <2>1, GoesOn DEF ConnSteps
<1>5. CASE AcceptorLeaves \/ AcceptFails
  <2>1. thread' = [thread EXCEPT ![Acceptor] = Local("left")]
    BY <1>5 DEF AcceptorLeaves, AcceptFails
  <2> QED
    BY <1>0, <2>1, GoesToRest DEF Rests
<1> QED
  BY <1>1, <1>2, <1>3, <1>4, <1>5 DEF AcceptThread

LEMMA ThreadStep ==
  ASSUME Types, [Next]_vars
  PROVE  ThreadType'
<1>1. CASE \E w \in Workers : Worker(w) \/ WaitFails(w)
  BY <1>1, WorkerThread
<1>2. CASE AcceptThread \/ AcceptFails
  BY <1>2, AcceptorThread
<1>3. ASSUME NEW t \in Threads, CreateThread(t)
      PROVE  ThreadType'
  <2>1. thread' = [thread EXCEPT ![t] = Local("loop")]
    BY <1>3 DEF CreateThread
  <2> QED
    BY <2>1, GoesToRest DEF Types, Rests
<1>4. CASE UNCHANGED thread
  BY <1>4 DEF ThreadType, Types
<1> QED
  BY <1>1, <1>2, <1>3, <1>4
     DEF Next, Main, StartFails, JoinThreads, StopReturns, Stop, Signal, Client, Connect,
         ClientSend, ClientReceive, ClientFin, ClientReset, OnSocket, vars

LEMMA ControlStep ==
  ASSUME Types, [Next]_vars
  PROVE  ControlType'
<1> USE DEF Types, ControlType, mainVars, otherVars, restVars
<1>1. CASE \E w \in Workers : Worker(w) \/ WaitFails(w)
  <2>1. PICK w \in Workers : Worker(w) \/ WaitFails(w)
    BY <1>1
  <2>2. CASE OnConnection(w)
    BY <2>2 DEF OnConnection, TryWrite, WriteNothing, WriteSome, Settle, WriteAgain,
                ClearWritable, WriteFails, SubmitAsyncWrite, SubmitAsyncRead, SubmitFails,
                BeginRemove, AlreadyRemoving, EndRemove
  <2> QED
    BY <2>1, <2>2 DEF Worker, WaitFails, WaitForEvents, ExitEvent, HangupEvent, OutputEvent,
                      ReadEvent, ReadNothing, HandleOutput, EventsDone, CompleteData,
                      CompleteNothing, CompletePipe, CompletionsDone
<1>2. CASE AcceptThread \/ AcceptFails
  <2>1. CASE OnConnection(Acceptor)
    BY <2>1 DEF OnConnection, TryWrite, WriteNothing, WriteSome, Settle, WriteAgain,
                ClearWritable, WriteFails, SubmitAsyncWrite, SubmitAsyncRead, SubmitFails,
                BeginRemove, AlreadyRemoving, EndRemove
  <2>2. CASE AcceptConnection \/ Refuse
    BY <2>2, ChosenWorker DEF AcceptConnection, Refuse
  <2> QED
    BY <1>2, <2>1, <2>2 DEF AcceptThread, AcceptFails, AddConnection, AddFails, SendWelcome,
                            AcceptorLeaves
<1>3. CASE Main \/ Signal
  BY <1>3 DEF Main, CreateThread, StartFails, JoinThreads, StopReturns, Stop, Signal, serverVars
<1>4. CASE \E c \in Clients : Client(c)
  BY <1>4 DEF Client, Connect, ClientSend, ClientReceive, ClientFin, ClientReset, OnSocket
<1>5. CASE UNCHANGED vars
  BY <1>5 DEF vars
<1> QED
  BY <1>1, <1>2, <1>3, <1>4, <1>5 DEF Next

-----------------------------------------------------------------------------
(***************************************************************************)
(* The queues                                                              *)
(***************************************************************************)

Submits(t) == SubmitAsyncWrite(t) \/ SubmitAsyncRead(t)

TakesCompletion(w) == CompleteData(w) \/ CompleteNothing(w) \/ CompletePipe(w)

LEMMA QueueMoves ==
  ASSUME [Next]_vars
  PROVE  \/ UNCHANGED queueVars
         \/ \E t \in Threads : Submits(t)
         \/ \E w \in Workers : WaitForEvents(w) \/ ExitEvent(w) \/ TakesEvent(w) \/ EventsDone(w)
                               \/ TakesCompletion(w) \/ CompletionsDone(w)
<1> USE DEF queueVars
<1>0. ASSUME NEW t \in Threads, OnConnection(t), ~Submits(t)
      PROVE  UNCHANGED queueVars
  BY <1>0 DEF OnConnection, Submits, TryWrite, WriteNothing, WriteSome, Settle, WriteAgain,
              ClearWritable, WriteFails, SubmitFails, BeginRemove, AlreadyRemoving, EndRemove,
              restVars
<1>1. CASE \E w \in Workers : Worker(w) \/ WaitFails(w)
  <2>1. PICK w \in Workers : Worker(w) \/ WaitFails(w)
    BY <1>1
  <2>2. CASE OnConnection(w)
    BY <1>0, <2>2, Apart
  <2> QED
    BY <2>1, <2>2 DEF Worker, WaitFails, HandleOutput, TakesEvent, TakesCompletion, restVars
<1>2. CASE AcceptThread \/ AcceptFails
  <2>1. CASE OnConnection(Acceptor)
    BY <1>0, <2>1, Apart
  <2> QED
    BY <1>2, <2>1 DEF AcceptThread, AcceptFails, Refuse, AcceptConnection, AddConnection, AddFails,
                      SendWelcome, AcceptorLeaves, restVars
<1>3. CASE Main \/ Signal
  BY <1>3 DEF Main, CreateThread, StartFails, JoinThreads, StopReturns, Stop, Signal, serverVars
<1>4. CASE \E c \in Clients : Client(c)
  BY <1>4 DEF Client, Connect, ClientSend, ClientReceive, ClientFin, ClientReset, OnSocket
<1>5. CASE UNCHANGED vars
  BY <1>5 DEF vars, restVars
<1> QED
  BY <1>1, <1>2, <1>3, <1>4, <1>5 DEF Next

\* A submission: who makes it, and its result.
LEMMA SubmitsIs ==
  ASSUME Types, NEW t \in Threads, Submits(t)
  PROVE  /\ thread[t].at \in {"async", "async_read"} /\ Conn(t).fd \in Clients
         /\ thread[t].ptr \in Pointers /\ Block(t) \in Blocks
         /\ \E res \in Pipe .. BufSize :
              Submitted(t, res) /\ (SubmitAsyncWrite(t) /\ res > 0 => Conn(t).fd \in mixed')
         /\ UNCHANGED <<events, aio_events>>
<1> USE DEF Types
<1>1. /\ thread[t].at \in {"async", "async_read"} /\ Conn(t).fd \in Clients
      /\ UNCHANGED <<events, aio_events>>
  BY DEF Submits, SubmitAsyncWrite, SubmitAsyncRead, At
<1>2. /\ thread[t].ptr \in Pointers /\ Block(t) \in Blocks
      /\ Conn(t).pending \in Seq(Unit) /\ Len(Conn(t).pending) < BufSize
  BY <1>1, InHand DEF ConnSteps, Fitting, Connection
<1>3. PICK c \in Clients : c = Conn(t).fd
  BY <1>1
<1>4. PICK N \in Nat : N = BufSize /\ N > 1
  BY Sizes
<1>5. {ErrorOf(sock[c]), Again, 0} \subseteq Pipe .. BufSize
  BY <1>4, Sizes DEF ErrorOf
<1>6. CASE SubmitAsyncWrite(t)
  <2>1. PICK n \in Nat : n = Len(Put(sock[c], Conn(t).pending)) /\ n < N
    <3>1. Spaced(sock[c])
      BY SocketOf
    <3>2. PICK m \in Nat : m = Len(Conn(t).pending) /\ m < N
      BY <1>2, <1>4, LenProperties
    <3>3. Len(Put(sock[c], Conn(t).pending)) \in 0 .. m
      BY <1>2, <3>1, <3>2, PutIs
    <3> QED
      BY <3>2, <3>3
  <2>2. Submitted(t, IF sock[c].err THEN ErrorOf(sock[c])
                     ELSE IF n = 0 /\ Conn(t).pending # <<>> THEN Again ELSE n)
    BY <1>3, <1>6, <2>1 DEF SubmitAsyncWrite
  <2>3. PICK res \in Pipe .. BufSize :
          /\ Submitted(t, res)
          /\ res > 0 => n > 0
    <3>1. n \in Pipe .. BufSize
      BY <1>4, <2>1, Sizes
    <3>2. ~(ErrorOf(sock[c]) > 0) /\ ~(Again > 0)
      BY Sizes DEF ErrorOf
    <3>3. CASE sock[c].err
      BY <1>5, <2>2, <3>2, <3>3
    <3>4. CASE ~sock[c].err /\ n = 0 /\ Conn(t).pending # <<>>
      BY <1>5, <2>2, <3>2, <3>4
    <3>5. CASE ~sock[c].err /\ ~(n = 0 /\ Conn(t).pending # <<>>)
      BY <2>2, <3>1, <3>5
    <3> QED
      BY <3>3, <3>4, <3>5
  <2>4. n > 0 => c \in mixed'
    BY <1>3, <1>6, <2>1 DEF SubmitAsyncWrite, Mix
  <2> QED
    BY <1>1, <1>2, <1>3, <2>3, <2>4
<1>7. CASE SubmitAsyncRead(t)
  <2>1. PICK n \in Nat : n = Len(Take(sock[c], BufSize - 1)) /\ n <= N - 1
    <3>1. N - 1 \in Nat
      BY <1>4
    <3> QED
      BY <1>4, <3>1, SocketOf, TakeIs
  <2>2. Submitted(t, IF Take(sock[c], BufSize - 1) # <<>> THEN Len(Take(sock[c], BufSize - 1))
                     ELSE IF sock[c].err THEN ErrorOf(sock[c])
                     ELSE IF sock[c].fin THEN 0 ELSE Again)
    BY <1>3, <1>7 DEF SubmitAsyncRead
  <2>3. n \in Pipe .. BufSize
    BY <1>4, <2>1, Sizes
  <2>4. ~SubmitAsyncWrite(t)
    BY <1>7 DEF SubmitAsyncWrite, SubmitAsyncRead, At
  <2> QED
    BY <1>1, <1>2, <1>5, <2>1, <2>2, <2>3, <2>4
<1> QED
  BY <1>6, <1>7 DEF Submits

\* What epoll_wait has to return.
LEMMA ReadyEvents ==
  ASSUME Types, NEW w \in Workers
  PROVE  LET S == {EventOf(c) : c \in Ready(w)} \cup (IF graceful_shutdown THEN {Exit} ELSE {})
         IN  /\ S \subseteq EventType
             /\ Orders(S) \subseteq Seq(S) /\ Orders(S) \subseteq Seq(EventType)
             /\ \A s \in Orders(S) : Range(s) = S /\ IsInjective(s)
<1> DEFINE S == {EventOf(c) : c \in Ready(w)} \cup (IF graceful_shutdown THEN {Exit} ELSE {})
<1>1. ASSUME NEW c \in Ready(w)
      PROVE  EventOf(c) \in EventType
  <2>1. c \in Clients /\ watched[c].worker = w
    BY DEF Ready, Types, SocketsType
  <2>2. watched[c].block \in Blocks
    BY <2>1, Apart DEF Types, SocketsType, WatchType, NoWatch
  <2>3. Mask(sock[c]) \in MaskType
    BY DEF Mask, Poll, MaskType
  <2>4. [block |-> watched[c].block, client |-> c] \in Pointers
    BY <2>1, <2>2, PointerParts
  <2> QED
    BY <2>3, <2>4 DEF EventOf, Event, EventType
<1>2. S \subseteq EventType
  BY <1>1 DEF EventType
<1>3. IsFiniteSet(S)
  <2>1. IsFiniteSet(Clients)
    BY Sizes, FS_Interval DEF Clients
  <2>2. Ready(w) \subseteq Clients
    BY DEF Ready, Types, SocketsType
  <2>3. IsFiniteSet(Ready(w))
    BY <2>1, <2>2, FS_Subset
  <2>4. IsFiniteSet({EventOf(c) : c \in Ready(w)})
    <3> DEFINE f == [c \in Ready(w) |-> EventOf(c)]
    <3>1. f \in Surjection(Ready(w), {EventOf(c) : c \in Ready(w)})
      BY DEF Surjection
    <3> QED
      BY <2>3, <3>1, FS_Surjection
  <2>5. IsFiniteSet({Exit}) /\ IsFiniteSet({})
    BY FS_Singleton, FS_EmptySet
  <2> QED
    BY <2>4, <2>5, FS_Union
<1> HIDE DEF S
<1>4. Cardinality(S) \in Nat
  BY <1>3, FS_CardinalityType
<1>5. ASSUME NEW s \in Orders(S)
      PROVE  s \in Seq(S) /\ s \in Seq(EventType) /\ Range(s) = S /\ IsInjective(s)
  <2>1. s \in [1 .. Cardinality(S) -> S] /\ \A x \in S : \E i \in DOMAIN s : s[i] = x
    BY DEF Orders
  <2>2. s \in Surjection(1 .. Cardinality(S), S)
    BY <2>1 DEF Surjection
  <2>3. s \in Seq(S) /\ s \in Seq(EventType)
    BY <1>2, <1>4, <2>1, SeqDef
  <2>4. Range(s) = S
    BY <2>1 DEF Range
  <2>5. s \in Injection(1 .. Cardinality(S), S)
    <3>1. IsFiniteSet(1 .. Cardinality(S)) /\ Cardinality(1 .. Cardinality(S)) = Cardinality(S)
      BY <1>4, FS_Interval
    <3> QED
      BY <1>3, <2>2, <3>1, FS_SurjSameCardinalityImpliesInj
  <2>6. IsInjective(s)
    BY <2>5 DEF Injection
  <2> QED
    BY <2>3, <2>4, <2>6
<1> QED
  BY <1>2, <1>5 DEF S

\* A completion goes into an AIO context.
LEMMA AppendResult ==
  ASSUME QueueType, NEW w \in Workers, NEW r \in ResultType,
         aio_ctx' = [aio_ctx EXCEPT ![w] = Append(@, r)]
  PROVE  aio_ctx' \in [Workers -> Seq(ResultType)]
<1>1. PICK s \in Seq(ResultType) : s = aio_ctx[w]
  BY DEF QueueType
<1>2. PICK q \in Seq(ResultType) : q = Append(s, r)
  BY AppendProperties
<1>3. aio_ctx' = [aio_ctx EXCEPT ![w] = q]
  BY <1>1, <1>2
<1> QED
  BY <1>3 DEF QueueType

LEMMA QueueStep ==
  ASSUME Types, [Next]_vars
  PROVE  QueueType'
<1> USE DEF Types
<1>0. /\ events \in [Workers -> Seq(EventType)] /\ aio_ctx \in [Workers -> Seq(ResultType)]
      /\ aio_events \in [Workers -> Seq(ResultType)]
      /\ <<>> \in Seq(EventType) /\ <<>> \in Seq(ResultType)
  BY EmptySeq DEF QueueType
<1>1. CASE UNCHANGED queueVars
  BY <1>1 DEF QueueType, queueVars
<1>2. ASSUME NEW t \in Threads, Submits(t)
      PROVE  QueueType'
  <2>1. PICK res \in Pipe .. BufSize : Submitted(t, res)
    BY <1>2, SubmitsIs
  <2>2. PICK r \in ResultType : r = [ptr |-> thread[t].ptr, res |-> res]
    BY <1>2, SubmitsIs DEF ResultType
  <2>3. PICK v \in Workers : v = Context(t)
    BY ContextIs
  <2>4. aio_ctx' = [aio_ctx EXCEPT ![v] = Append(@, r)]
    BY <2>1, <2>2, <2>3 DEF Submitted
  <2>5. aio_ctx' \in [Workers -> Seq(ResultType)]
    BY <2>4, AppendResult
  <2> QED
    BY <1>0, <1>2, <2>5, SubmitsIs DEF QueueType
<1>3. ASSUME NEW w \in Workers, WaitForEvents(w)
      PROVE  QueueType'
  <2>1. PICK list \in Seq(EventType) : events' = [events EXCEPT ![w] = list]
    BY <1>3, ReadyEvents DEF WaitForEvents
  <2> QED
    BY <1>0, <1>3, <2>1 DEF WaitForEvents, QueueType
<1>4. ASSUME NEW w \in Workers, ExitEvent(w)
      PROVE  QueueType'
  BY <1>0, <1>4 DEF ExitEvent, QueueType
<1>5. ASSUME NEW w \in Workers, TakesEvent(w)
      PROVE  QueueType'
  <2>1. /\ events[w] # <<>> /\ events' = [events EXCEPT ![w] = Tail(@)]
        /\ UNCHANGED <<aio_ctx, aio_events>>
    BY <1>5 DEF TakesEvent, HangupEvent, OutputEvent, ReadEvent, ReadNothing, HasEvent, Handles
  <2>2. Tail(events[w]) \in Seq(EventType)
    BY <2>1, NextEvent
  <2> QED
    BY <1>0, <2>1, <2>2 DEF QueueType
<1>6. ASSUME NEW w \in Workers, EventsDone(w)
      PROVE  QueueType'
  BY <1>0, <1>6 DEF EventsDone, QueueType
<1>7. ASSUME NEW w \in Workers, TakesCompletion(w)
      PROVE  QueueType'
  <2>1. /\ aio_events[w] # <<>> /\ aio_events' = [aio_events EXCEPT ![w] = Tail(@)]
        /\ UNCHANGED <<aio_ctx, events>>
    BY <1>7 DEF TakesCompletion, CompleteData, CompleteNothing, CompletePipe
  <2>2. Tail(aio_events[w]) \in Seq(ResultType)
    BY <2>1, NextCompletion
  <2> QED
    BY <1>0, <2>1, <2>2 DEF QueueType
<1>8. ASSUME NEW w \in Workers, CompletionsDone(w)
      PROVE  QueueType'
  BY <1>0, <1>8 DEF CompletionsDone, QueueType
<1> QED
  BY <1>1, <1>2, <1>3, <1>4, <1>5, <1>6, <1>7, <1>8, QueueMoves

-----------------------------------------------------------------------------
(***************************************************************************)
(* The heap                                                                *)
(***************************************************************************)

\* The steps that change what a connection holds and not whose it is.
FillsBuffer(t) == Settle(t) \/ ClearWritable(t) \/ SubmitAsyncRead(t)

WorkerFills(w) == ReadEvent(w) \/ HandleOutput(w) \/ CompleteData(w)

LEMMA HeapMoves ==
  ASSUME [Next]_vars
  PROVE  \/ UNCHANGED connVars
         \/ \E t \in Threads : FillsBuffer(t) \/ BeginRemove(t) \/ EndRemove(t)
         \/ \E w \in Workers : WorkerFills(w) \/ CompletePipe(w)
         \/ AcceptConnection \/ AddConnection \/ AddFails \/ SendWelcome \/ Stop
<1> USE DEF connVars
<1>0. ASSUME NEW t \in Threads, OnConnection(t), ~FillsBuffer(t), ~BeginRemove(t), ~EndRemove(t)
      PROVE  UNCHANGED connVars
  BY <1>0 DEF OnConnection, FillsBuffer, TryWrite, WriteNothing, WriteSome, WriteAgain, WriteFails,
              SubmitAsyncWrite, SubmitFails, AlreadyRemoving, restVars
<1>1. CASE \E w \in Workers : Worker(w) \/ WaitFails(w)
  <2>1. PICK w \in Workers : Worker(w) \/ WaitFails(w)
    BY <1>1
  <2>2. CASE OnConnection(w)
    BY <1>0, <2>2, Apart
  <2> QED
    BY <2>1, <2>2 DEF Worker, WaitFails, WaitForEvents, ExitEvent, HangupEvent, OutputEvent,
                      ReadNothing, EventsDone, CompleteNothing, CompletionsDone, WorkerFills,
                      restVars
<1>2. CASE AcceptThread \/ AcceptFails
  <2>1. CASE OnConnection(Acceptor)
    BY <1>0, <2>1, Apart
  <2> QED
    BY <1>2, <2>1 DEF AcceptThread, AcceptFails, Refuse, AcceptorLeaves, restVars
<1>3. CASE Main \/ Signal
  BY <1>3 DEF Main, CreateThread, StartFails, JoinThreads, StopReturns, Signal, serverVars
<1>4. CASE \E c \in Clients : Client(c)
  BY <1>4 DEF Client, Connect, ClientSend, ClientReceive, ClientFin, ClientReset, OnSocket
<1>5. CASE UNCHANGED vars
  BY <1>5 DEF vars, restVars
<1> QED
  BY <1>1, <1>2, <1>3, <1>4, <1>5 DEF Next

\* The connection is the same one.
SameConn(conn, old) ==
  conn.fd = old.fd /\ conn.client = old.client /\ conn.is_removing = old.is_removing

LEMMA SettleIs ==
  ASSUME Types, NEW t \in Threads, Settle(t)
  PROVE  /\ Block(t) \in Blocks
         /\ \E conn : /\ heap' = [heap EXCEPT ![Block(t)] = conn]
                      /\ Fitting(conn) /\ SameConn(conn, Conn(t))
                      /\ conn.pending = Drop(Conn(t).pending, thread[t].n)
                      /\ conn.wrapped = (Conn(t).wrapped \/ thread[t].n > Len(Conn(t).pending))
<1>1. thread[t].at \in ConnSteps /\ heap \in [Blocks -> Connection]
  BY DEF Settle, At, ConnSteps, Types, HeapType
<1>2. Block(t) \in Blocks /\ Conn(t) \in Connection /\ Fitting(Conn(t)) /\ thread[t].n \in Nat
  BY <1>1, InHand, Sizes DEF Types, Place
<1>3. PICK q \in Seq(Unit) : q = Drop(Conn(t).pending, thread[t].n) /\ Len(q) <= Len(Conn(t).pending)
  BY <1>2, DropIs DEF Connection
<1>4. PICK o \in BOOLEAN : o = (Conn(t).wrapped \/ thread[t].n > Len(Conn(t).pending))
  BY <1>2 DEF Connection
<1>5. PICK conn : conn = [Conn(t) EXCEPT !.pending = q, !.wrapped = o]
  OBVIOUS
<1>6. heap' = [heap EXCEPT ![Block(t)] = conn]
  BY <1>1, <1>2, <1>3, <1>4, <1>5 DEF Settle, Left, Conn, Connection
<1>7. conn \in Connection /\ SameConn(conn, Conn(t)) /\ conn.pending = q /\ conn.wrapped = o
  BY <1>2, <1>5 DEF Connection, SameConn
<1>8. Len(q) < BufSize
  <2>1. PICK m \in Nat, n \in Nat, l \in Nat : m = Len(q) /\ n = Len(Conn(t).pending) /\ l = BufSize
    BY <1>2, LenProperties, Sizes DEF Connection
  <2>2. m <= n /\ n < l
    BY <1>2, <1>3, <2>1 DEF Fitting
  <2> QED
    BY <2>1, <2>2
<1> QED
  BY <1>2, <1>3, <1>4, <1>6, <1>7, <1>8 DEF Fitting

LEMMA FillsIs ==
  ASSUME Types, NEW t \in Threads, FillsBuffer(t)
  PROVE  /\ Block(t) \in Blocks /\ UNCHANGED <<allocated, connections>>
         /\ \E conn : /\ heap' = [heap EXCEPT ![Block(t)] = conn]
                      /\ Fitting(conn) /\ SameConn(conn, Conn(t))
                      /\ ~Settle(t) => conn.pending = Conn(t).pending /\ conn.wrapped = Conn(t).wrapped
<1>1. thread[t].at \in ConnSteps /\ heap \in [Blocks -> Connection] /\ UNCHANGED <<allocated, connections>>
  BY DEF FillsBuffer, Settle, ClearWritable, SubmitAsyncRead, At, ConnSteps, Types, HeapType
<1>2. Block(t) \in Blocks /\ Conn(t) \in Connection /\ Fitting(Conn(t))
  BY <1>1, InHand DEF Types
<1>3. CASE Settle(t)
  BY <1>1, <1>2, <1>3, SettleIs
<1>4. CASE ClearWritable(t)
  <2>1. heap' = [heap EXCEPT ![Block(t)] = [Conn(t) EXCEPT !.writable = FALSE]]
    BY <1>1, <1>2, <1>4 DEF ClearWritable, Conn
  <2>2. PICK conn : conn = [Conn(t) EXCEPT !.writable = FALSE]
    OBVIOUS
  <2>3. /\ Fitting(conn) /\ SameConn(conn, Conn(t))
        /\ conn.pending = Conn(t).pending /\ conn.wrapped = Conn(t).wrapped
    BY <1>2, <2>2 DEF Fitting, SameConn, Connection
  <2> QED
    BY <1>1, <1>2, <2>1, <2>2, <2>3
<1>5. CASE SubmitAsyncRead(t)
  <2>1. PICK data \in Seq(Unit) : data = Take(sock[Conn(t).fd], BufSize - 1)
    <3>1. BufSize - 1 \in Nat
      BY Sizes
    <3> QED
      BY <1>5, <3>1, SocketOf, TakeIs DEF SubmitAsyncRead, Types
  <2>2. PICK conn : conn = IF data = <<>> THEN Conn(t) ELSE [Conn(t) EXCEPT !.read_buf = data]
    OBVIOUS
  <2>3. heap' = [heap EXCEPT ![Block(t)] = conn]
    <3>1. CASE data = <<>>
      <4>1. heap' = heap /\ conn = heap[Block(t)]
        BY <1>5, <2>1, <2>2, <3>1 DEF SubmitAsyncRead, Conn
      <4> QED
        BY <1>1, <4>1
    <3>2. CASE data # <<>>
      <4>1. heap' = [heap EXCEPT ![Block(t)].read_buf = data]
        BY <1>5, <2>1, <3>2 DEF SubmitAsyncRead
      <4> QED
        BY <1>1, <1>2, <2>2, <3>2, <4>1 DEF Conn
    <3> QED
      BY <3>1, <3>2
  <2>4. /\ Fitting(conn) /\ SameConn(conn, Conn(t))
        /\ conn.pending = Conn(t).pending /\ conn.wrapped = Conn(t).wrapped
    BY <1>2, <2>1, <2>2 DEF Fitting, SameConn, Connection
  <2> QED
    BY <1>1, <1>2, <2>3, <2>4
<1> QED
  BY <1>3, <1>4, <1>5 DEF FillsBuffer

\* mt_process_data keeps a reply that fits, and a connection that is the same one.
LEMMA ReplyIs ==
  ASSUME NEW conn, Fitting(conn), NEW data \in Seq(Unit), NEW len \in Nat, Len(data) <= len
  PROVE  /\ Fitting(Reply(conn, data, len)) /\ SameConn(Reply(conn, data, len), conn)
         /\ \/ /\ Reply(conn, data, len).pending = data
               /\ ~Reply(conn, data, len).wrapped
            \/ /\ Reply(conn, data, len).pending = conn.pending
               /\ Reply(conn, data, len).wrapped = conn.wrapped
<1>1. CASE Prefix + len < BufSize
  <2>1. Reply(conn, data, len) = [conn EXCEPT !.pending = data, !.wrapped = FALSE]
    BY <1>1 DEF Reply
  <2>2. Len(data) < BufSize
    <3>1. PICK p \in Nat, z \in Nat, l \in Nat : p = Prefix /\ z = BufSize /\ l = Len(data)
      BY Sizes, LenProperties
    <3>2. p + len < z /\ l <= len
      BY <1>1, <3>1
    <3>3. l < z
      BY <3>1, <3>2
    <3> QED
      BY <3>1, <3>3
  <2> QED
    BY <2>1, <2>2 DEF Fitting, SameConn, Connection
<1>2. CASE ~(Prefix + len < BufSize)
  BY <1>2 DEF Reply, SameConn
<1> QED
  BY <1>1, <1>2

\* What a read of the worker does.
LEMMA ReadEventIs ==
  ASSUME Types, NEW w \in Workers, ReadEvent(w)
  PROVE  /\ Head(events[w]).ptr.block \in Blocks /\ EventConn(w).fd \in Clients
         /\ \E data, s, conn :
              /\ Reads(sock[EventConn(w).fd], data, s)
              /\ sock' = [sock EXCEPT ![EventConn(w).fd] = s]
              /\ heap' = [heap EXCEPT ![Head(events[w]).ptr.block] = conn]
              /\ Fitting(conn) /\ SameConn(conn, EventConn(w))
              /\ \/ conn.pending = data /\ ~conn.wrapped
                 \/ conn.pending = EventConn(w).pending /\ conn.wrapped = EventConn(w).wrapped
<1>1. /\ events[w] # <<>> /\ Head(events[w]) # Exit /\ EventConn(w).fd \in Clients
      /\ heap \in [Blocks -> Connection] /\ sock \in [Clients -> SocketType(Unit)]
  BY DEF ReadEvent, HasEvent, Readable, Types, HeapType, SocketsType
<1>2. PICK b \in Blocks : b = Head(events[w]).ptr.block
  BY <1>1, NextEvent DEF Types
<1>3. PICK c \in Clients : c = EventConn(w).fd
  BY <1>1
<1>4. EventConn(w) = heap[b] /\ Fitting(heap[b]) /\ heap[b] \in Connection
  BY <1>2 DEF EventConn, Types, HeapType, Fitting
<1>5. PICK n \in Nat : n = BufSize - 1
  BY Sizes
<1>6. PICK data \in Seq(Unit) : data = Take(sock[c], n) /\ Reads(sock[c], data, AfterRead(sock[c], n))
  BY <1>3, SocketOf, TakeIs DEF Types
<1>7. PICK s : s = AfterRead(sock[c], n) /\ sock' = [sock EXCEPT ![c] = s]
  BY <1>1, <1>3, <1>5 DEF ReadEvent
<1>8. PICK l \in Nat : l = Len(data)
  BY LenProperties
<1>9. PICK old : old = [heap[b] EXCEPT !.read_buf = data]
  OBVIOUS
<1>10. /\ Fitting(old) /\ SameConn(old, heap[b])
       /\ old.pending = heap[b].pending /\ old.wrapped = heap[b].wrapped
  BY <1>4, <1>9 DEF Fitting, SameConn, Connection
<1>11. PICK conn : conn = Reply(old, data, l)
  OBVIOUS
<1>12. heap' = [heap EXCEPT ![b] = conn]
  BY <1>1, <1>2, <1>3, <1>5, <1>6, <1>8, <1>9, <1>11 DEF ReadEvent
<1>13. /\ Fitting(conn) /\ SameConn(conn, heap[b])
       /\ \/ conn.pending = data /\ ~conn.wrapped
          \/ conn.pending = heap[b].pending /\ conn.wrapped = heap[b].wrapped
  <2>1. l <= l /\ Len(data) <= l
    BY <1>8
  <2> QED
    BY <1>10, <1>11, <2>1, ReplyIs DEF SameConn
<1> QED
  BY <1>1, <1>2, <1>3, <1>4, <1>6, <1>7, <1>12, <1>13

\* The block a worker's step fills.
FilledBlock(w) ==
  IF At(w, "event") THEN Head(events[w]).ptr.block
  ELSE IF At(w, "complete") THEN Head(aio_events[w]).ptr.block ELSE Block(w)

LEMMA WorkerFillsIs ==
  ASSUME Types, NEW w \in Workers, WorkerFills(w)
  PROVE  /\ FilledBlock(w) \in Blocks /\ UNCHANGED <<allocated, connections>>
         /\ \E conn : /\ heap' = [heap EXCEPT ![FilledBlock(w)] = conn]
                      /\ Fitting(conn) /\ SameConn(conn, heap[FilledBlock(w)])
                      /\ conn.wrapped => heap[FilledBlock(w)].wrapped
<1>0. /\ w \in Threads /\ heap \in [Blocks -> Connection]
      /\ \A b \in Blocks : heap[b] \in Connection /\ Fitting(heap[b])
      /\ UNCHANGED <<allocated, connections>>
  BY Apart DEF Types, HeapType, WorkerFills, ReadEvent, HandleOutput, CompleteData
<1>1. CASE ReadEvent(w)
  <2>1. FilledBlock(w) = Head(events[w]).ptr.block
    BY <1>1 DEF ReadEvent, HasEvent, FilledBlock
  <2>2. PICK b \in Blocks : b = FilledBlock(w) /\ EventConn(w) = heap[b]
    BY <1>1, <2>1, ReadEventIs DEF EventConn
  <2>3. PICK conn : /\ heap' = [heap EXCEPT ![b] = conn]
                    /\ Fitting(conn) /\ SameConn(conn, heap[b])
                    /\ ~conn.wrapped \/ conn.wrapped = heap[b].wrapped
    BY <1>1, <2>1, <2>2, ReadEventIs
  <2> QED
    BY <1>0, <2>2, <2>3
<1>2. CASE HandleOutput(w)
  <2>1. thread[w].at \in ConnSteps /\ FilledBlock(w) = Block(w)
    BY <1>2 DEF HandleOutput, At, ConnSteps, FilledBlock
  <2>2. Block(w) \in Blocks
    BY <1>0, <2>1, InHand DEF Types
  <2>3. PICK conn : conn = [heap[Block(w)] EXCEPT !.writable = TRUE]
    OBVIOUS
  <2>4. heap' = [heap EXCEPT ![Block(w)] = conn]
    BY <1>0, <1>2, <2>2, <2>3 DEF HandleOutput
  <2>5. Fitting(conn) /\ SameConn(conn, heap[Block(w)]) /\ conn.wrapped = heap[Block(w)].wrapped
    BY <1>0, <2>2, <2>3 DEF Fitting, SameConn, Connection
  <2> QED
    BY <1>0, <2>1, <2>2, <2>4, <2>5
<1>3. CASE CompleteData(w)
  <2>1. /\ FilledBlock(w) = Head(aio_events[w]).ptr.block
        /\ aio_events[w] # <<>> /\ Head(aio_events[w]).res > 0
    BY <1>3 DEF CompleteData, At, FilledBlock
  <2>2. PICK b \in Blocks, n \in Nat : b = FilledBlock(w) /\ n = Head(aio_events[w]).res
    <3>1. Head(aio_events[w]).ptr.block \in Blocks /\ Head(aio_events[w]).res \in Pipe .. BufSize
      BY <2>1, NextCompletion DEF Types
    <3>2. Head(aio_events[w]).res \in Nat
      BY <2>1, <3>1, Sizes
    <3> QED
      BY <2>1, <3>1, <3>2
  <2>3. PICK data \in Seq(Unit) : data = Bytes(heap[b].read_buf, n) /\ Len(data) <= n
    BY <1>0, BytesIs DEF Connection
  <2>4. PICK conn : conn = Reply(heap[b], data, n)
    OBVIOUS
  <2>5. heap' = [heap EXCEPT ![b] = conn]
    BY <1>0, <1>3, <2>1, <2>2, <2>3, <2>4 DEF CompleteData
  <2>6. Fitting(conn) /\ SameConn(conn, heap[b]) /\ (conn.wrapped => heap[b].wrapped)
    BY <1>0, <2>3, <2>4, ReplyIs
  <2> QED
    BY <1>0, <2>2, <2>5, <2>6
<1> QED
  BY <1>1, <1>2, <1>3 DEF WorkerFills

\* One block gets a new content.
LEMMA HeapSet ==
  ASSUME HeapType, NEW b \in Blocks, NEW conn, Fitting(conn), heap' = [heap EXCEPT ![b] = conn],
         UNCHANGED <<allocated, connections>>
  PROVE  HeapType'
<1>1. heap' \in [Blocks -> Connection] /\ \A d \in Blocks : Fitting(heap'[d])
  BY DEF HeapType, Fitting
<1> QED
  BY <1>1 DEF HeapType, Fitting

\* The remover marks the connection and closes its descriptor.
Removed(conn, old) ==
  /\ conn.fd = None /\ conn.is_removing /\ conn.client = old.client
  /\ conn.pending = old.pending /\ conn.wrapped = old.wrapped

LEMMA BeginRemoveIs ==
  ASSUME Types, NEW t \in Threads, BeginRemove(t)
  PROVE  /\ Block(t) \in Blocks /\ thread[t].at = "remove" /\ ~Conn(t).is_removing
         /\ \E conn : /\ heap' = [heap EXCEPT ![Block(t)] = conn]
                      /\ Fitting(conn) /\ Removed(conn, Conn(t))
<1>1. /\ thread[t].at = "remove" /\ ~Conn(t).is_removing /\ heap \in [Blocks -> Connection]
  BY DEF BeginRemove, At, MayRemove, Types, HeapType
<1>2. Block(t) \in Blocks /\ Conn(t) \in Connection /\ Fitting(Conn(t))
  BY <1>1, InHand DEF Types, ConnSteps
<1>3. PICK conn : conn = [Conn(t) EXCEPT !.is_removing = TRUE, !.fd = None]
  OBVIOUS
<1>4. heap' = [heap EXCEPT ![Block(t)] = conn]
  BY <1>1, <1>2, <1>3 DEF BeginRemove, Conn
<1>5. Fitting(conn) /\ Removed(conn, Conn(t))
  BY <1>2, <1>3 DEF Fitting, Removed, Connection
<1> QED
  BY <1>1, <1>2, <1>4, <1>5

\* The accept thread removes a connection that it cannot add, unless someone has.
LEMMA AddFailsIs ==
  ASSUME Types, AddFails
  PROVE  /\ Block(Acceptor) \in Blocks /\ thread[Acceptor].at = "add"
         /\ \/ /\ Conn(Acceptor).is_removing
               /\ UNCHANGED <<closed, sock, sent, got, behind, missed, heap, allocated>>
            \/ /\ Close({Conn(Acceptor).fd} \cap Clients)
               /\ allocated' = allocated \ {Block(Acceptor)}
               /\ \E conn : /\ heap' = [heap EXCEPT ![Block(Acceptor)] = conn]
                            /\ Fitting(conn) /\ Removed(conn, Conn(Acceptor))
<1>1. thread[Acceptor].at = "add" /\ heap \in [Blocks -> Connection]
  BY DEF AddFails, At, Types, HeapType
<1>2. /\ Block(Acceptor) \in Blocks /\ Conn(Acceptor) \in Connection /\ Fitting(Conn(Acceptor))
      /\ Conn(Acceptor).is_removing \in BOOLEAN
  BY <1>1, InHand, Apart DEF Types, ConnSteps, Connection
<1>3. CASE Conn(Acceptor).is_removing
  BY <1>1, <1>2, <1>3 DEF AddFails
<1>4. CASE ~Conn(Acceptor).is_removing
  <2>1. PICK conn : conn = [Conn(Acceptor) EXCEPT !.fd = None, !.is_removing = TRUE]
    OBVIOUS
  <2>2. heap' = [heap EXCEPT ![Block(Acceptor)] = conn]
    BY <1>1, <1>2, <1>4, <2>1 DEF AddFails, Conn
  <2>3. Fitting(conn) /\ Removed(conn, Conn(Acceptor))
    BY <1>2, <2>1 DEF Fitting, Removed, Connection
  <2> QED
    BY <1>1, <1>2, <1>4, <2>2, <2>3 DEF AddFails
<1> QED
  BY <1>2, <1>3, <1>4

LEMMA SendWelcomeIs ==
  ASSUME Types, SendWelcome
  PROVE  /\ Block(Acceptor) \in Blocks /\ thread[Acceptor].at = "welcome"
         /\ UNCHANGED <<allocated, connections>>
         /\ \E conn : /\ heap' = [heap EXCEPT ![Block(Acceptor)] = conn]
                      /\ Fitting(conn) /\ SameConn(conn, Conn(Acceptor))
                      /\ conn.pending = <<Welcome(thread[Acceptor].ptr.client)>> /\ ~conn.wrapped
<1>1. thread[Acceptor].at = "welcome" /\ heap \in [Blocks -> Connection]
  BY DEF SendWelcome, At, Types, HeapType
<1>2. /\ Block(Acceptor) \in Blocks /\ Conn(Acceptor) \in Connection /\ Fitting(Conn(Acceptor))
      /\ thread[Acceptor].ptr.client \in Clients
  BY <1>1, InHand, Apart, PointerParts DEF Types, ConnSteps
<1>3. PICK u \in Unit : u = Welcome(thread[Acceptor].ptr.client)
  <2>1. PICK c \in Clients, m \in Nat : c = thread[Acceptor].ptr.client /\ m = MaxBytes
    BY <1>2, Sizes
  <2>2. 0 \in 0 .. m
    BY <2>1
  <2>3. <<c, 0>> \in Clients \X (0 .. MaxBytes)
    BY <2>1, <2>2
  <2> QED
    BY <2>1, <2>3 DEF Welcome, Unit
<1>4. PICK q \in Seq(Unit) : q = <<u>> /\ Len(q) = 1
  <2>1. <<u>> \in Seq(Unit) /\ Len(<<u>>) = 1
    OBVIOUS
  <2> QED
    BY <2>1
<1>5. PICK conn : conn = [Conn(Acceptor) EXCEPT !.pending = q, !.wrapped = FALSE]
  OBVIOUS
<1>6. heap' = [heap EXCEPT ![Block(Acceptor)] = conn]
  BY <1>1, <1>2, <1>3, <1>4, <1>5 DEF SendWelcome, Conn
<1>7. Fitting(conn) /\ SameConn(conn, Conn(Acceptor)) /\ conn.pending = q /\ ~conn.wrapped
  <2>1. /\ conn \in Connection /\ SameConn(conn, Conn(Acceptor)) /\ conn.pending = q
        /\ ~conn.wrapped
    BY <1>2, <1>5 DEF SameConn, Connection
  <2>2. 1 < BufSize
    BY Sizes
  <2> QED
    BY <1>4, <2>1, <2>2 DEF Fitting
<1> QED
  BY <1>1, <1>2, <1>3, <1>4, <1>6, <1>7 DEF SendWelcome

\* A completion with -EPIPE clears a descriptor that is open.
LEMMA CompletePipeIs ==
  ASSUME Types, NEW w \in Workers, CompletePipe(w)
  PROVE  \E b \in Blocks :
           /\ b = Head(aio_events[w]).ptr.block
           /\ cut' = cut \cup ({heap[b].fd} \cap Clients)
           /\ \E conn : /\ heap' = [heap EXCEPT ![b] = conn]
                        /\ Fitting(conn) /\ conn = [heap[b] EXCEPT !.fd = IF @ = None THEN None ELSE Stdin]
<1>1. aio_events[w] # <<>> /\ heap \in [Blocks -> Connection]
  BY DEF CompletePipe, Types, HeapType
<1>2. PICK b \in Blocks : b = Head(aio_events[w]).ptr.block
  BY <1>1, NextCompletion DEF Types
<1>3. PICK conn : conn = [heap[b] EXCEPT !.fd = IF @ = None THEN None ELSE Stdin]
  OBVIOUS
<1>4. heap' = [heap EXCEPT ![b] = conn] /\ cut' = cut \cup ({heap[b].fd} \cap Clients)
  BY <1>1, <1>2, <1>3 DEF CompletePipe
<1>5. Fitting(conn)
  BY <1>3 DEF Types, HeapType, Fitting, Connection
<1> QED
  BY <1>2, <1>3, <1>4, <1>5

LEMMA AcceptConnectionIs ==
  ASSUME Types, AcceptConnection
  PROVE  /\ backlog # <<>> /\ Head(backlog) \in Clients /\ thread[Acceptor] = Local("loop")
         /\ Fitting(NewConnection(Head(backlog)))
         /\ \E b \in Blocks \ allocated :
              /\ allocated' = allocated \cup {b}
              /\ heap' = [heap EXCEPT ![b] = NewConnection(Head(backlog))]
              /\ \E l : /\ Placed(l) /\ thread' = [thread EXCEPT ![Acceptor] = l]
                        /\ l.at = "add" /\ l.ptr = [block |-> b, client |-> Head(backlog)]
              /\ Mix(Head(backlog), Referenced(b))
<1>1. /\ backlog # <<>> /\ thread[Acceptor].at = "loop" /\ thread \in [Threads -> Place]
      /\ Acceptor \in Threads
  BY Apart DEF AcceptConnection, At, Types, ThreadType
<1>2. PICK c \in Clients : c = Head(backlog)
  BY <1>1, EmptySeq, HeadTailProperties DEF Types, ClientType
<1>3. thread[Acceptor] = Local("loop")
  BY <1>1 DEF Types, ThreadType, Placed, ConnSteps
<1>4. Fitting(NewConnection(c))
  BY EmptySeq, Sizes DEF NewConnection, Fitting, Connection
<1>5. PICK b \in Blocks \ allocated :
        /\ allocated' = allocated \cup {b}
        /\ heap' = [heap EXCEPT ![b] = NewConnection(c)]
        /\ thread' = [thread EXCEPT ![Acceptor].at = "add",
                                    ![Acceptor].ptr = [block |-> b, client |-> c]]
        /\ Mix(c, Referenced(b))
  BY <1>2 DEF AcceptConnection
<1>6. PICK p \in Pointers : p = [block |-> b, client |-> c]
  BY PointerParts
<1>7. PICK l : l = [thread[Acceptor] EXCEPT !.at = "add", !.ptr = p]
  OBVIOUS
<1>8. thread' = [thread EXCEPT ![Acceptor] = l]
  BY <1>1, <1>5, <1>6, <1>7
<1>9. Placed(l) /\ l.at = "add" /\ l.ptr = p
  BY <1>1, <1>7 DEF Placed, Place, ConnSteps, Steps
<1> QED
  BY <1>1, <1>2, <1>3, <1>4, <1>5, <1>6, <1>8, <1>9

LEMMA HeapStep ==
  ASSUME Types, [Next]_vars
  PROVE  HeapType'
<1>0. HeapType /\ heap \in [Blocks -> Connection] /\ connections \in [Workers -> SUBSET Blocks]
      /\ \A b \in Blocks : Fitting(heap[b])
  BY DEF Types, HeapType
<1>1. CASE UNCHANGED connVars
  BY <1>0, <1>1 DEF connVars, HeapType, Fitting
<1>2. ASSUME NEW t \in Threads, FillsBuffer(t)
      PROVE  HeapType'
  BY <1>0, <1>2, FillsIs, HeapSet
<1>3. ASSUME NEW t \in Threads, BeginRemove(t)
      PROVE  HeapType'
  <2>1. UNCHANGED <<allocated, connections>>
    BY <1>3 DEF BeginRemove
  <2> QED
    BY <1>0, <1>3, <2>1, BeginRemoveIs, HeapSet
<1>4. ASSUME NEW t \in Threads, EndRemove(t)
      PROVE  HeapType'
  BY <1>0, <1>4 DEF EndRemove, HeapType, Fitting
<1>5. ASSUME NEW w \in Workers, WorkerFills(w)
      PROVE  HeapType'
  BY <1>0, <1>5, WorkerFillsIs, HeapSet
<1>6. ASSUME NEW w \in Workers, CompletePipe(w)
      PROVE  HeapType'
  <2>1. UNCHANGED <<allocated, connections>>
    BY <1>6 DEF CompletePipe
  <2> QED
    BY <1>0, <1>6, <2>1, CompletePipeIs, HeapSet
<1>7. CASE AcceptConnection
  <2>1. PICK b \in Blocks, conn \in {NewConnection(Head(backlog))} :
          /\ heap' = [heap EXCEPT ![b] = conn] /\ Fitting(conn)
          /\ allocated' = allocated \cup {b} /\ UNCHANGED connections
    BY <1>7, AcceptConnectionIs DEF AcceptConnection
  <2>2. heap' \in [Blocks -> Connection] /\ \A d \in Blocks : Fitting(heap'[d])
    BY <1>0, <2>1 DEF Fitting
  <2> QED
    BY <1>0, <2>1, <2>2 DEF HeapType, Fitting
<1>8. CASE AddConnection
  <2>1. Block(Acceptor) \in Blocks
    BY <1>8, InHand, Apart DEF AddConnection, At, ConnSteps, Types
  <2> QED
    BY <1>0, <1>8, <2>1 DEF AddConnection, HeapType, Fitting
<1>9. CASE AddFails
  <2>1. UNCHANGED connections
    BY <1>9 DEF AddFails
  <2>2. CASE UNCHANGED <<heap, allocated>>
    BY <1>0, <2>1, <2>2 DEF HeapType, Fitting
  <2>3. CASE ~UNCHANGED <<heap, allocated>>
    <3>1. PICK conn : heap' = [heap EXCEPT ![Block(Acceptor)] = conn] /\ Fitting(conn)
      BY <1>9, <2>3, AddFailsIs
    <3>2. Block(Acceptor) \in Blocks /\ allocated' = allocated \ {Block(Acceptor)}
      BY <1>9, <2>3, AddFailsIs
    <3>3. heap' \in [Blocks -> Connection] /\ \A d \in Blocks : Fitting(heap'[d])
      BY <1>0, <3>1, <3>2 DEF Fitting
    <3> QED
      BY <1>0, <2>1, <3>2, <3>3 DEF HeapType, Fitting
  <2> QED
    BY <2>2, <2>3
<1>10. CASE SendWelcome
  BY <1>0, <1>10, SendWelcomeIs, HeapSet
<1>11. CASE Stop
  <2>1. /\ UNCHANGED heap /\ allocated' \subseteq allocated
        /\ connections' = connections \/ connections' = [w \in Workers |-> {}]
    BY <1>11 DEF Stop
  <2> QED
    BY <1>0, <2>1 DEF HeapType, Fitting
<1> QED
  BY <1>1, <1>2, <1>3, <1>4, <1>5, <1>6, <1>7, <1>8, <1>9, <1>10, <1>11, HeapMoves

-----------------------------------------------------------------------------
(***************************************************************************)
(* The sockets and the clients                                             *)
(***************************************************************************)

\* A write puts bytes into socket old and leaves socket s.
Wrote(old, bytes, s) ==
  /\ Spaced(s) /\ s.fin = old.fin /\ s.err = old.err /\ s.rx = old.rx
  /\ s.out = old.out \o Put(old, bytes)

LEMMA WroteIs ==
  ASSUME NEW s, Spaced(s), NEW bytes \in Seq(Unit)
  PROVE  Wrote(s, bytes, AfterWrite(s, bytes))
<1>1. PICK q \in Seq(Unit) : q = s.out \o Put(s, bytes) /\ Len(q) <= SendSpace
  BY PutIs
<1>2. AfterWrite(s, bytes) = [s EXCEPT !.out = q] /\ s \in SocketType(Unit)
  BY <1>1, PutIs DEF Spaced
<1> QED
  BY <1>1, <1>2 DEF Wrote, Spaced, SocketType

\* The history that does not change without the sockets.
records == <<mixed, cut, behind>>

\* What the clients do with their sockets.
OnClient(c) == ClientSend(c) \/ ClientReceive(c) \/ ClientFin(c) \/ ClientReset(c)

LEMMA DataMoves ==
  ASSUME [Next]_vars
  PROVE  \/ UNCHANGED <<socketVars, clientVars, records>>
         \/ \E t \in Threads : WriteSome(t) \/ Submits(t) \/ BeginRemove(t)
         \/ \E w \in Workers : WaitForEvents(w) \/ ReadEvent(w) \/ CompletePipe(w)
         \/ Refuse \/ AcceptConnection \/ AddConnection \/ AddFails \/ AcceptorLeaves \/ Stop
         \/ \E c \in Clients : Connect(c) \/ OnClient(c)
<1> USE DEF socketVars, clientVars, historyVars, records
<1>0. ASSUME NEW t \in Threads, OnConnection(t), ~WriteSome(t), ~Submits(t), ~BeginRemove(t)
      PROVE  UNCHANGED <<socketVars, clientVars, records>>
  BY <1>0 DEF OnConnection, Submits, TryWrite, WriteNothing, Settle, WriteAgain, ClearWritable,
              WriteFails, SubmitFails, AlreadyRemoving, EndRemove, restVars, otherVars
<1>1. CASE \E w \in Workers : Worker(w) \/ WaitFails(w)
  <2>1. PICK w \in Workers : Worker(w) \/ WaitFails(w)
    BY <1>1
  <2>2. CASE OnConnection(w)
    BY <1>0, <2>2, Apart
  <2> QED
    BY <2>1, <2>2 DEF Worker, WaitFails, ExitEvent, HangupEvent, OutputEvent, ReadNothing,
                      HandleOutput, EventsDone, CompleteData, CompleteNothing, CompletionsDone,
                      restVars, otherVars
<1>2. CASE AcceptThread \/ AcceptFails
  <2>1. CASE OnConnection(Acceptor)
    BY <1>0, <2>1, Apart
  <2> QED
    BY <1>2, <2>1 DEF AcceptThread, AcceptFails, SendWelcome, restVars, otherVars
<1>3. CASE Main \/ Signal
  BY <1>3 DEF Main, CreateThread, StartFails, JoinThreads, StopReturns, Signal, serverVars
<1>4. CASE \E c \in Clients : Client(c)
  BY <1>4 DEF Client, OnClient
<1>5. CASE UNCHANGED vars
  BY <1>5 DEF vars, restVars, otherVars
<1> QED
  BY <1>1, <1>2, <1>3, <1>4, <1>5 DEF Next

\* What the server has closed holds nothing.
LEMMA CloseTypes ==
  ASSUME SocketsType, ClientType, NEW S \in SUBSET Clients, Close(S)
  PROVE  /\ sock' \in [Clients -> SocketType(Unit)] /\ \A c \in Clients : Spaced(sock'[c])
         /\ sent' \in [Clients -> 0 .. MaxBytes] /\ got' \in [Clients -> Unit \cup {Nothing}]
         /\ closed' \subseteq Clients /\ behind' \subseteq Clients /\ missed' \subseteq Clients
<1>1. Spaced(NewSocket)
  BY EmptySeq, Sizes DEF Spaced, SocketType, NewSocket
<1>2. ASSUME NEW c \in Clients
      PROVE  sock'[c] \in SocketType(Unit) /\ Spaced(sock'[c])
  BY <1>1 DEF Close, SocketsType, Spaced
<1>3. sock' \in [Clients -> SocketType(Unit)]
  BY <1>2 DEF Close
<1>4. PICK m \in Nat : m = MaxBytes
  BY Sizes
<1>5. 0 \in 0 .. MaxBytes
  BY <1>4
<1> QED
  BY <1>2, <1>3, <1>5 DEF Close, ClientType

\* One socket changes.
LEMMA SocketSet ==
  ASSUME SocketsType, NEW c \in Clients, NEW s, Spaced(s), sock' = [sock EXCEPT ![c] = s],
         UNCHANGED watched, ready' \subseteq Clients
  PROVE  SocketsType'
<1>1. sock' \in [Clients -> SocketType(Unit)] /\ \A d \in Clients : Spaced(sock'[d])
  BY DEF SocketsType, Spaced
<1> QED
  BY <1>1 DEF SocketsType, Spaced

LEMMA WriteSomeIs ==
  ASSUME Types, NEW t \in Threads, WriteSome(t)
  PROVE  /\ Block(t) \in Blocks /\ thread[t].at = "write" /\ Conn(t).fd \in Clients
         /\ ~Conn(t).wrapped
         /\ \E s : sock' = [sock EXCEPT ![Conn(t).fd] = s] /\ Wrote(sock[Conn(t).fd], Conn(t).pending, s)
         /\ Mix(Conn(t).fd, Writing(Block(t), t))
<1>1. /\ thread[t].at = "write" /\ Conn(t).fd \in Clients /\ ~Conn(t).wrapped
      /\ sock \in [Clients -> SocketType(Unit)]
  BY DEF WriteSome, Writes, Writable, At, Types, SocketsType
<1>2. Block(t) \in Blocks /\ Conn(t).pending \in Seq(Unit)
  BY <1>1, InHand DEF Types, ConnSteps, Connection
<1>3. PICK c \in Clients : c = Conn(t).fd
  BY <1>1
<1>4. PICK s : s = AfterWrite(sock[c], Conn(t).pending)
  OBVIOUS
<1>5. sock' = [sock EXCEPT ![c] = s] /\ Mix(c, Writing(Block(t), t))
  BY <1>1, <1>3, <1>4 DEF WriteSome
<1>6. Wrote(sock[c], Conn(t).pending, s)
  BY <1>2, <1>4, SocketOf, WroteIs DEF Types
<1> QED
  BY <1>1, <1>2, <1>3, <1>5, <1>6

\* The socket after a submission.
LEMMA SubmitsSocket ==
  ASSUME Types, NEW t \in Threads, Submits(t)
  PROVE  \E s : /\ sock' = [sock EXCEPT ![Conn(t).fd] = s] /\ Spaced(s)
                /\ \/ /\ SubmitAsyncWrite(t) /\ s.rx = sock[Conn(t).fd].rx
                      /\ \/ s = sock[Conn(t).fd]
                         \/ Wrote(sock[Conn(t).fd], Conn(t).pending, s)
                   \/ /\ SubmitAsyncRead(t)
                      /\ Reads(sock[Conn(t).fd], Take(sock[Conn(t).fd], BufSize - 1), s)
<1>1. PICK c \in Clients : c = Conn(t).fd
  BY SubmitsIs
<1>2. sock \in [Clients -> SocketType(Unit)] /\ Spaced(sock[c])
  BY DEF Types, SocketsType
<1>3. Conn(t).pending \in Seq(Unit)
  BY SubmitsIs DEF Types, HeapType, Conn, Connection
<1>4. CASE SubmitAsyncWrite(t)
  <2>1. CASE sock[c].err
    <3>1. sock' = sock
      BY <1>1, <1>4, <2>1 DEF SubmitAsyncWrite
    <3> QED
      BY <1>1, <1>2, <1>4, <3>1
  <2>2. CASE ~sock[c].err
    <3>1. PICK s : s = AfterWrite(sock[c], Conn(t).pending)
      OBVIOUS
    <3>2. sock' = [sock EXCEPT ![c] = s]
      BY <1>1, <1>2, <1>4, <2>2, <3>1 DEF SubmitAsyncWrite
    <3>3. Wrote(sock[c], Conn(t).pending, s)
      BY <1>2, <1>3, <3>1, WroteIs
    <3> QED
      BY <1>1, <1>4, <3>2, <3>3 DEF Wrote
  <2> QED
    BY <2>1, <2>2
<1>5. CASE SubmitAsyncRead(t)
  <2>1. PICK n \in Nat : n = BufSize - 1
    BY Sizes
  <2>2. PICK s : s = AfterRead(sock[c], n)
    OBVIOUS
  <2>3. sock' = [sock EXCEPT ![c] = s]
    BY <1>1, <1>2, <1>5, <2>1, <2>2 DEF SubmitAsyncRead
  <2>4. Reads(sock[c], Take(sock[c], n), s)
    BY <1>2, <2>2, TakeIs
  <2> QED
    BY <1>1, <1>5, <2>1, <2>3, <2>4 DEF Reads
<1> QED
  BY <1>4, <1>5 DEF Submits

\* What a client does with its socket, with what it has sent and received.
LEMMA OnClientIs ==
  ASSUME Types, NEW c \in Clients, OnClient(c)
  PROVE  /\ ready' \subseteq Clients
         /\ UNCHANGED <<watched, closed, backlog, historyVars>>
         /\ sent' \in [Clients -> 0 .. MaxBytes] /\ got' \in [Clients -> Unit \cup {Nothing}]
         /\ \E s : sock' = [sock EXCEPT ![c] = s] /\ Spaced(s)
<1>1. /\ sock \in [Clients -> SocketType(Unit)] /\ Spaced(sock[c]) /\ ready \subseteq Clients
      /\ sent \in [Clients -> 0 .. MaxBytes] /\ got \in [Clients -> Unit \cup {Nothing}]
      /\ sock[c].rx \in Seq(Unit) /\ sock[c].out \in Seq(Unit)
  BY SocketOf DEF Types, SocketsType, ClientType
<1>2. ready' \subseteq Clients /\ UNCHANGED <<watched, closed, backlog, historyVars>>
  BY <1>1 DEF OnClient, ClientSend, ClientReceive, ClientFin, ClientReset, OnSocket
<1>3. CASE ClientSend(c)
  <2>1. PICK m \in Nat, n \in Nat : m = MaxBytes /\ n = sent[c] /\ n < m
    <3>1. MaxBytes \in Nat /\ sent[c] \in 0 .. MaxBytes /\ sent[c] < MaxBytes
      BY <1>1, <1>3, Sizes DEF ClientSend
    <3> QED
      BY <3>1
  <2>2. n + 1 \in 0 .. m
    BY <2>1
  <2>3. PICK u \in Unit : u = <<c, n + 1>>
    BY <2>1, <2>2 DEF Unit
  <2>4. PICK q \in Seq(Unit) : q = Append(sock[c].rx, u)
    BY <1>1, AppendProperties
  <2>5. PICK s : s = [sock[c] EXCEPT !.rx = q]
    OBVIOUS
  <2>6. sock' = [sock EXCEPT ![c] = s]
    BY <1>3, <2>1, <2>3, <2>4, <2>5 DEF ClientSend, OnSocket
  <2>7. Spaced(s)
    BY <1>1, <2>5 DEF Spaced, SocketType
  <2>8. sent' \in [Clients -> 0 .. MaxBytes] /\ UNCHANGED got
    <3>1. sent' = [sent EXCEPT ![c] = n + 1] /\ UNCHANGED got
      BY <1>3, <2>1 DEF ClientSend
    <3> QED
      BY <1>1, <2>1, <2>2, <3>1
  <2> QED
    BY <1>1, <1>2, <2>6, <2>7, <2>8
<1>4. CASE ClientReceive(c)
  <2>1. PICK out \in Seq(Unit) : out = sock[c].out /\ out # <<>>
    BY <1>1, <1>4 DEF ClientReceive
  <2>2. Head(out) \in Unit /\ Tail(out) \in Seq(Unit) /\ Len(Tail(out)) = Len(out) - 1 /\ Len(out) \in Nat
    BY <2>1, EmptySeq, HeadTailProperties, LenProperties
  <2>3. PICK q \in Seq(Unit) : q = Tail(out) /\ Len(q) = Len(out) - 1
    BY <2>2
  <2>4. PICK s : s = [sock[c] EXCEPT !.out = q]
    OBVIOUS
  <2>5. sock' = [sock EXCEPT ![c] = s] /\ got' = [got EXCEPT ![c] = Head(out)] /\ UNCHANGED sent
    BY <1>4, <2>1, <2>3, <2>4 DEF ClientReceive, OnSocket
  <2>6. Len(q) <= SendSpace
    <3>1. PICK m \in Nat, k \in Nat : m = Len(out) /\ k = SendSpace /\ m <= k
      BY <1>1, <2>1, <2>2, Sizes DEF Spaced
    <3>2. m - 1 <= k
      BY <3>1
    <3> QED
      BY <2>3, <3>1, <3>2
  <2>7. Spaced(s)
    BY <1>1, <2>4, <2>6 DEF Spaced, SocketType
  <2> QED
    BY <1>1, <1>2, <2>2, <2>5, <2>7
<1>5. CASE ClientFin(c)
  <2>1. PICK s : s = [sock[c] EXCEPT !.fin = TRUE]
    OBVIOUS
  <2>2. sock' = [sock EXCEPT ![c] = s] /\ UNCHANGED <<sent, got>>
    BY <1>5, <2>1 DEF ClientFin, OnSocket
  <2>3. Spaced(s)
    BY <1>1, <2>1 DEF Spaced, SocketType
  <2> QED
    BY <1>1, <1>2, <2>2, <2>3
<1>6. CASE ClientReset(c)
  <2>1. PICK q \in Seq(Unit) : q = <<>> /\ Len(q) = 0
    BY EmptySeq
  <2>2. PICK s : s = [sock[c] EXCEPT !.err = TRUE, !.rx = q, !.out = q]
    OBVIOUS
  <2>3. sock' = [sock EXCEPT ![c] = s] /\ UNCHANGED <<sent, got>>
    BY <1>6, <2>1, <2>2 DEF ClientReset, OnSocket
  <2>4. Len(q) <= SendSpace
    BY <2>1, Sizes
  <2>5. Spaced(s)
    BY <1>1, <2>2, <2>4 DEF Spaced, SocketType
  <2> QED
    BY <1>1, <1>2, <2>3, <2>5
<1> QED
  BY <1>3, <1>4, <1>5, <1>6 DEF OnClient

\* The steps that leave all sockets but one alone.
LEMMA OneSocket ==
  ASSUME Types,
         \/ \E t \in Threads : WriteSome(t) \/ Submits(t)
         \/ \E w \in Workers : ReadEvent(w)
         \/ \E c \in Clients : OnClient(c)
  PROVE  /\ \E c \in Clients : \E s : sock' = [sock EXCEPT ![c] = s] /\ Spaced(s)
         /\ UNCHANGED watched /\ ready' \subseteq Clients
<1>0. ready \subseteq Clients
  BY DEF Types, SocketsType
<1>1. ASSUME NEW t \in Threads, WriteSome(t)
      PROVE  /\ \E c \in Clients : \E s : sock' = [sock EXCEPT ![c] = s] /\ Spaced(s)
             /\ UNCHANGED watched /\ ready' \subseteq Clients
  BY <1>0, <1>1, WriteSomeIs DEF Wrote, WriteSome
<1>2. ASSUME NEW t \in Threads, Submits(t)
      PROVE  /\ \E c \in Clients : \E s : sock' = [sock EXCEPT ![c] = s] /\ Spaced(s)
             /\ UNCHANGED watched /\ ready' \subseteq Clients
  BY <1>0, <1>2, SubmitsIs, SubmitsSocket DEF Submits, SubmitAsyncWrite, SubmitAsyncRead
<1>3. ASSUME NEW w \in Workers, ReadEvent(w)
      PROVE  /\ \E c \in Clients : \E s : sock' = [sock EXCEPT ![c] = s] /\ Spaced(s)
             /\ UNCHANGED watched /\ ready' \subseteq Clients
  BY <1>0, <1>3, ReadEventIs DEF Reads, ReadEvent
<1>4. ASSUME NEW c \in Clients, OnClient(c)
      PROVE  /\ \E d \in Clients : \E s : sock' = [sock EXCEPT ![d] = s] /\ Spaced(s)
             /\ UNCHANGED watched /\ ready' \subseteq Clients
  BY <1>4, OnClientIs
<1> QED
  BY <1>1, <1>2, <1>3, <1>4

\* The clients whose sockets a step closes.
LEMMA Closing ==
  ASSUME Types,
         (\E t \in Threads : BeginRemove(t)) \/ Refuse \/ AddFails \/ AcceptorLeaves \/ Stop
  PROVE  \/ UNCHANGED <<closed, sock, sent, got, behind, missed>>
         \/ \E S \in SUBSET Clients : Close(S)
<1>1. ASSUME NEW t \in Threads, BeginRemove(t)
      PROVE  \E S \in SUBSET Clients : Close(S)
  BY <1>1 DEF BeginRemove
<1>2. backlog # <<>> => {Head(backlog)} \in SUBSET Clients
  BY EmptySeq, HeadTailProperties DEF Types, ClientType
<1>3. CASE Refuse \/ AcceptorLeaves
  BY <1>2, <1>3 DEF Refuse, AcceptorLeaves
<1>4. CASE AddFails
  BY <1>4, AddFailsIs
<1>5. CASE Stop
  BY <1>5 DEF Stop, socketVars
<1> QED
  BY <1>1, <1>3, <1>4, <1>5

LEMMA SocketsStep ==
  ASSUME Types, [Next]_vars
  PROVE  SocketsType'
<1>0. /\ SocketsType /\ ClientType /\ watched \in [Clients -> WatchType]
      /\ sock \in [Clients -> SocketType(Unit)] /\ ready \subseteq Clients
      /\ \A c \in Clients : Spaced(sock[c])
  BY DEF Types, SocketsType
<1>1. CASE UNCHANGED <<socketVars, clientVars, records>> \/ AcceptConnection
           \/ (\E c \in Clients : Connect(c)) \/ (\E w \in Workers : CompletePipe(w))
  BY <1>0, <1>1 DEF socketVars, SocketsType, Spaced, AcceptConnection, Connect, CompletePipe
<1>2. CASE \/ \E t \in Threads : WriteSome(t) \/ Submits(t)
           \/ \E w \in Workers : ReadEvent(w)
           \/ \E c \in Clients : OnClient(c)
  BY <1>0, <1>2, OneSocket, SocketSet
<1>3. CASE (\E t \in Threads : BeginRemove(t)) \/ Refuse \/ AddFails \/ AcceptorLeaves \/ Stop
  <2>1. sock' \in [Clients -> SocketType(Unit)] /\ \A c \in Clients : Spaced(sock'[c])
    BY <1>0, <1>3, Closing, CloseTypes DEF Spaced
  <2>2. watched' \in [Clients -> WatchType] /\ ready' \subseteq Clients
    BY <1>0, <1>3 DEF BeginRemove, Refuse, AddFails, AcceptorLeaves, Stop, socketVars, WatchType
  <2> QED
    BY <2>1, <2>2 DEF SocketsType, Spaced
<1>4. ASSUME NEW w \in Workers, WaitForEvents(w)
      PROVE  SocketsType'
  BY <1>0, <1>4 DEF WaitForEvents, SocketsType, Spaced
<1>5. CASE AddConnection
  <2>1. PICK c \in Clients, b \in Blocks, w \in Workers :
          c = Conn(Acceptor).fd /\ b = Block(Acceptor) /\ w = Context(Acceptor)
    BY <1>5, InHand, Apart, ContextIs DEF AddConnection, At, ConnSteps, Types
  <2>2. /\ watched' = [watched EXCEPT ![c] = [worker |-> w, block |-> b]]
        /\ ready' = ready \cup {c} /\ UNCHANGED sock
    BY <1>5, <2>1 DEF AddConnection
  <2> QED
    BY <1>0, <2>2 DEF SocketsType, WatchType, Spaced
<1> QED
  BY <1>1, <1>2, <1>3, <1>4, <1>5, DataMoves

\* A step on a connection that does not close its socket.
LEMMA ConnectionMissed ==
  ASSUME NEW t \in Threads, OnConnection(t), ~BeginRemove(t)
  PROVE  UNCHANGED missed
BY DEF OnConnection, TryWrite, WriteNothing, WriteSome, Settle, WriteAgain, ClearWritable,
       WriteFails, SubmitAsyncWrite, SubmitAsyncRead, SubmitFails, AlreadyRemoving, EndRemove,
       restVars, otherVars, historyVars

\* What becomes of the handled EPOLLOUT that a late store undoes.
LEMMA MissedStep ==
  ASSUME Types, [Next]_vars
  PROVE  missed' \subseteq Clients
<1> USE DEF restVars, otherVars, historyVars
<1>0. missed \subseteq Clients /\ ClientType /\ SocketsType
  BY DEF Types, ClientType
<1>1. CASE (\E t \in Threads : BeginRemove(t)) \/ Refuse \/ AddFails \/ AcceptorLeaves \/ Stop
  BY <1>0, <1>1, Closing, CloseTypes
<1>2. CASE \E w \in Workers : Worker(w) \/ WaitFails(w)
  <2>1. PICK w \in Workers : Worker(w) \/ WaitFails(w)
    BY <1>2
  <2>2. CASE OnConnection(w)
    BY <1>0, <1>1, <2>2, ConnectionMissed, Apart
  <2>3. CASE HandleOutput(w)
    BY <1>0, <2>3 DEF HandleOutput, Miss
  <2> QED
    BY <1>0, <2>1, <2>2, <2>3
       DEF Worker, WaitFails, WaitForEvents, ExitEvent, HangupEvent, OutputEvent, ReadEvent,
           ReadNothing, EventsDone, CompleteData, CompleteNothing, CompletePipe, CompletionsDone
<1>3. CASE AcceptThread \/ AcceptFails
  <2>1. CASE OnConnection(Acceptor)
    BY <1>0, <1>1, <2>1, ConnectionMissed, Apart
  <2> QED
    BY <1>0, <1>1, <1>3, <2>1
       DEF AcceptThread, AcceptFails, AcceptConnection, AddConnection, SendWelcome
<1>4. CASE Main \/ Signal
  BY <1>0, <1>1, <1>4 DEF Main, CreateThread, StartFails, JoinThreads, StopReturns, Signal,
                          serverVars
<1>5. CASE \E c \in Clients : Client(c)
  BY <1>0, <1>5, OnClientIs DEF Client, OnClient, Connect
<1>6. CASE UNCHANGED vars
  BY <1>0, <1>6 DEF vars
<1> QED
  BY <1>1, <1>2, <1>3, <1>4, <1>5, <1>6 DEF Next

LEMMA ClientStep ==
  ASSUME Types, [Next]_vars
  PROVE  ClientType'
<1>0. /\ SocketsType /\ ClientType /\ ready \subseteq Clients
      /\ backlog \in Seq(Clients)
      /\ sent \in [Clients -> 0 .. MaxBytes]
      /\ got \in [Clients -> Unit \cup {Nothing}]
      /\ closed \subseteq Clients /\ mixed \subseteq Clients
      /\ cut \subseteq Clients /\ behind \subseteq Clients
      /\ missed' \subseteq Clients
  BY MissedStep DEF Types, SocketsType, ClientType
<1>1. CASE UNCHANGED <<socketVars, clientVars, records>> \/ AddConnection
           \/ \E w \in Workers : WaitForEvents(w)
  BY <1>0, <1>1 DEF socketVars, clientVars, historyVars, records, ClientType, AddConnection,
                    WaitForEvents, otherVars
<1>2. ASSUME NEW t \in Threads, WriteSome(t)
      PROVE  ClientType'
  <2>1. mixed' \subseteq Clients
    BY <1>0, <1>2, WriteSomeIs DEF Mix
  <2> QED
    BY <1>0, <1>2, <2>1 DEF WriteSome, ClientType, otherVars, clientVars
<1>3. ASSUME NEW t \in Threads, Submits(t)
      PROVE  ClientType'
  <2>1. mixed' \subseteq Clients
    BY <1>0, <1>3, SubmitsIs DEF Mix, Submits, SubmitAsyncWrite, SubmitAsyncRead, historyVars,
                                 records
  <2> QED
    BY <1>0, <1>3, <2>1 DEF Submits, SubmitAsyncWrite, SubmitAsyncRead, ClientType, otherVars,
                            clientVars, historyVars
<1>4. ASSUME NEW w \in Workers, ReadEvent(w)
      PROVE  ClientType'
  <2>1. mixed' \subseteq Clients /\ behind' \subseteq Clients
    BY <1>0, <1>4, ReadEventIs DEF Mix, ReadEvent
  <2> QED
    BY <1>0, <1>4, <2>1 DEF ReadEvent, ClientType, otherVars, clientVars
<1>5. ASSUME NEW w \in Workers, CompletePipe(w)
      PROVE  ClientType'
  <2>1. cut' \subseteq Clients
    BY <1>0, <1>5 DEF CompletePipe
  <2> QED
    BY <1>0, <1>5, <2>1 DEF CompletePipe, ClientType, otherVars, clientVars, socketVars
<1>6. backlog # <<>> => Tail(backlog) \in Seq(Clients) /\ Head(backlog) \in Clients
  BY <1>0, EmptySeq, HeadTailProperties
<1>7. CASE (\E t \in Threads : BeginRemove(t)) \/ Refuse \/ AddFails \/ AcceptorLeaves \/ Stop
  <2>1. /\ sent' \in [Clients -> 0 .. MaxBytes] /\ got' \in [Clients -> Unit \cup {Nothing}]
        /\ closed' \subseteq Clients /\ behind' \subseteq Clients
    BY <1>0, <1>7, Closing, CloseTypes
  <2>2. backlog' \in Seq(Clients) /\ UNCHANGED <<mixed, cut>>
    BY <1>0, <1>6, <1>7 DEF BeginRemove, Refuse, AddFails, AcceptorLeaves, Stop
  <2> QED
    BY <1>0, <2>1, <2>2 DEF ClientType
<1>8. CASE AcceptConnection
  <2>1. mixed' \subseteq Clients /\ backlog' \in Seq(Clients)
    BY <1>0, <1>6, <1>8, AcceptConnectionIs DEF AcceptConnection, Mix
  <2> QED
    BY <1>0, <1>8, <2>1 DEF AcceptConnection, ClientType, socketVars
<1>9. ASSUME NEW c \in Clients, Connect(c)
      PROVE  ClientType'
  <2>1. PICK q \in Seq(Clients) : q = Append(backlog, c)
    BY <1>0, AppendProperties
  <2> QED
    BY <1>0, <1>9, <2>1 DEF Connect, ClientType, socketVars, historyVars
<1>10. ASSUME NEW c \in Clients, OnClient(c)
       PROVE  ClientType'
  BY <1>0, <1>10, OnClientIs DEF ClientType, historyVars
<1> QED
  BY <1>1, <1>2, <1>3, <1>4, <1>5, <1>7, <1>8, <1>9, <1>10, DataMoves

LEMMA TypesStep == Types /\ [Next]_vars => Types'
BY ControlStep, ThreadStep, QueueStep, HeapStep, SocketsStep, ClientStep DEF Types

\* Type correctness of the hybrid proactor: the state of main, of the accept thread
\* and of the workers stays of its type whatever fails and in whatever order the
\* threads run (hybrid_proactor.c, efficient_hybrid_server.c).
THEOREM TypeCorrect == Spec => []TypeOK
<1>1. Spec => []Types
  BY TypesInit, TypesStep, PTL DEF Spec
<1> QED
  BY <1>1, TypesImplyTypeOK, PTL

-----------------------------------------------------------------------------
(***************************************************************************)
(* Which step brings a thread where, and with which pointer                *)
(***************************************************************************)

\* The places that many steps lead to.
Quiet ==
  {"none", "loop", "event", "complete", "out", "write", "again", "async", "remove", "left"}

Keeps(t, l) == l.ptr \in {thread[t].ptr, NoPtr}

\* How a step may move thread t.
Moved(t) ==
  \/ thread'[t] = thread[t]
  \/ thread'[t].at \in Quiet /\ Keeps(t, thread'[t])
  \/ /\ t \in Workers /\ TakesEvent(t)
     /\ thread'[t].ptr \in {Head(events[t]).ptr, NoPtr}
     /\ thread'[t].at \in Quiet \/ (thread'[t].at = "async_read" /\ ReadNothing(t))
  \/ /\ t \in Workers /\ CompleteData(t)
     /\ thread'[t].ptr = Head(aio_events[t]).ptr /\ thread'[t].at = "write"
  \/ BeginRemove(t) /\ thread'[t].ptr = thread[t].ptr /\ thread'[t].at = "free"
  \/ WriteSome(t) /\ thread'[t].ptr = thread[t].ptr /\ thread'[t].at = "settle"
  \/ /\ t = Acceptor /\ (AddConnection \/ AddFails)
     /\ thread'[t].ptr = thread[t].ptr /\ thread'[t].at = "welcome"
  \/ t = Acceptor /\ AcceptConnection /\ thread'[t].at = "add"

\* Only the thread that takes the step moves.
LEMMA OneMoves ==
  ASSUME ThreadType, NEW t \in Threads, NEW l, thread' = [thread EXCEPT ![t] = l],
         NEW u \in Threads
  PROVE  thread'[u] = IF u = t THEN l ELSE thread[u]
BY DEF ThreadType

LEMMA FinishedMoves ==
  ASSUME ThreadType, NEW t \in Threads, Finish(t)
  PROVE  /\ \A u \in Threads : Moved(u)
         /\ thread'[t].at \in Quiet /\ Keeps(t, thread'[t]) /\ thread'[t].back = thread[t].back
         /\ \A u \in Threads : u # t => thread'[u] = thread[u]
<1>1. thread[t] \in Place /\ thread' = [thread EXCEPT ![t] = Finished(thread[t])]
  BY DEF ThreadType, Finish
<1>2. /\ Finished(thread[t]).at \in Quiet /\ Keeps(t, Finished(thread[t]))
      /\ Finished(thread[t]).back = thread[t].back
  <2>1. CASE thread[t].out
    BY <1>1, <2>1 DEF Finished, Place, Keeps, Quiet
  <2>2. CASE ~thread[t].out
    BY <1>1, <2>2 DEF Finished, Place, Keeps, Quiet, Local, Rests
  <2> QED
    BY <2>1, <2>2
<1>3. \A u \in Threads : thread'[u] = IF u = t THEN Finished(thread[t]) ELSE thread[u]
  BY <1>1, OneMoves
<1> QED
  BY <1>2, <1>3 DEF Moved

LEMMA GotoMoves ==
  ASSUME ThreadType, NEW t \in Threads, NEW step, Goto(t, step)
  PROVE  /\ thread'[t].at = step /\ thread'[t].ptr = thread[t].ptr /\ thread'[t].back = thread[t].back
         /\ \A u \in Threads : u # t => thread'[u] = thread[u]
BY DEF ThreadType, Goto, Place

LEMMA RestMoves ==
  ASSUME ThreadType, NEW t \in Threads, NEW at \in Rests, thread' = [thread EXCEPT ![t] = Local(at)]
  PROVE  /\ \A u \in Threads : Moved(u)
         /\ thread'[t] = Local(at)
         /\ \A u \in Threads : u # t => thread'[u] = thread[u]
<1>1. \A u \in Threads : thread'[u] = IF u = t THEN Local(at) ELSE thread[u]
  BY OneMoves
<1>2. Local(at).at \in Quiet /\ Local(at).ptr = NoPtr
  BY DEF Local, Quiet, Rests
<1> QED
  BY <1>1, <1>2 DEF Moved, Keeps

LEMMA ConnectionMoves ==
  ASSUME Types, NEW t \in Threads, OnConnection(t)
  PROVE  /\ \A u \in Threads : Moved(u)
         /\ thread'[t].back = thread[t].back
         /\ thread'[t].ptr \in {thread[t].ptr, NoPtr}
         /\ \A u \in Threads : u # t => thread'[u] = thread[u]
<1> USE DEF Types
<1>1. CASE Finish(t)
  BY <1>1, FinishedMoves DEF Keeps
<1>2. CASE WriteSome(t)
  <2>1. PICK n \in 0 .. SendSpace : thread' = [thread EXCEPT ![t] = [thread[t] EXCEPT !.at = "settle", !.n = n]]
    BY <1>2, WritesSome
  <2>2. PICK l : l = [thread[t] EXCEPT !.at = "settle", !.n = n] /\ thread' = [thread EXCEPT ![t] = l]
    BY <2>1
  <2>3. l.at = "settle" /\ l.ptr = thread[t].ptr /\ l.back = thread[t].back
    BY <2>2 DEF ThreadType, Place
  <2>4. \A u \in Threads : thread'[u] = IF u = t THEN l ELSE thread[u]
    <3>1. thread' = [thread EXCEPT ![t] = l]
      BY <2>2
    <3> QED
      BY <3>1, OneMoves
  <2> QED
    BY <1>2, <2>3, <2>4 DEF Moved
<1>3. CASE WriteAgain(t) \/ ClearWritable(t) \/ WriteFails(t)
  <2>1. Goto(t, "again") \/ Goto(t, "async") \/ Goto(t, "remove")
    BY <1>3 DEF WriteAgain, ClearWritable, WriteFails
  <2> QED
    BY <2>1, GotoMoves DEF Moved, Keeps, Quiet
<1>4. CASE BeginRemove(t)
  <2>1. Goto(t, "free")
    BY <1>4 DEF BeginRemove
  <2> QED
    BY <1>4, <2>1, GotoMoves DEF Moved
<1> QED
  BY <1>1, <1>2, <1>3, <1>4
     DEF OnConnection, TryWrite, WriteNothing, Settle, SubmitAsyncWrite, SubmitAsyncRead,
         SubmitFails, AlreadyRemoving, EndRemove

LEMMA TakesMoves ==
  ASSUME Types, NEW w \in Workers, TakesEvent(w)
  PROVE  /\ \A u \in Threads : Moved(u)
         /\ thread'[w].back = "event"
         /\ thread'[w].ptr \in {Head(events[w]).ptr, NoPtr}
         /\ events[w] # <<>> /\ events' = [events EXCEPT ![w] = Tail(@)]
         /\ \A u \in Threads : u # w => thread'[u] = thread[u]
<1> USE DEF Types
<1>1. w \in Threads /\ HasEvent(w)
  BY Apart, TakesEventIs
<1>2. ASSUME NEW step \in ConnSteps \cup {"done"}, Handles(w, step),
             step \in Quiet \cup {"done"} \/ (step = "async_read" /\ ReadNothing(w))
      PROVE  /\ \A u \in Threads : Moved(u)
             /\ thread'[w].back = "event"
             /\ thread'[w].ptr \in {Head(events[w]).ptr, NoPtr}
             /\ \A u \in Threads : u # w => thread'[u] = thread[u]
  <2>1. PICK l : /\ thread' = [thread EXCEPT ![w] = l]
                 /\ l.ptr \in {Head(events[w]).ptr, NoPtr}
                 /\ l.at = step \/ (step = "done" /\ l.at \in {"out", "event"})
                 /\ l.back = "event"
    BY <1>1, <1>2, HandlesPlaced
  <2>2. \A u \in Threads : thread'[u] = IF u = w THEN l ELSE thread[u]
    BY <1>1, <2>1, OneMoves
  <2>3. "done" \notin {"out", "event"} /\ {"out", "event"} \subseteq Quiet
    BY DEF Quiet
  <2>4. step # "done" => l.at = step
    BY <2>1
  <2>5. l.at \in Quiet \/ (l.at = "async_read" /\ ReadNothing(w))
    <3>1. CASE step = "done"
      <4>1. l.at = "done" \/ l.at \in {"out", "event"}
        BY <2>1, <3>1
      <4>2. l.at # "done"
        <5>1. thread[w] \in Place /\ thread' \in [Threads -> Place]
          <6>1. ThreadType'
            BY <1>1, <1>2, HandlesPlaced
          <6> QED
            BY <1>1, <6>1 DEF ThreadType
        <5>2. l \in Place
          BY <1>1, <2>2, <5>1
        <5> QED
          BY <5>2 DEF Place, Steps
      <4> QED
        BY <2>3, <4>1, <4>2
    <3>2. CASE step # "done"
      BY <1>2, <2>4, <3>2
    <3> QED
      BY <3>1, <3>2
  <2>6. Moved(w)
    <3>1. thread'[w] = l
      BY <1>1, <2>2
    <3> QED
      BY <2>1, <2>5, <3>1 DEF Moved
  <2>7. \A u \in Threads : Moved(u)
    BY <2>2, <2>6 DEF Moved
  <2> QED
    BY <1>1, <2>1, <2>2, <2>7
<1>3. events[w] # <<>> /\ events' = [events EXCEPT ![w] = Tail(@)]
  BY <1>1, TakesEventIs DEF HasEvent, Handles
<1>4. \E step \in ConnSteps \cup {"done"} :
        /\ Handles(w, step)
        /\ step \in Quiet \cup {"done"} \/ (step = "async_read" /\ ReadNothing(w))
  <2>1. {"remove", "done", "write", "async_read"} \subseteq ConnSteps \cup {"done"}
    BY DEF ConnSteps
  <2>2. {"remove", "done", "write"} \subseteq Quiet \cup {"done"}
    BY DEF Quiet
  <2>3. CASE HangupEvent(w) \/ OutputEvent(w)
    BY <2>1, <2>2, <2>3 DEF HangupEvent, OutputEvent
  <2>4. CASE ReadEvent(w)
    BY <2>1, <2>2, <2>4 DEF ReadEvent
  <2>5. CASE ReadNothing(w)
    BY <2>1, <2>2, <2>5 DEF ReadNothing
  <2> QED
    BY <2>3, <2>4, <2>5 DEF TakesEvent
<1>5. PICK step \in ConnSteps \cup {"done"} :
        /\ Handles(w, step)
        /\ step \in Quiet \cup {"done"} \/ (step = "async_read" /\ ReadNothing(w))
  BY <1>4
<1> QED
  BY <1>2, <1>3, <1>5

\* A worker handles EPOLLOUT, or takes up a completion.
LEMMA OutputMoves ==
  ASSUME ThreadType, NEW w \in Threads, HandleOutput(w)
  PROVE  /\ thread'[w].at = "write" /\ thread'[w].ptr = thread[w].ptr
         /\ thread'[w].back = thread[w].back
         /\ \A u \in Threads : u # w => thread'[u] = thread[u]
<1>1. thread[w] \in Place /\ thread \in [Threads -> Place]
  BY DEF ThreadType
<1>2. PICK l : l = [thread[w] EXCEPT !.at = "write", !.out = FALSE]
  OBVIOUS
<1>3. l.at = "write" /\ l.ptr = thread[w].ptr /\ l.back = thread[w].back
  BY <1>1, <1>2 DEF Place
<1>4. thread' = [thread EXCEPT ![w] = l]
  BY <1>1, <1>2 DEF HandleOutput
<1>5. \A u \in Threads : thread'[u] = IF u = w THEN l ELSE thread[u]
  BY <1>4, OneMoves
<1> QED
  BY <1>3, <1>5

LEMMA CompleteMoves ==
  ASSUME ThreadType, NEW w \in Threads, CompleteData(w)
  PROVE  /\ thread'[w].at = "write" /\ thread'[w].ptr = Head(aio_events[w]).ptr
         /\ thread'[w].back = thread[w].back /\ thread[w] = Local("complete")
         /\ aio_events[w] # <<>> /\ aio_events' = [aio_events EXCEPT ![w] = Tail(@)]
         /\ Head(aio_events[w]).res > 0
         /\ \A u \in Threads : u # w => thread'[u] = thread[u]
<1>1. thread[w] \in Place /\ thread \in [Threads -> Place] /\ thread[w] = Local("complete")
  BY DEF ThreadType, CompleteData, At, Placed, ConnSteps
<1>2. PICK p : p = Head(aio_events[w]).ptr
  OBVIOUS
<1>3. PICK l : l = [thread[w] EXCEPT !.at = "write", !.ptr = p]
  OBVIOUS
<1>4. l.at = "write" /\ l.ptr = p /\ l.back = thread[w].back
  BY <1>1, <1>3 DEF Place
<1>5. thread' = [thread EXCEPT ![w] = l]
  BY <1>1, <1>2, <1>3 DEF CompleteData
<1>6. \A u \in Threads : thread'[u] = IF u = w THEN l ELSE thread[u]
  BY <1>5, OneMoves
<1> QED
  BY <1>1, <1>2, <1>4, <1>6 DEF CompleteData

\* The steps after which a worker rests.
WorkerRests(w) ==
  WaitForEvents(w) \/ WaitFails(w) \/ ExitEvent(w) \/ EventsDone(w) \/ CompletionsDone(w)

LEMMA WorkerRestsIs ==
  ASSUME NEW w, WorkerRests(w)
  PROVE  \E at \in Rests : thread' = [thread EXCEPT ![w] = Local(at)]
BY DEF WorkerRests, WaitForEvents, WaitFails, ExitEvent, EventsDone, CompletionsDone, Rests

LEMMA WorkerMoves ==
  ASSUME Types, NEW w \in Workers, Worker(w) \/ WaitFails(w)
  PROVE  /\ \A u \in Threads : Moved(u)
         /\ \A u \in Threads : u # w => thread'[u] = thread[u]
<1> USE DEF Types
<1>0. w \in Threads
  BY Apart
<1>1. CASE OnConnection(w)
  BY <1>0, <1>1, ConnectionMoves
<1>2. CASE TakesEvent(w)
  BY <1>2, TakesMoves
<1>3. CASE WorkerRests(w)
  BY <1>0, <1>3, WorkerRestsIs, RestMoves
<1>4. CASE HandleOutput(w)
  BY <1>0, <1>4, OutputMoves DEF Moved, Keeps, Quiet
<1>5. CASE CompleteData(w)
  BY <1>0, <1>5, CompleteMoves DEF Moved
<1>6. CASE CompleteNothing(w) \/ CompletePipe(w)
  BY <1>6 DEF CompleteNothing, CompletePipe, Moved
<1> QED
  BY <1>1, <1>2, <1>3, <1>4, <1>5, <1>6 DEF Worker, WorkerRests, TakesEvent

LEMMA AcceptorMoves ==
  ASSUME Types, AcceptThread \/ AcceptFails
  PROVE  /\ \A u \in Threads : Moved(u)
         /\ \A u \in Threads : u # Acceptor => thread'[u] = thread[u]
<1> USE DEF Types
<1>0. Acceptor \in Threads
  BY Apart
<1>1. CASE OnConnection(Acceptor)
  BY <1>0, <1>1, ConnectionMoves
<1>2. CASE Refuse
  BY <1>2 DEF Refuse, Moved
<1>3. CASE AcceptConnection
  <2>1. PICK l : thread' = [thread EXCEPT ![Acceptor] = l] /\ l.at = "add"
    BY <1>3, AcceptConnectionIs
  <2>2. \A u \in Threads : thread'[u] = IF u = Acceptor THEN l ELSE thread[u]
    <3>1. thread' = [thread EXCEPT ![Acceptor] = l]
      BY <2>1
    <3> QED
      BY <1>0, <3>1, OneMoves
  <2> QED
    BY <1>0, <1>3, <2>1, <2>2 DEF Moved
<1>4. CASE AddConnection \/ AddFails
  <2>1. Goto(Acceptor, "welcome")
    BY <1>4 DEF AddConnection, AddFails
  <2> QED
    BY <1>0, <1>4, <2>1, GotoMoves DEF Moved
<1>5. CASE SendWelcome
  <2>1. Goto(Acceptor, "write")
    BY <1>5 DEF SendWelcome
  <2> QED
    BY <1>0, <2>1, GotoMoves DEF Moved, Keeps, Quiet
<1>6. CASE AcceptorLeaves \/ AcceptFails
  <2>1. thread' = [thread EXCEPT ![Acceptor] = Local("left")]
    BY <1>6 DEF AcceptorLeaves, AcceptFails
  <2> QED
    BY <1>0, <2>1, RestMoves DEF Rests
<1> QED
  BY <1>1, <1>2, <1>3, <1>4, <1>5, <1>6 DEF AcceptThread

LEMMA ThreadMoves ==
  ASSUME Types, [Next]_vars
  PROVE  \A u \in Threads : Moved(u)
<1>1. CASE \E w \in Workers : Worker(w) \/ WaitFails(w)
  BY <1>1, WorkerMoves
<1>2. CASE AcceptThread \/ AcceptFails
  BY <1>2, AcceptorMoves
<1>3. ASSUME NEW t \in Threads, CreateThread(t)
      PROVE  \A u \in Threads : Moved(u)
  <2>1. thread' = [thread EXCEPT ![t] = Local("loop")]
    BY <1>3 DEF CreateThread
  <2> QED
    BY <2>1, RestMoves DEF Types, Rests
<1>4. CASE UNCHANGED thread
  BY <1>4 DEF Moved
<1> QED
  BY <1>1, <1>2, <1>3, <1>4
     DEF Next, Main, StartFails, JoinThreads, StopReturns, Stop, Signal, Client, Connect,
         ClientSend, ClientReceive, ClientFin, ClientReset, OnSocket, vars

-----------------------------------------------------------------------------
(***************************************************************************)
(* Main                                                                    *)
(***************************************************************************)

\* Before the threads are there nothing is allocated, and after them main stops.
MainInv ==
  /\ main = "start" => thread[Acceptor].at = "none" /\ allocated = {}
  /\ main = "stop" => \A t \in Threads : thread[t].at = "left"

LEMMA MainInit == Init => MainInv
BY Apart DEF Init, MainInv, Local

\* What changes main, and what ends the process.
LEMMA MainMoves ==
  ASSUME [Next]_vars
  PROVE  /\ Up' => Up
         /\ \/ UNCHANGED main
            \/ main = "start" /\ main' = "join"
            \/ main = "join" /\ main' = "stop" /\ (\A t \in Threads : thread[t].at = "left") /\ UNCHANGED thread
            \/ main' \in {"exit", "undefined"} /\ (StartFails \/ StopReturns \/ Stop)
<1> USE DEF Up, mainVars, otherVars, restVars
<1>1. CASE \E w \in Workers : Worker(w) \/ WaitFails(w)
  <2>1. PICK w \in Workers : Worker(w) \/ WaitFails(w)
    BY <1>1
  <2>2. CASE OnConnection(w)
    BY <2>2 DEF OnConnection, TryWrite, WriteNothing, WriteSome, Settle, WriteAgain,
                ClearWritable, WriteFails, SubmitAsyncWrite, SubmitAsyncRead, SubmitFails,
                BeginRemove, AlreadyRemoving, EndRemove
  <2> QED
    BY <2>1, <2>2 DEF Worker, WaitFails, WaitForEvents, ExitEvent, HangupEvent, OutputEvent,
                      ReadEvent, ReadNothing, HandleOutput, EventsDone, CompleteData,
                      CompleteNothing, CompletePipe, CompletionsDone
<1>2. CASE AcceptThread \/ AcceptFails
  <2>1. CASE OnConnection(Acceptor)
    BY <2>1 DEF OnConnection, TryWrite, WriteNothing, WriteSome, Settle, WriteAgain,
                ClearWritable, WriteFails, SubmitAsyncWrite, SubmitAsyncRead, SubmitFails,
                BeginRemove, AlreadyRemoving, EndRemove
  <2> QED
    BY <1>2, <2>1 DEF AcceptThread, AcceptFails, AcceptConnection, Refuse, AddConnection, AddFails,
                      SendWelcome, AcceptorLeaves
<1>3. CASE Main \/ Signal
  BY <1>3 DEF Main, CreateThread, StartFails, JoinThreads, StopReturns, Stop, Signal, serverVars
<1>4. CASE \E c \in Clients : Client(c)
  BY <1>4 DEF Client, Connect, ClientSend, ClientReceive, ClientFin, ClientReset, OnSocket
<1>5. CASE UNCHANGED vars
  BY <1>5 DEF vars
<1> QED
  BY <1>1, <1>2, <1>3, <1>4, <1>5 DEF Next

\* A thread that has not begun or has left takes no step.
LEMMA IdleThread ==
  ASSUME NEW t \in Threads, thread[t].at \in {"none", "left"}
  PROVE  ~OnConnection(t) /\ ~Worker(t) /\ ~WaitFails(t) /\ (t = Acceptor => ~AcceptThread /\ ~AcceptFails)
<1> USE DEF At
<1>1. ~OnConnection(t)
  BY DEF OnConnection, TryWrite, WriteNothing, WriteSome, Writes, Settle, WriteAgain,
         ClearWritable, WriteFails, SubmitAsyncWrite, SubmitAsyncRead, SubmitFails, BeginRemove,
         AlreadyRemoving, EndRemove
<1>2. ~Worker(t) /\ ~WaitFails(t)
  BY <1>1 DEF Worker, WaitFails, WaitForEvents, ExitEvent, HangupEvent, OutputEvent, HasEvent,
              ReadEvent, ReadNothing, HandleOutput, EventsDone, CompleteData, CompleteNothing,
              CompletePipe, CompletionsDone
<1>3. t = Acceptor => ~AcceptThread /\ ~AcceptFails
  BY <1>1 DEF AcceptThread, AcceptFails, AcceptConnection, Refuse, AddConnection, AddFails,
              SendWelcome, AcceptorLeaves
<1> QED
  BY <1>1, <1>2, <1>3

\* Whoever is not named by the step stays where it is.
LEMMA OthersStay ==
  ASSUME Types, [Next]_vars, NEW t \in Threads, thread[t].at \in {"none", "left"},
         ~CreateThread(t)
  PROVE  thread'[t] = thread[t]
<1>1. CASE \E w \in Workers : Worker(w) \/ WaitFails(w)
  BY <1>1, WorkerMoves, IdleThread
<1>2. CASE AcceptThread \/ AcceptFails
  BY <1>2, AcceptorMoves, IdleThread
<1>3. ASSUME NEW u \in Threads, CreateThread(u)
      PROVE  thread'[t] = thread[t]
  BY <1>3 DEF CreateThread, Types, ThreadType
<1>4. CASE UNCHANGED thread
  BY <1>4
<1> QED
  BY <1>1, <1>2, <1>3, <1>4
     DEF Next, Main, StartFails, JoinThreads, StopReturns, Stop, Signal, Client, Connect,
         ClientSend, ClientReceive, ClientFin, ClientReset, OnSocket, vars

\* Only the accept thread allocates.
LEMMA AllocMoves ==
  ASSUME Types, [Next]_vars
  PROVE  allocated' \subseteq allocated \/ AcceptConnection
<1>1. CASE \E t \in Threads : FillsBuffer(t) \/ BeginRemove(t) \/ EndRemove(t)
  BY <1>1, FillsIs DEF BeginRemove, EndRemove
<1>2. CASE \E w \in Workers : WorkerFills(w) \/ CompletePipe(w)
  BY <1>2, WorkerFillsIs DEF CompletePipe
<1> QED
  BY <1>1, <1>2, HeapMoves DEF connVars, AddConnection, AddFails, SendWelcome, Stop

LEMMA MainStep ==
  ASSUME Types, MainInv, [Next]_vars
  PROVE  MainInv'
<1>0. Acceptor \in Threads
  BY Apart
<1>1. ASSUME main' = "start"
      PROVE  thread'[Acceptor].at = "none" /\ allocated' = {}
  <2>1. main = "start" /\ thread[Acceptor].at = "none" /\ allocated = {}
    BY <1>1, MainMoves DEF MainInv
  <2>2. ~AcceptConnection
    BY <2>1 DEF AcceptConnection, At
  <2>3. ~CreateThread(Acceptor)
    BY <1>1 DEF CreateThread
  <2> QED
    BY <1>0, <2>1, <2>2, <2>3, AllocMoves, OthersStay
<1>2. ASSUME main' = "stop", NEW t \in Threads
      PROVE  thread'[t].at = "left"
  <2>1. CASE UNCHANGED main
    <3>1. thread[t].at = "left" /\ ~CreateThread(t)
      BY <1>2, <2>1 DEF MainInv, CreateThread
    <3> QED
      BY <3>1, OthersStay
  <2>2. CASE ~UNCHANGED main
    BY <1>2, <2>2, MainMoves
  <2> QED
    BY <2>1, <2>2
<1> QED
  BY <1>1, <1>2 DEF MainInv

-----------------------------------------------------------------------------
(***************************************************************************)
(* What leads to a connection                                              *)
(***************************************************************************)

\* The pointers in a queue, and those that the epoll instance of worker w holds.
Ptrs(q) == {e.ptr : e \in Range(q)}

Watching(w) ==
  {[block |-> watched[c].block, client |-> c] : c \in {d \in Clients : watched[d].worker = w}}

\* The pointers by which worker w itself comes to connections; those and the one by
\* which the accept thread does on its behalf; and the blocks they and the list of
\* the worker lead to.
Mine(w) ==
  {thread[w].ptr} \cup Ptrs(events[w]) \cup Ptrs(aio_ctx[w]) \cup Ptrs(aio_events[w])
    \cup Watching(w)

Points(w) == Mine(w) \cup {p \in {thread[Acceptor].ptr} : Context(Acceptor) = w}

Spots(w) == connections[w] \cup {p.block : p \in Points(w)}

\* Where new events come from.
LEMMA EventMoves ==
  ASSUME Types, [Next]_vars, NEW w \in Workers
  PROVE  \A e \in Range(events'[w]) :
           \/ e \in Range(events[w])
           \/ WaitForEvents(w) /\ (e = Exit \/ \E c \in Ready(w) : e = EventOf(c))
<1>0. events \in [Workers -> Seq(EventType)] /\ events[w] \in Seq(EventType)
  BY DEF Types, QueueType
<1>1. CASE UNCHANGED queueVars \/ (\E t \in Threads : Submits(t))
           \/ (\E v \in Workers : EventsDone(v) \/ TakesCompletion(v) \/ CompletionsDone(v))
  <2>1. UNCHANGED events
    BY <1>1, SubmitsIs DEF queueVars, EventsDone, TakesCompletion, CompleteData, CompleteNothing,
                           CompletePipe, CompletionsDone
  <2> QED
    BY <2>1
<1>2. ASSUME NEW v \in Workers, WaitForEvents(v)
      PROVE  \A e \in Range(events'[w]) :
               \/ e \in Range(events[w])
               \/ WaitForEvents(w) /\ (e = Exit \/ \E c \in Ready(w) : e = EventOf(c))
  <2>1. PICK list : /\ events' = [events EXCEPT ![v] = list]
                    /\ Range(list) \subseteq {EventOf(c) : c \in Ready(v)} \cup {Exit}
    BY <1>2, ReadyEvents DEF WaitForEvents
  <2>2. CASE v = w
    BY <1>0, <1>2, <2>1, <2>2
  <2>3. CASE v # w
    BY <1>0, <2>1, <2>3
  <2> QED
    BY <2>2, <2>3
<1>3. ASSUME NEW v \in Workers, ExitEvent(v) \/ TakesEvent(v)
      PROVE  Range(events'[w]) \subseteq Range(events[w])
  <2>1. CASE ExitEvent(v)
    <3>1. events'[w] \in {events[w], <<>>}
      BY <1>0, <2>1 DEF ExitEvent
    <3> QED
      BY <3>1, RangeEmpty
  <2>2. CASE TakesEvent(v)
    <3>1. events[v] # <<>> /\ events' = [events EXCEPT ![v] = Tail(@)]
      BY <2>2, TakesMoves
    <3>2. v = w => events[w] # <<>> /\ events'[w] = Tail(events[w])
      BY <1>0, <3>1
    <3>3. v # w => events'[w] = events[w]
      BY <1>0, <3>1
    <3> QED
      BY <1>0, <3>2, <3>3, TailInRange
  <2> QED
    BY <1>3, <2>1, <2>2
<1> QED
  BY <1>1, <1>2, <1>3, QueueMoves

\* Where new completions come from.
LEMMA ResultMoves ==
  ASSUME Types, [Next]_vars, NEW w \in Workers
  PROVE  /\ \A r \in Range(aio_ctx'[w]) :
              \/ r \in Range(aio_ctx[w])
              \/ \E t \in Threads, res \in Pipe .. BufSize :
                   /\ Submits(t) /\ Submitted(t, res) /\ Context(t) = w
                   /\ SubmitAsyncWrite(t) /\ res > 0 => Conn(t).fd \in mixed'
                   /\ r = [ptr |-> thread[t].ptr, res |-> res]
         /\ \A r \in Range(aio_events'[w]) : r \in Range(aio_events[w]) \cup Range(aio_ctx[w])
<1>0. /\ aio_ctx \in [Workers -> Seq(ResultType)] /\ aio_ctx[w] \in Seq(ResultType)
      /\ aio_events \in [Workers -> Seq(ResultType)] /\ aio_events[w] \in Seq(ResultType)
  BY DEF Types, QueueType
<1>1. CASE \/ UNCHANGED queueVars
           \/ \E v \in Workers : WaitForEvents(v) \/ ExitEvent(v) \/ TakesEvent(v)
  <2>1. UNCHANGED <<aio_ctx, aio_events>>
    BY <1>1 DEF queueVars, WaitForEvents, ExitEvent, TakesEvent, HangupEvent, OutputEvent,
                ReadEvent, ReadNothing
  <2> QED
    BY <2>1
<1>2. ASSUME NEW t \in Threads, Submits(t), NEW r \in Range(aio_ctx'[w])
      PROVE  \/ r \in Range(aio_ctx[w])
             \/ \E res \in Pipe .. BufSize :
                  /\ Submitted(t, res) /\ Context(t) = w
                  /\ SubmitAsyncWrite(t) /\ res > 0 => Conn(t).fd \in mixed'
                  /\ r = [ptr |-> thread[t].ptr, res |-> res]
  <2>1. PICK res \in Pipe .. BufSize :
          Submitted(t, res) /\ (SubmitAsyncWrite(t) /\ res > 0 => Conn(t).fd \in mixed')
    BY <1>2, SubmitsIs
  <2>2. PICK n \in ResultType : n = [ptr |-> thread[t].ptr, res |-> res]
    BY <1>2, SubmitsIs DEF ResultType
  <2>3. PICK v \in Workers : v = Context(t)
    BY ContextIs DEF Types
  <2>4. aio_ctx' = [aio_ctx EXCEPT ![v] = Append(@, n)]
    BY <2>1, <2>2, <2>3 DEF Submitted
  <2>5. CASE v = w
    <3>1. aio_ctx'[w] = Append(aio_ctx[w], n)
      BY <1>0, <2>4, <2>5
    <3>2. Range(aio_ctx'[w]) = Range(aio_ctx[w]) \cup {n}
      BY <1>0, <3>1, RangeAppend
    <3> QED
      BY <1>2, <2>1, <2>2, <2>3, <2>5, <3>2
  <2>6. CASE v # w
    <3>1. aio_ctx'[w] = aio_ctx[w]
      BY <1>0, <2>4, <2>6
    <3> QED
      BY <1>2, <3>1
  <2> QED
    BY <2>5, <2>6
<1>3. ASSUME NEW t \in Threads, Submits(t)
      PROVE  UNCHANGED aio_events
  BY <1>3, SubmitsIs
<1>4. ASSUME NEW v \in Workers, EventsDone(v)
      PROVE  /\ Range(aio_ctx'[w]) \subseteq Range(aio_ctx[w])
             /\ Range(aio_events'[w]) \subseteq Range(aio_events[w]) \cup Range(aio_ctx[w])
  <2>1. aio_ctx'[w] \in {aio_ctx[w], <<>>} /\ aio_events'[w] \in {aio_events[w], aio_ctx[w]}
    BY <1>0, <1>4 DEF EventsDone
  <2> QED
    BY <2>1, RangeEmpty
<1>5. ASSUME NEW v \in Workers, TakesCompletion(v)
      PROVE  UNCHANGED aio_ctx /\ Range(aio_events'[w]) \subseteq Range(aio_events[w])
  <2>1. /\ aio_events[v] # <<>> /\ aio_events' = [aio_events EXCEPT ![v] = Tail(@)]
        /\ UNCHANGED aio_ctx
    BY <1>5 DEF TakesCompletion, CompleteData, CompleteNothing, CompletePipe
  <2>2. v = w => aio_events[w] # <<>> /\ aio_events'[w] = Tail(aio_events[w])
    BY <1>0, <2>1
  <2>3. v # w => aio_events'[w] = aio_events[w]
    BY <1>0, <2>1
  <2> QED
    BY <1>0, <2>1, <2>2, <2>3, TailInRange
<1>6. ASSUME NEW v \in Workers, CompletionsDone(v)
      PROVE  UNCHANGED aio_ctx /\ Range(aio_events'[w]) \subseteq Range(aio_events[w])
  <2>1. UNCHANGED aio_ctx /\ aio_events'[w] \in {aio_events[w], <<>>}
    BY <1>0, <1>6 DEF CompletionsDone
  <2> QED
    BY <2>1, RangeEmpty
<1> QED
  BY <1>1, <1>2, <1>3, <1>4, <1>5, <1>6, QueueMoves

\* How a socket comes into epoll and out of it.
LEMMA WatchMoves ==
  ASSUME Types, [Next]_vars, NEW c \in Clients
  PROVE  \/ watched'[c] = watched[c]
         \/ watched'[c] = NoWatch
         \/ /\ AddConnection /\ c = Conn(Acceptor).fd
            /\ watched'[c] = [worker |-> Context(Acceptor), block |-> Block(Acceptor)]
<1>0. watched \in [Clients -> WatchType]
  BY DEF Types, SocketsType
<1>1. CASE \/ UNCHANGED <<socketVars, clientVars, records>>
           \/ \E t \in Threads : WriteSome(t) \/ Submits(t)
           \/ \E w \in Workers : WaitForEvents(w) \/ ReadEvent(w) \/ CompletePipe(w)
           \/ Refuse \/ AcceptConnection \/ AddFails \/ AcceptorLeaves
           \/ \E d \in Clients : Connect(d) \/ OnClient(d)
  BY <1>1, OnClientIs DEF socketVars, WriteSome, Submits, SubmitAsyncWrite, SubmitAsyncRead,
              WaitForEvents, ReadEvent, CompletePipe, Refuse, AcceptConnection, AddFails,
              AcceptorLeaves, Connect
<1>2. CASE (\E t \in Threads : BeginRemove(t)) \/ Stop
  BY <1>2 DEF BeginRemove, Stop, socketVars
<1>3. CASE AddConnection
  BY <1>0, <1>3 DEF AddConnection
<1> QED
  BY <1>1, <1>2, <1>3, DataMoves

\* How a connection comes onto the list of a worker.
LEMMA ListMoves ==
  ASSUME Types, [Next]_vars, NEW w \in Workers
  PROVE  \/ connections'[w] \subseteq connections[w]
         \/ /\ AddConnection /\ w = Context(Acceptor)
            /\ connections'[w] = connections[w] \cup {Block(Acceptor)}
<1>0. connections \in [Workers -> SUBSET Blocks]
  BY DEF Types, HeapType
<1>1. CASE \E t \in Threads : FillsBuffer(t) \/ BeginRemove(t)
  BY <1>1, FillsIs DEF BeginRemove
<1>2. ASSUME NEW t \in Threads, EndRemove(t)
      PROVE  connections'[w] \subseteq connections[w]
  BY <1>0, <1>2 DEF EndRemove
<1>3. CASE \E v \in Workers : WorkerFills(v) \/ CompletePipe(v)
  BY <1>3, WorkerFillsIs DEF CompletePipe
<1>4. CASE AddConnection
  BY <1>0, <1>4 DEF AddConnection
<1>5. CASE UNCHANGED connVars \/ AcceptConnection \/ AddFails \/ SendWelcome \/ Stop
  BY <1>5 DEF connVars, AcceptConnection, AddFails, SendWelcome, Stop
<1> QED
  BY <1>1, <1>2, <1>3, <1>4, <1>5, HeapMoves

\* Only the accept thread chooses the next worker.
LEMMA NextWorkerKept ==
  ASSUME [Next]_vars
  PROVE  UNCHANGED next_worker \/ AcceptConnection \/ Refuse
<1> USE DEF mainVars, otherVars, restVars
<1>1. CASE \E w \in Workers : Worker(w) \/ WaitFails(w)
  <2>1. PICK w \in Workers : Worker(w) \/ WaitFails(w)
    BY <1>1
  <2>2. CASE OnConnection(w)
    BY <2>2 DEF OnConnection, TryWrite, WriteNothing, WriteSome, Settle, WriteAgain,
                ClearWritable, WriteFails, SubmitAsyncWrite, SubmitAsyncRead, SubmitFails,
                BeginRemove, AlreadyRemoving, EndRemove
  <2> QED
    BY <2>1, <2>2 DEF Worker, WaitFails, WaitForEvents, ExitEvent, HangupEvent, OutputEvent,
                      ReadEvent, ReadNothing, HandleOutput, EventsDone, CompleteData,
                      CompleteNothing, CompletePipe, CompletionsDone
<1>2. CASE AcceptThread \/ AcceptFails
  <2>1. CASE OnConnection(Acceptor)
    BY <2>1 DEF OnConnection, TryWrite, WriteNothing, WriteSome, Settle, WriteAgain,
                ClearWritable, WriteFails, SubmitAsyncWrite, SubmitAsyncRead, SubmitFails,
                BeginRemove, AlreadyRemoving, EndRemove
  <2> QED
    BY <1>2, <2>1 DEF AcceptThread, AcceptFails, AddConnection, AddFails, SendWelcome,
                      AcceptorLeaves
<1>3. CASE Main \/ Signal
  BY <1>3 DEF Main, CreateThread, StartFails, JoinThreads, StopReturns, Stop, Signal, serverVars
<1>4. CASE \E c \in Clients : Client(c)
  BY <1>4 DEF Client, Connect, ClientSend, ClientReceive, ClientFin, ClientReset, OnSocket
<1>5. CASE UNCHANGED vars
  BY <1>5 DEF vars
<1> QED
  BY <1>1, <1>2, <1>3, <1>4, <1>5 DEF Next

-----------------------------------------------------------------------------
(***************************************************************************)
(* Whose a block is                                                        *)
(***************************************************************************)

Used(b) == heap[b].client # None

\* An open descriptor is that of the client the block was allocated for, whose
\* socket is still the server's; a removed connection has none, and a freed one has
\* been removed.
Homed ==
  \A b \in Blocks :
    /\ heap[b].fd \in Clients =>
         heap[b].fd = heap[b].client /\ b \in allocated /\ heap[b].fd \notin closed \cup cut
    /\ heap[b].is_removing => heap[b].fd = None
    /\ b \notin allocated /\ Used(b) => heap[b].is_removing
    /\ Used(b) => /\ heap[b].client \notin Range(backlog)
                  /\ heap[b].fd = heap[b].client \/ heap[b].client \in closed \cup cut

\* A client gets a block once.
OneBlock == \A b, d \in Blocks : Used(b) /\ heap[b].client = heap[d].client => b = d

\* Who waits for accept waits once, and has not been served.
Waiting ==
  /\ IsInjective(backlog)
  /\ \A c \in Range(backlog) : c \notin closed \cup cut

\* Whoever frees a connection has removed it, alone.
FreeOnce ==
  \A t \in Threads : thread[t].at = "free" =>
    /\ Block(t) \in allocated /\ Conn(t).is_removing
    /\ \A u \in Threads \ {t} : thread[u].at = "free" => Block(u) # Block(t)

\* Every pointer leads to a block that has been used, that of the accept thread to
\* the connection it has just created.
Reached == \A w \in Workers, b \in Blocks : b \in Spots(w) => Used(b)

AcceptorOwns ==
  thread[Acceptor].ptr # NoPtr => Conn(Acceptor).client = thread[Acceptor].ptr.client

HeapInv == Homed /\ OneBlock /\ Waiting /\ FreeOnce /\ Reached /\ AcceptorOwns

LEMMA ContextKept ==
  ASSUME [Next]_vars, ~AcceptConnection, ~Refuse, NEW t
  PROVE  Context(t)' = Context(t)
BY NextWorkerKept DEF Context

\* The accept thread enters its own connection.
LEMMA AddsOwn ==
  ASSUME Types, HeapInv, AddConnection
  PROVE  /\ thread[Acceptor].ptr \in Pointers /\ thread[Acceptor].at = "add"
         /\ Conn(Acceptor).fd = thread[Acceptor].ptr.client /\ Conn(Acceptor).fd \in Clients
         /\ thread[Acceptor].ptr = [block |-> Block(Acceptor), client |-> Conn(Acceptor).fd]
         /\ Context(Acceptor) \in Workers /\ Block(Acceptor) \in Blocks
<1>1. thread[Acceptor].at = "add" /\ Conn(Acceptor).fd \in Clients
  BY DEF AddConnection, At
<1>2. thread[Acceptor].ptr \in Pointers /\ Block(Acceptor) \in Blocks /\ Context(Acceptor) \in Workers
  BY <1>1, InHand, ContextIs, Apart DEF Types, ConnSteps
<1>3. Conn(Acceptor).client = thread[Acceptor].ptr.client
  BY <1>2, Apart DEF HeapInv, AcceptorOwns
<1>4. Conn(Acceptor).fd = Conn(Acceptor).client
  BY <1>1, <1>2 DEF HeapInv, Homed, Conn
<1>5. PICK p \in Pointers : p = thread[Acceptor].ptr
  BY <1>2
<1>6. p = [block |-> p.block, client |-> p.client]
  BY DEF Pointers
<1> QED
  BY <1>1, <1>2, <1>3, <1>4, <1>5, <1>6 DEF Block

LEMMA WatchingMoves ==
  ASSUME Types, HeapInv, [Next]_vars, NEW w \in Workers
  PROVE  Watching(w)' \subseteq Watching(w)
           \cup {p \in {thread[Acceptor].ptr} : Context(Acceptor) = w /\ AddConnection}
<1> SUFFICES ASSUME NEW c \in Clients, watched'[c].worker = w
             PROVE  [block |-> watched'[c].block, client |-> c]
                      \in Watching(w)
                           \cup {p \in {thread[Acceptor].ptr} : Context(Acceptor) = w /\ AddConnection}
  BY DEF Watching
<1>1. CASE watched'[c] = watched[c]
  BY <1>1 DEF Watching
<1>2. CASE watched'[c] = NoWatch
  BY <1>2, Apart DEF NoWatch
<1>3. CASE /\ AddConnection /\ c = Conn(Acceptor).fd
           /\ watched'[c] = [worker |-> Context(Acceptor), block |-> Block(Acceptor)]
  BY <1>3, AddsOwn
<1> QED
  BY <1>1, <1>2, <1>3, WatchMoves

LEMMA ReadyPoints ==
  ASSUME NEW w, NEW c \in Ready(w), Types
  PROVE  EventOf(c).ptr \in Watching(w)
<1>1. c \in Clients /\ watched[c].worker = w
  BY DEF Ready, Types, SocketsType
<1> QED
  BY <1>1 DEF EventOf, Event, Watching

\* A worker's pointers only come from where there are some: from the worker itself,
\* or from the accept thread when it adds a connection or submits an operation.
LEMMA MineShrinks ==
  ASSUME Types, HeapInv, [Next]_vars, NEW w \in Workers
  PROVE  Mine(w)' \subseteq Mine(w) \cup {NoPtr}
           \cup {p \in {thread[Acceptor].ptr} :
                   Context(Acceptor) = w /\ (AddConnection \/ Submits(Acceptor))}
<1> DEFINE Own == {p \in {thread[Acceptor].ptr} :
                     Context(Acceptor) = w /\ (AddConnection \/ Submits(Acceptor))}
<1>0. w \in Threads /\ w # Acceptor /\ Acceptor \in Threads
  BY Apart
<1>1. /\ {thread[w].ptr} \subseteq Mine(w) /\ Ptrs(events[w]) \subseteq Mine(w)
      /\ Ptrs(aio_ctx[w]) \subseteq Mine(w) /\ Ptrs(aio_events[w]) \subseteq Mine(w)
      /\ Watching(w) \subseteq Mine(w)
  BY DEF Mine
<1>2. thread'[w].ptr \in Mine(w) \cup {NoPtr}
  <2>1. CASE TakesEvent(w)
    <3>1. events[w] # <<>> /\ thread'[w].ptr \in {Head(events[w]).ptr, NoPtr}
      BY <2>1, TakesMoves
    <3>2. Head(events[w]) \in Range(events[w])
      BY <3>1, HeadInRange DEF Types, QueueType
    <3> QED
      BY <1>1, <3>1, <3>2 DEF Ptrs
  <2>2. CASE CompleteData(w)
    <3>1. aio_events[w] # <<>> /\ thread'[w].ptr = Head(aio_events[w]).ptr
      BY <1>0, <2>2, CompleteMoves DEF Types
    <3>2. Head(aio_events[w]) \in Range(aio_events[w])
      BY <3>1, HeadInRange DEF Types, QueueType
    <3> QED
      BY <1>1, <3>1, <3>2 DEF Ptrs
  <2>3. CASE thread'[w].ptr \in {thread[w].ptr, NoPtr}
    BY <1>1, <2>3
  <2> QED
    BY <1>0, <2>1, <2>2, <2>3, ThreadMoves DEF Moved, Keeps
<1>3. Ptrs(events'[w]) \subseteq Mine(w) \cup {NoPtr}
  <2> SUFFICES ASSUME NEW e \in Range(events'[w])
               PROVE  e.ptr \in Mine(w) \cup {NoPtr}
    BY DEF Ptrs
  <2>1. CASE e \in Range(events[w])
    BY <1>1, <2>1 DEF Ptrs
  <2>2. CASE e = Exit
    BY <2>2, Apart
  <2>3. ASSUME NEW c \in Ready(w), e = EventOf(c)
        PROVE  e.ptr \in Mine(w)
    BY <1>1, <2>3, ReadyPoints
  <2> QED
    BY <2>1, <2>2, <2>3, EventMoves
<1>4. Ptrs(aio_ctx'[w]) \subseteq Mine(w) \cup Own
  <2> SUFFICES ASSUME NEW r \in Range(aio_ctx'[w])
               PROVE  r.ptr \in Mine(w) \cup Own
    BY DEF Ptrs
  <2>1. CASE r \in Range(aio_ctx[w])
    BY <1>1, <2>1 DEF Ptrs
  <2>2. ASSUME NEW t \in Threads, NEW res \in Pipe .. BufSize, Submits(t), Context(t) = w,
               r = [ptr |-> thread[t].ptr, res |-> res]
        PROVE  r.ptr \in Mine(w) \cup Own
    <3>1. CASE t = Acceptor
      BY <2>2, <3>1
    <3>2. CASE t # Acceptor
      <4>1. t = w
        BY <2>2, <3>2 DEF Context
      <4> QED
        BY <1>1, <2>2, <4>1
    <3> QED
      BY <3>1, <3>2
  <2> QED
    BY <2>1, <2>2, ResultMoves
<1>5. Ptrs(aio_events'[w]) \subseteq Mine(w)
  BY <1>1, ResultMoves DEF Ptrs
<1>6. Watching(w)' \subseteq Mine(w) \cup Own
  BY <1>1, WatchingMoves
<1>7. Mine(w)' = {thread'[w].ptr} \cup Ptrs(events'[w]) \cup Ptrs(aio_ctx'[w])
        \cup Ptrs(aio_events'[w]) \cup Watching(w)'
  BY DEF Mine, Ptrs
<1> QED
  BY <1>2, <1>3, <1>4, <1>5, <1>6, <1>7

\* Pointers only come from where there are some, and with a new connection.
LEMMA PointsShrink ==
  ASSUME Types, HeapInv, [Next]_vars, ~AcceptConnection, NEW w \in Workers
  PROVE  Points(w)' \subseteq Points(w) \cup {NoPtr}
<1>1. Mine(w)' \subseteq Points(w) \cup {NoPtr}
  BY MineShrinks DEF Points
<1>2. {p \in {thread'[Acceptor].ptr} : Context(Acceptor)' = w} \subseteq Points(w) \cup {NoPtr}
  <2>1. thread'[Acceptor].ptr \in {thread[Acceptor].ptr, NoPtr}
    BY Apart, ThreadMoves DEF Moved, Keeps
  <2>2. CASE Refuse
    <3>1. thread'[Acceptor] = Local("loop")
      BY <2>2, Apart DEF Refuse, At, Types, ThreadType, Placed, ConnSteps
    <3> QED
      BY <3>1 DEF Local
  <2> QED
    BY <2>1, <2>2, ContextKept DEF Points
<1>3. Points(w)' = Mine(w)' \cup {p \in {thread'[Acceptor].ptr} : Context(Acceptor)' = w}
  BY DEF Points
<1> QED
  BY <1>1, <1>2, <1>3

LEMMA SpotsShrink ==
  ASSUME Types, HeapInv, [Next]_vars, ~AcceptConnection, NEW w \in Workers
  PROVE  Spots(w)' \subseteq Spots(w) \cup {None}
<1>1. {p.block : p \in Points(w)'} \subseteq {p.block : p \in Points(w)} \cup {None}
  BY PointsShrink, Apart
<1>2. connections'[w] \subseteq Spots(w)
  <2>1. CASE connections'[w] \subseteq connections[w]
    BY <2>1 DEF Spots
  <2>2. CASE /\ AddConnection /\ w = Context(Acceptor)
             /\ connections'[w] = connections[w] \cup {Block(Acceptor)}
    BY <2>2 DEF Spots, Points, Mine, Block
  <2> QED
    BY <2>1, <2>2, ListMoves
<1> QED
  BY <1>1, <1>2 DEF Spots

\* The steps that change whose a block is, or which clients the server has.
Owning ==
  \/ \E t \in Threads : BeginRemove(t) \/ EndRemove(t)
  \/ \E w \in Workers : CompletePipe(w)
  \/ Refuse \/ AcceptConnection \/ AddFails \/ AcceptorLeaves \/ Stop
  \/ \E c \in Clients : Connect(c)

LEMMA HeapFrame ==
  ASSUME Types, [Next]_vars, ~Owning
  PROVE  /\ \A b \in Blocks : SameConn(heap'[b], heap[b])
         /\ UNCHANGED <<allocated, backlog, closed, cut>>
<1>1. UNCHANGED allocated /\ \A b \in Blocks : SameConn(heap'[b], heap[b])
  <2>1. heap \in [Blocks -> Connection]
    BY DEF Types, HeapType
  <2>2. ASSUME NEW b \in Blocks, NEW conn, heap' = [heap EXCEPT ![b] = conn], SameConn(conn, heap[b])
        PROVE  \A d \in Blocks : SameConn(heap'[d], heap[d])
    BY <2>1, <2>2 DEF SameConn
  <2>3. CASE UNCHANGED connVars \/ AddConnection
    BY <2>3 DEF connVars, AddConnection, SameConn
  <2>4. ASSUME NEW t \in Threads, FillsBuffer(t)
        PROVE  UNCHANGED allocated /\ \A b \in Blocks : SameConn(heap'[b], heap[b])
    BY <2>2, <2>4, FillsIs DEF Conn
  <2>5. ASSUME NEW w \in Workers, WorkerFills(w)
        PROVE  UNCHANGED allocated /\ \A b \in Blocks : SameConn(heap'[b], heap[b])
    BY <2>2, <2>5, WorkerFillsIs
  <2>6. CASE SendWelcome
    BY <2>2, <2>6, SendWelcomeIs DEF Conn
  <2> QED
    BY <2>3, <2>4, <2>5, <2>6, HeapMoves DEF Owning
<1>2. UNCHANGED <<backlog, closed, cut>>
  <2>1. CASE UNCHANGED <<socketVars, clientVars, records>> \/ AddConnection
             \/ (\E t \in Threads : WriteSome(t) \/ Submits(t))
             \/ (\E w \in Workers : WaitForEvents(w) \/ ReadEvent(w))
    BY <2>1 DEF socketVars, clientVars, historyVars, records, otherVars, AddConnection,
                WriteSome, Submits, SubmitAsyncWrite, SubmitAsyncRead, WaitForEvents, ReadEvent
  <2>2. ASSUME NEW c \in Clients, OnClient(c)
        PROVE  UNCHANGED <<backlog, closed, cut>>
    BY <2>2, OnClientIs DEF historyVars
  <2> QED
    BY <2>1, <2>2, DataMoves DEF Owning
<1> QED
  BY <1>1, <1>2

\* A block keeps its client until it is given to the next.
LEMMA ClientsKept ==
  ASSUME Types, [Next]_vars, ~AcceptConnection
  PROVE  \A b \in Blocks : heap'[b].client = heap[b].client
<1>0. heap \in [Blocks -> Connection]
  BY DEF Types, HeapType
<1>1. CASE ~Owning
  BY <1>1, HeapFrame DEF SameConn
<1>2. ASSUME NEW b \in Blocks, NEW conn, heap' = [heap EXCEPT ![b] = conn],
             conn.client = heap[b].client
      PROVE  \A d \in Blocks : heap'[d].client = heap[d].client
  BY <1>0, <1>2
<1>3. ASSUME NEW t \in Threads, BeginRemove(t)
      PROVE  \A d \in Blocks : heap'[d].client = heap[d].client
  BY <1>2, <1>3, BeginRemoveIs DEF Removed, Conn
<1>4. CASE UNCHANGED heap
  BY <1>4
<1>5. ASSUME NEW w \in Workers, CompletePipe(w)
      PROVE  \A d \in Blocks : heap'[d].client = heap[d].client
  <2>1. PICK b \in Blocks, conn \in Connection :
          /\ heap' = [heap EXCEPT ![b] = conn]
          /\ conn = [heap[b] EXCEPT !.fd = IF @ = None THEN None ELSE Stdin]
    BY <1>5, CompletePipeIs DEF Fitting
  <2>2. conn.client = heap[b].client
    BY <1>0, <2>1 DEF Connection
  <2> QED
    BY <1>2, <2>1, <2>2
<1>6. CASE AddFails
  BY <1>2, <1>4, <1>6, AddFailsIs DEF Removed, Conn
<1> QED
  BY <1>1, <1>3, <1>4, <1>5, <1>6
     DEF Owning, EndRemove, Refuse, AcceptorLeaves, Stop, Connect, connVars

\* Only a remover comes to free a connection.
LEMMA FreeStays ==
  ASSUME Types, [Next]_vars, NEW t \in Threads, thread'[t].at = "free", ~BeginRemove(t)
  PROVE  thread'[t] = thread[t]
BY ThreadMoves DEF Moved, Quiet

LEMMA FreeOnceKept ==
  ASSUME Types, HeapInv, [Next]_vars, \A t \in Threads : ~BeginRemove(t),
         allocated \subseteq allocated',
         \A b \in allocated : heap[b].is_removing => heap'[b].is_removing
  PROVE  FreeOnce'
<1> SUFFICES ASSUME NEW t \in Threads, thread'[t].at = "free"
             PROVE  /\ Block(t)' \in allocated' /\ Conn(t)'.is_removing
                    /\ \A u \in Threads \ {t} : thread'[u].at = "free" => Block(u)' # Block(t)'
  BY DEF FreeOnce
<1>1. \A u \in Threads : thread'[u].at = "free" => thread'[u] = thread[u]
  BY FreeStays
<1>2. /\ Block(t) \in allocated /\ Conn(t).is_removing /\ Block(t)' = Block(t)
      /\ \A u \in Threads \ {t} : thread[u].at = "free" => Block(u) # Block(t)
  BY <1>1 DEF HeapInv, FreeOnce, Block
<1> QED
  BY <1>1, <1>2 DEF Block, Conn

\* What stays true of pointers.
LEMMA ReachedKept ==
  ASSUME Types, HeapInv, [Next]_vars, ~AcceptConnection
  PROVE  Reached' /\ AcceptorOwns'
<1>1. Reached'
  <2> SUFFICES ASSUME NEW w \in Workers, NEW b \in Blocks, b \in Spots(w)'
               PROVE  heap'[b].client # None
    BY DEF Reached, Used
  <2>1. b \in Spots(w)
    BY SpotsShrink, Apart
  <2> QED
    BY <2>1, ClientsKept DEF HeapInv, Reached, Used
<1>2. AcceptorOwns'
  <2>1. Acceptor \in Threads /\ thread'[Acceptor].ptr \in {thread[Acceptor].ptr, NoPtr}
    BY Apart, ThreadMoves DEF Moved, Keeps
  <2>2. CASE thread'[Acceptor].ptr = NoPtr
    BY <2>2 DEF AcceptorOwns
  <2>3. CASE thread'[Acceptor].ptr = thread[Acceptor].ptr /\ thread[Acceptor].ptr # NoPtr
    <3>1. Block(Acceptor) \in Blocks
      BY <2>1, <2>3, PointerParts DEF Block, Types, ThreadType, Place
    <3> QED
      BY <2>3, <3>1, ClientsKept DEF HeapInv, AcceptorOwns, Conn, Block
  <2> QED
    BY <2>1, <2>2, <2>3
<1> QED
  BY <1>1, <1>2

\* Closing a connection: the descriptor of block b goes, and its client is closed or
\* lost.
LEMMA HomedWithout ==
  ASSUME Types, HeapInv, NEW b \in Blocks, UNCHANGED backlog,
         heap' \in [Blocks -> Connection],
         \A d \in Blocks : d # b => heap'[d] = heap[d],
         heap'[b].fd \notin Clients, heap'[b].client = heap[b].client,
         heap'[b].is_removing => heap'[b].fd = None,
         b \notin allocated' /\ Used(b) => heap'[b].is_removing,
         \A d \in Blocks : d # b => (d \in allocated' <=> d \in allocated),
         closed' \cup cut' = closed \cup cut \cup ({heap[b].fd} \cap Clients)
  PROVE  Homed' /\ OneBlock' /\ Waiting'
<1>1. OneBlock'
  <2>1. \A d \in Blocks : heap'[d].client = heap[d].client
    OBVIOUS
  <2> QED
    BY <2>1 DEF HeapInv, OneBlock, Used
<1>2. Waiting'
  <2>1. heap[b].fd \in Clients => heap[b].fd \notin Range(backlog)
    BY Apart DEF HeapInv, Homed, Used
  <2> QED
    BY <2>1 DEF HeapInv, Waiting
<1>3. Homed'
  <2> SUFFICES ASSUME NEW d \in Blocks
               PROVE  /\ heap'[d].fd \in Clients =>
                           /\ heap'[d].fd = heap'[d].client /\ d \in allocated'
                           /\ heap'[d].fd \notin closed' \cup cut'
                      /\ heap'[d].is_removing => heap'[d].fd = None
                      /\ d \notin allocated' /\ heap'[d].client # None => heap'[d].is_removing
                      /\ heap'[d].client # None =>
                           /\ heap'[d].client \notin Range(backlog')
                           /\ heap'[d].fd = heap'[d].client \/ heap'[d].client \in closed' \cup cut'
    BY DEF Homed, Used
  <2>1. CASE d = b
    <3>1. heap[b].client # None =>
            /\ heap[b].client \notin Range(backlog)
            /\ heap[b].fd = heap[b].client \/ heap[b].client \in closed \cup cut
      BY DEF HeapInv, Homed, Used
    <3>2. heap[b].client # None => heap[b].client \in closed' \cup cut'
      <4>1. heap[b].client \in Clients \cup {None}
        BY DEF Types, HeapType, Connection
      <4> QED
        BY <3>1, <4>1
    <3> QED
      BY <2>1, <3>1, <3>2 DEF Used
  <2>2. CASE d # b
    <3>1. heap[d].fd \in Clients => heap[d].fd # heap[b].fd
      <4>1. SUFFICES ASSUME heap[d].fd \in Clients, heap[d].fd = heap[b].fd
                     PROVE  FALSE
        OBVIOUS
      <4>2. heap[d].client = heap[b].client /\ Used(b)
        BY <4>1, Apart DEF HeapInv, Homed, Used
      <4> QED
        BY <2>2, <4>2 DEF HeapInv, OneBlock
    <3> QED
      BY <2>2, <3>1 DEF HeapInv, Homed, Used
  <2> QED
    BY <2>1, <2>2
<1> QED
  BY <1>1, <1>2, <1>3

\* A thread's block has been used; what is used and not removed is allocated.
LEMMA InHandUsed ==
  ASSUME Types, HeapInv, NEW t \in Threads, thread[t].at \in ConnSteps
  PROVE  /\ Block(t) \in Blocks /\ Used(Block(t))
         /\ ~Conn(t).is_removing => Block(t) \in allocated
<1>1. Block(t) \in Blocks
  BY InHand DEF Types
<1>2. Used(Block(t))
  <2>1. CASE t \in Workers
    BY <1>1, <2>1 DEF HeapInv, Reached, Spots, Points, Mine, Block
  <2>2. CASE t = Acceptor
    <3>1. Context(Acceptor) \in Workers
      BY <2>2, ContextIs DEF Types
    <3> QED
      BY <1>1, <2>2, <3>1 DEF HeapInv, Reached, Spots, Points, Mine, Block
  <2> QED
    BY <2>1, <2>2, Apart
<1> QED
  BY <1>1, <1>2 DEF HeapInv, Homed, Conn

LEMMA BeginRemoveHeap ==
  ASSUME Types, HeapInv, [Next]_vars, NEW t \in Threads, BeginRemove(t)
  PROVE  HeapInv'
<1> DEFINE b == Block(t)
<1>0. /\ b \in Blocks /\ b \in allocated /\ ~heap[b].is_removing
      /\ heap \in [Blocks -> Connection] /\ heap' \in [Blocks -> Connection]
  <2>1. thread[t].at \in ConnSteps /\ ~Conn(t).is_removing
    BY BeginRemoveIs DEF ConnSteps
  <2> QED
    BY <2>1, InHandUsed, HeapStep DEF Types, HeapType, Conn
<1>1. PICK conn : heap' = [heap EXCEPT ![b] = conn] /\ Removed(conn, heap[b])
  BY BeginRemoveIs DEF Conn
<1>2. /\ \A d \in Blocks : d # b => heap'[d] = heap[d]
      /\ heap'[b].fd = None /\ heap'[b].client = heap[b].client /\ heap'[b].is_removing
  BY <1>0, <1>1 DEF Removed
<1>3. /\ closed' = closed \cup ({heap[b].fd} \cap Clients)
      /\ UNCHANGED <<backlog, allocated, cut>>
  BY DEF BeginRemove, Close, Conn
<1>4. Homed' /\ OneBlock' /\ Waiting'
  <2>1. closed' \cup cut' = closed \cup cut \cup ({heap[b].fd} \cap Clients)
    BY <1>3
  <2>2. heap'[b].fd \notin Clients
    BY <1>2, Apart
  <2> HIDE DEF b
  <2> QED
    BY <1>0, <1>2, <1>3, <2>1, <2>2, HomedWithout
<1>5. ~AcceptConnection
  BY DEF BeginRemove, AcceptConnection, clientVars, connVars, queueVars, At
<1>6. FreeOnce'
  <2>1. /\ thread'[t].at = "free" /\ thread'[t].ptr = thread[t].ptr
        /\ \A u \in Threads : u # t => thread'[u] = thread[u]
    BY GotoMoves DEF BeginRemove, Types
  <2>2. ASSUME NEW u \in Threads, u # t, thread[u].at = "free"
        PROVE  /\ Block(u) \in allocated /\ heap[Block(u)].is_removing
               /\ Block(u) # b
    BY <1>0, <2>2 DEF HeapInv, FreeOnce, Conn
  <2>3. ASSUME NEW u \in Threads, thread'[u].at = "free"
        PROVE  /\ Block(u)' \in allocated' /\ Conn(u)'.is_removing
               /\ \A v \in Threads \ {u} : thread'[v].at = "free" => Block(v)' # Block(u)'
    <3>1. CASE u = t
      BY <1>0, <1>2, <1>3, <2>1, <2>2, <3>1 DEF Block, Conn
    <3>2. CASE u # t
      <4>1. thread[u].at = "free" /\ thread'[u] = thread[u]
        BY <2>1, <2>3, <3>2
      <4>2. Block(u)' = Block(u) /\ Block(u) \in Blocks /\ Block(u) # b /\ heap'[Block(u)] = heap[Block(u)]
        BY <1>2, <2>2, <3>2, <4>1 DEF Block, Types, HeapType
      <4>3. \A v \in Threads \ {u} : v # t /\ thread'[v].at = "free" => Block(v)' # Block(u)'
        BY <2>1, <4>1 DEF HeapInv, FreeOnce, Block
      <4>4. Block(t)' = b
        BY <2>1 DEF Block
      <4> QED
        BY <1>3, <2>2, <3>2, <4>1, <4>2, <4>3, <4>4 DEF Conn
    <3> QED
      BY <3>1, <3>2
  <2> QED
    BY <2>3 DEF FreeOnce
<1> QED
  BY <1>4, <1>5, <1>6, ReachedKept DEF HeapInv

LEMMA EndRemoveHeap ==
  ASSUME Types, HeapInv, [Next]_vars, NEW t \in Threads, EndRemove(t)
  PROVE  HeapInv'
<1> DEFINE b == Block(t)
<1>1. /\ thread[t].at = "free" /\ Finish(t) /\ allocated' = allocated \ {b}
      /\ UNCHANGED <<heap, backlog, closed, cut>>
  BY DEF EndRemove, At, otherVars, clientVars, socketVars, historyVars
<1>2. b \in allocated /\ heap[b].is_removing /\ b \in Blocks
  BY <1>1 DEF HeapInv, FreeOnce, Conn, Types, HeapType
<1>3. Homed' /\ OneBlock' /\ Waiting'
  <2>1. heap[b].fd = None
    BY <1>2 DEF HeapInv, Homed
  <2> HIDE DEF b
  <2> QED
    BY <1>1, <1>2, <2>1, Apart DEF HeapInv, Homed, OneBlock, Waiting, Used
<1>4. ~AcceptConnection
  BY DEF EndRemove, AcceptConnection, otherVars, clientVars
<1>5. FreeOnce'
  <2>1. thread'[t].at # "free" /\ \A u \in Threads : u # t => thread'[u] = thread[u]
    BY <1>1, FinishedMoves DEF Types, Quiet
  <2>2. ASSUME NEW u \in Threads, thread'[u].at = "free"
        PROVE  /\ Block(u)' \in allocated' /\ Conn(u)'.is_removing
               /\ \A v \in Threads \ {u} : thread'[v].at = "free" => Block(v)' # Block(u)'
    <3>1. u # t /\ thread'[u] = thread[u]
      BY <2>1, <2>2
    <3>2. Block(u)' = Block(u) /\ Block(u) \in allocated /\ Conn(u).is_removing /\ Block(u) # b
      BY <1>1, <2>2, <3>1 DEF HeapInv, FreeOnce, Block
    <3>3. \A v \in Threads \ {u} : thread'[v].at = "free" => Block(v)' # Block(u)'
      BY <2>1, <2>2, <3>1 DEF HeapInv, FreeOnce, Block
    <3> QED
      BY <1>1, <3>2, <3>3 DEF Conn
  <2> QED
    BY <2>2 DEF FreeOnce
<1> QED
  BY <1>3, <1>4, <1>5, ReachedKept DEF HeapInv

LEMMA CompletePipeHeap ==
  ASSUME Types, HeapInv, [Next]_vars, NEW w \in Workers, CompletePipe(w)
  PROVE  HeapInv'
<1>0. heap \in [Blocks -> Connection] /\ heap' \in [Blocks -> Connection]
  BY HeapStep DEF Types, HeapType
<1>1. PICK b \in Blocks :
        /\ cut' = cut \cup ({heap[b].fd} \cap Clients)
        /\ \E conn : /\ heap' = [heap EXCEPT ![b] = conn]
                     /\ Fitting(conn) /\ conn = [heap[b] EXCEPT !.fd = IF @ = None THEN None ELSE Stdin]
  BY CompletePipeIs
<1>2. PICK f \in {None, Stdin}, conn \in Connection :
        /\ heap' = [heap EXCEPT ![b] = conn]
        /\ conn = [heap[b] EXCEPT !.fd = f]
        /\ heap[b].fd = None => f = None
  BY <1>1 DEF Fitting
<1>3. /\ \A d \in Blocks : d # b => heap'[d] = heap[d]
      /\ heap'[b].fd = f /\ heap'[b].client = heap[b].client
      /\ heap'[b].is_removing = heap[b].is_removing
  BY <1>0, <1>2 DEF Connection
<1>4. UNCHANGED <<backlog, allocated, closed>>
  BY DEF CompletePipe, otherVars, clientVars, socketVars
<1>5. Homed' /\ OneBlock' /\ Waiting'
  <2>1. closed' \cup cut' = closed \cup cut \cup ({heap[b].fd} \cap Clients)
    BY <1>1, <1>4
  <2>2. heap'[b].fd \notin Clients
    BY <1>2, <1>3, Apart
  <2>3. heap'[b].is_removing => heap'[b].fd = None
    BY <1>2, <1>3 DEF HeapInv, Homed
  <2>4. b \notin allocated' /\ Used(b) => heap'[b].is_removing
    BY <1>3, <1>4 DEF HeapInv, Homed
  <2> QED
    BY <1>0, <1>3, <1>4, <2>1, <2>2, <2>3, <2>4, HomedWithout
<1>6. ~AcceptConnection /\ \A t \in Threads : ~BeginRemove(t)
  <2>1. ~AcceptConnection
    BY DEF CompletePipe, AcceptConnection, otherVars
  <2>2. ASSUME NEW t \in Threads, BeginRemove(t)
        PROVE  FALSE
    <3>1. thread[t].at = "remove" /\ thread'[t].at = "free"
      BY <2>2, GotoMoves DEF BeginRemove, At, Types
    <3> QED
      BY <3>1 DEF CompletePipe
  <2> QED
    BY <2>1, <2>2
<1>7. FreeOnce'
  <2>1. \A d \in allocated : heap[d].is_removing => heap'[d].is_removing
    BY <1>3 DEF Types, HeapType
  <2> QED
    BY <1>4, <1>6, <2>1, FreeOnceKept
<1> QED
  BY <1>5, <1>6, <1>7, ReachedKept DEF HeapInv

\* The accept thread removes its own connection.
LEMMA AddFailsHeap ==
  ASSUME Types, HeapInv, [Next]_vars, AddFails
  PROVE  HeapInv'
<1> DEFINE b == Block(Acceptor)
<1>0. /\ b \in Blocks /\ thread[Acceptor].at = "add" /\ Used(b)
      /\ heap \in [Blocks -> Connection] /\ heap' \in [Blocks -> Connection]
      /\ UNCHANGED <<backlog, cut>>
  <2>1. thread[Acceptor].at = "add"
    BY AddFailsIs
  <2> QED
    BY <2>1, InHandUsed, Apart, HeapStep DEF Types, HeapType, ConnSteps, AddFails
<1>1. ~AcceptConnection /\ \A t \in Threads : ~BeginRemove(t)
  <2>1. ~AcceptConnection
    BY <1>0 DEF AcceptConnection, At
  <2>2. ASSUME NEW t \in Threads, BeginRemove(t)
        PROVE  FALSE
    <3>1. thread[t].at = "remove" /\ thread'[t].at = "free"
      BY <2>2, GotoMoves DEF BeginRemove, At, Types
    <3>2. t # Acceptor => thread'[t] = thread[t]
      BY Apart, GotoMoves DEF AddFails, Types
    <3> QED
      BY <1>0, <3>1, <3>2
  <2> QED
    BY <2>1, <2>2
<1>2. CASE UNCHANGED <<closed, heap, allocated>>
  <2>1. Homed' /\ OneBlock' /\ Waiting'
    BY <1>0, <1>2 DEF HeapInv, Homed, OneBlock, Waiting, Used
  <2>2. FreeOnce'
    BY <1>1, <1>2, FreeOnceKept
  <2> QED
    BY <1>1, <2>1, <2>2, ReachedKept DEF HeapInv
<1>3. CASE ~UNCHANGED <<closed, heap, allocated>>
  <2>1. /\ closed' = closed \cup ({heap[b].fd} \cap Clients)
        /\ allocated' = allocated \ {b}
        /\ \E conn : heap' = [heap EXCEPT ![b] = conn] /\ Removed(conn, heap[b])
    BY <1>3, AddFailsIs DEF Close, Conn
  <2>2. PICK conn : heap' = [heap EXCEPT ![b] = conn] /\ Removed(conn, heap[b])
    BY <2>1
  <2> HIDE DEF b
  <2>3. /\ \A d \in Blocks : d # b => heap'[d] = heap[d]
        /\ heap'[b].fd = None /\ heap'[b].client = heap[b].client /\ heap'[b].is_removing
    BY <1>0, <2>2 DEF Removed
  <2>4. Homed' /\ OneBlock' /\ Waiting'
    <3>1. closed' \cup cut' = closed \cup cut \cup ({heap[b].fd} \cap Clients)
      BY <1>0, <2>1
    <3>2. heap'[b].fd \notin Clients
      BY <2>3, Apart
    <3>3. \A d \in Blocks : d # b => (d \in allocated' <=> d \in allocated)
      BY <2>1
    <3> QED
      BY <1>0, <2>3, <3>1, <3>2, <3>3, HomedWithout
  <2>5. FreeOnce'
    <3> SUFFICES ASSUME NEW t \in Threads, thread'[t].at = "free"
                 PROVE  /\ Block(t)' \in allocated' /\ Conn(t)'.is_removing
                        /\ \A u \in Threads \ {t} : thread'[u].at = "free" => Block(u)' # Block(t)'
      BY DEF FreeOnce
    <3>1. \A u \in Threads : thread'[u].at = "free" => thread'[u] = thread[u]
      BY <1>1, FreeStays
    <3>2. /\ Block(t) \in allocated /\ Conn(t).is_removing /\ Block(t)' = Block(t)
          /\ \A u \in Threads \ {t} : thread[u].at = "free" => Block(u) # Block(t)
      BY <3>1 DEF HeapInv, FreeOnce, Block
    <3>3. Block(t) # b
      <4>1. CASE Block(t) = b
        <5>1. Conn(Acceptor).is_removing
          BY <3>2, <4>1 DEF Conn, b
        <5> QED
          BY <1>3, <5>1 DEF AddFails
      <4> QED
        BY <4>1
    <3> QED
      BY <2>1, <2>3, <3>1, <3>2, <3>3 DEF Block, Conn, Types, HeapType
  <2> QED
    BY <1>1, <2>4, <2>5, ReachedKept DEF HeapInv
<1> QED
  BY <1>2, <1>3

\* A step that neither changes connections nor removes one.
LEMMA HeapStays ==
  ASSUME Types, HeapInv, [Next]_vars, UNCHANGED <<heap, allocated>>, Homed', Waiting',
         ~AcceptConnection, \A t \in Threads : ~BeginRemove(t)
  PROVE  HeapInv'
<1>1. FreeOnce'
  BY FreeOnceKept
<1>2. OneBlock'
  BY DEF HeapInv, OneBlock, Used
<1> QED
  BY <1>1, <1>2, ReachedKept DEF HeapInv

\* A step of the accept thread at its loop is nobody's removal.
LEMMA LoopNotRemoves ==
  ASSUME Types, thread[Acceptor].at = "loop", \A u \in Threads : u # Acceptor => thread'[u] = thread[u]
  PROVE  \A t \in Threads : ~BeginRemove(t)
<1> SUFFICES ASSUME NEW t \in Threads, BeginRemove(t)
             PROVE  FALSE
  OBVIOUS
<1>1. thread[t].at = "remove" /\ thread'[t].at = "free"
  BY GotoMoves DEF BeginRemove, At, Types
<1> QED
  BY <1>1

\* The head of the backlog is closed.
LEMMA TurnedAway ==
  ASSUME Types, HeapInv, backlog # <<>>, backlog' = Tail(backlog),
         closed' = closed \cup {Head(backlog)}, UNCHANGED <<heap, allocated, cut>>
  PROVE  Homed' /\ Waiting'
<1>1. /\ Range(backlog) = {Head(backlog)} \cup Range(backlog')
      /\ Head(backlog) \notin Range(backlog') /\ IsInjective(backlog')
  BY RangeTail DEF HeapInv, Waiting, Types, ClientType
<1>2. Waiting'
  BY <1>1 DEF HeapInv, Waiting
<1>3. ASSUME NEW b \in Blocks
      PROVE  /\ heap[b].fd \in Clients =>
                  heap[b].fd = heap[b].client /\ b \in allocated /\ heap[b].fd \notin closed' \cup cut
             /\ heap[b].is_removing => heap[b].fd = None
             /\ b \notin allocated /\ Used(b) => heap[b].is_removing
             /\ Used(b) => /\ heap[b].client \notin Range(backlog')
                           /\ heap[b].fd = heap[b].client \/ heap[b].client \in closed' \cup cut
  <2>1. heap[b].fd \in Clients => heap[b].fd # Head(backlog)
    BY <1>1, Apart DEF HeapInv, Homed, Used
  <2> QED
    BY <1>1, <2>1 DEF HeapInv, Homed
<1> QED
  BY <1>2, <1>3 DEF Homed, Used

LEMMA RefuseHeap ==
  ASSUME Types, HeapInv, [Next]_vars, Refuse \/ AcceptorLeaves
  PROVE  HeapInv'
<1>1. /\ thread[Acceptor].at = "loop" /\ \A u \in Threads : u # Acceptor => thread'[u] = thread[u]
      /\ UNCHANGED <<heap, allocated, cut>>
  <2>1. AcceptThread
    BY DEF AcceptThread
  <2> QED
    BY <2>1, AcceptorMoves DEF Refuse, AcceptorLeaves, At, connVars
<1>2. ~AcceptConnection
  <2>1. CASE Refuse
    BY <2>1 DEF Refuse, AcceptConnection, connVars, At, Types, ThreadType, HeapType
  <2>2. CASE AcceptorLeaves
    BY <2>2 DEF AcceptorLeaves, AcceptConnection, Stopping
  <2> QED
    BY <2>1, <2>2
<1>3. Homed' /\ Waiting'
  <2>1. CASE UNCHANGED <<backlog, closed>>
    BY <1>1, <2>1 DEF HeapInv, Homed, Waiting, Used
  <2>2. CASE backlog # <<>> /\ backlog' = Tail(backlog) /\ Close({Head(backlog)})
    BY <1>1, <2>2, TurnedAway DEF Close
  <2> QED
    BY <2>1, <2>2 DEF Refuse, AcceptorLeaves
<1> QED
  BY <1>1, <1>2, <1>3, LoopNotRemoves, HeapStays

\* A client that connects has not been served.
LEMMA ConnectHeap ==
  ASSUME Types, HeapInv, [Next]_vars, NEW c \in Clients, Connect(c)
  PROVE  HeapInv'
<1>1. /\ c \notin closed \cup cut /\ c \notin Range(backlog) /\ \A b \in allocated : heap[b].fd # c
      /\ backlog' = Append(backlog, c)
      /\ UNCHANGED <<thread, heap, allocated, closed, cut, next_worker>>
  BY DEF Connect, Connected, Open, Range, connVars, socketVars, historyVars
<1>2. Range(backlog') = Range(backlog) \cup {c} /\ IsInjective(backlog')
  BY <1>1, RangeAppend DEF HeapInv, Waiting, Types, ClientType
<1>3. Waiting'
  BY <1>1, <1>2 DEF HeapInv, Waiting
<1>4. ASSUME NEW b \in Blocks, Used(b)
      PROVE  heap[b].client # c
  <2>1. SUFFICES ASSUME heap[b].client = c
                 PROVE  FALSE
    OBVIOUS
  <2>2. heap[b].fd = c
    BY <1>1, <1>4, <2>1 DEF HeapInv, Homed
  <2> QED
    BY <1>1, <2>2 DEF HeapInv, Homed
<1>5. Homed'
  BY <1>1, <1>2, <1>4 DEF HeapInv, Homed, Used
<1>6. ~AcceptConnection
  <2> SUFFICES ASSUME AcceptConnection
               PROVE  FALSE
    OBVIOUS
  <2>1. PICK l : thread' = [thread EXCEPT ![Acceptor] = l] /\ l.at = "add"
    BY AcceptConnectionIs
  <2>2. thread[Acceptor].at = "loop" /\ thread'[Acceptor].at = "add"
    BY <2>1, Apart DEF AcceptConnection, At, Types, ThreadType
  <2> QED
    BY <1>1, <2>2
<1>7. \A t \in Threads : ~BeginRemove(t)
  <2> SUFFICES ASSUME NEW t \in Threads, BeginRemove(t)
               PROVE  FALSE
    OBVIOUS
  <2>1. thread[t].at = "remove" /\ thread'[t].at = "free"
    BY GotoMoves DEF BeginRemove, At, Types
  <2> QED
    BY <1>1, <2>1
<1> QED
  BY <1>1, <1>3, <1>5, <1>6, <1>7, HeapStays

LEMMA FrameHeap ==
  ASSUME Types, HeapInv, [Next]_vars, ~Owning
  PROVE  HeapInv'
<1>0. /\ \A b \in Blocks : SameConn(heap'[b], heap[b])
      /\ UNCHANGED <<allocated, backlog, closed, cut>>
  BY HeapFrame
<1>1. ~AcceptConnection /\ \A t \in Threads : ~BeginRemove(t)
  BY DEF Owning
<1>2. Homed' /\ OneBlock' /\ Waiting'
  BY <1>0 DEF HeapInv, Homed, OneBlock, Waiting, Used, SameConn
<1>3. FreeOnce'
  <2>1. \A b \in allocated : heap[b].is_removing => heap'[b].is_removing
    BY <1>0 DEF SameConn, Types, HeapType
  <2> QED
    BY <1>0, <1>1, <2>1, FreeOnceKept
<1> QED
  BY <1>1, <1>2, <1>3, ReachedKept DEF HeapInv

\* Nothing leads to a block that is not referenced.
LEMMA ReferencedIs ==
  ASSUME Types, NEW b \in Blocks, ~Referenced(b), NEW w \in Workers
  PROVE  b \notin Spots(w)
<1>0. w \in Threads /\ Acceptor \in Threads
  BY Apart
<1>1. b \notin connections[w] /\ thread[w].ptr.block # b /\ thread[Acceptor].ptr.block # b
  BY <1>0 DEF Referenced, Block
<1>2. ASSUME NEW q \in {aio_ctx, aio_events}, NEW r \in Range(q[w])
      PROVE  r.ptr.block # b
  BY <1>2 DEF Referenced, Range
<1>3. ASSUME NEW e \in Range(events[w])
      PROVE  e.ptr.block # b
  BY <1>3 DEF Referenced, Range
<1>4. \A c \in Clients : watched[c].block # b
  BY DEF Referenced
<1>5. ASSUME NEW p \in Points(w)
      PROVE  p.block # b
  BY <1>1, <1>2, <1>3, <1>4 DEF Points, Mine, Ptrs, Watching
<1> QED
  BY <1>1, <1>5 DEF Spots

\* A new connection brings one pointer, that of the accept thread.
LEMMA AcceptPoints ==
  ASSUME Types, AcceptConnection, NEW w \in Workers
  PROVE  /\ Points(w)' \subseteq Points(w) \cup {p \in {thread'[Acceptor].ptr} : Context(Acceptor)' = w}
         /\ connections' = connections
         /\ \A u \in Threads : u # Acceptor => thread'[u] = thread[u]
<1>1. w \in Threads /\ w # Acceptor
  BY Apart
<1>2. \A u \in Threads : u # Acceptor => thread'[u] = thread[u]
  <2>1. AcceptThread
    BY DEF AcceptThread
  <2> QED
    BY <2>1, AcceptorMoves
<1>3. UNCHANGED <<events, aio_ctx, aio_events, watched, connections>>
  BY DEF AcceptConnection, queueVars, socketVars
<1>4. Ptrs(events[w])' = Ptrs(events[w]) /\ Ptrs(aio_ctx[w])' = Ptrs(aio_ctx[w])
      /\ Ptrs(aio_events[w])' = Ptrs(aio_events[w]) /\ Watching(w)' = Watching(w)
  BY <1>3 DEF Ptrs, Watching
<1>5. Points(w)' = {thread'[w].ptr} \cup Ptrs(events[w])' \cup Ptrs(aio_ctx[w])' \cup Ptrs(aio_events[w])'
        \cup Watching(w)' \cup {p \in {thread'[Acceptor].ptr} : Context(Acceptor)' = w}
  BY DEF Points, Mine, Ptrs
<1> QED
  BY <1>1, <1>2, <1>3, <1>4, <1>5 DEF Points, Mine

LEMMA AcceptHeap ==
  ASSUME Types, HeapInv, [Next]_vars, AcceptConnection
  PROVE  HeapInv'
<1>0. heap \in [Blocks -> Connection] /\ Acceptor \in Threads /\ thread \in [Threads -> Place]
  BY Apart DEF Types, HeapType, ThreadType
<1>1. PICK c \in Clients : c = Head(backlog) /\ backlog # <<>>
  BY AcceptConnectionIs
<1>2. PICK b \in Blocks \ allocated :
        /\ allocated' = allocated \cup {b}
        /\ heap' = [heap EXCEPT ![b] = NewConnection(c)]
        /\ \E l : /\ thread' = [thread EXCEPT ![Acceptor] = l]
                  /\ l.at = "add" /\ l.ptr = [block |-> b, client |-> c]
  BY <1>1, AcceptConnectionIs
<1>3. /\ thread'[Acceptor].at = "add" /\ thread'[Acceptor].ptr = [block |-> b, client |-> c]
      /\ \A u \in Threads : u # Acceptor => thread'[u] = thread[u]
  BY <1>0, <1>2
<1>4. /\ \A d \in Blocks : d # b => heap'[d] = heap[d]
      /\ heap'[b].fd = c /\ heap'[b].client = c /\ ~heap'[b].is_removing
  BY <1>0, <1>2 DEF NewConnection
<1>5. backlog' = Tail(backlog) /\ UNCHANGED <<closed, cut>>
  BY DEF AcceptConnection, socketVars
<1>6. /\ Range(backlog) = {c} \cup Range(backlog') /\ c \notin Range(backlog') /\ IsInjective(backlog')
      /\ c \notin closed \cup cut /\ c # None
  <2>1. backlog \in Seq(Clients) /\ IsInjective(backlog)
    BY DEF Types, ClientType, HeapInv, Waiting
  <2>2. /\ Range(backlog) = {c} \cup Range(backlog') /\ c \notin Range(backlog')
        /\ IsInjective(backlog')
    BY <1>1, <1>5, <2>1, RangeTail
  <2> QED
    BY <2>2, Apart DEF HeapInv, Waiting
<1>7. \A d \in Blocks : d # b /\ Used(d) => heap[d].client # c
  BY <1>6 DEF HeapInv, Homed
<1>8. Homed'
  <2> SUFFICES ASSUME NEW d \in Blocks
               PROVE  /\ heap'[d].fd \in Clients =>
                           /\ heap'[d].fd = heap'[d].client /\ d \in allocated'
                           /\ heap'[d].fd \notin closed' \cup cut'
                      /\ heap'[d].is_removing => heap'[d].fd = None
                      /\ d \notin allocated' /\ heap'[d].client # None => heap'[d].is_removing
                      /\ heap'[d].client # None =>
                           /\ heap'[d].client \notin Range(backlog')
                           /\ heap'[d].fd = heap'[d].client \/ heap'[d].client \in closed' \cup cut'
    BY DEF Homed, Used
  <2>1. CASE d = b
    BY <1>2, <1>4, <1>5, <1>6, <2>1
  <2>2. CASE d # b
    BY <1>2, <1>4, <1>5, <1>6, <2>2 DEF HeapInv, Homed, Used
  <2> QED
    BY <2>1, <2>2
<1>9. OneBlock'
  BY <1>4, <1>6, <1>7 DEF HeapInv, OneBlock, Used
<1>10. Waiting'
  BY <1>5, <1>6 DEF HeapInv, Waiting
<1>11. FreeOnce'
  <2>1. \A t \in Threads : ~BeginRemove(t)
    BY LoopNotRemoves, <1>3 DEF AcceptConnection, At
  <2>2. \A d \in allocated : heap[d].is_removing => heap'[d].is_removing
    BY <1>2, <1>4 DEF Types, HeapType
  <2> QED
    BY <1>2, <2>1, <2>2, FreeOnceKept
<1>12. Reached'
  <2> SUFFICES ASSUME NEW w \in Workers, NEW d \in Blocks, d \in Spots(w)'
               PROVE  heap'[d].client # None
    BY DEF Reached, Used
  <2>1. CASE d = b
    BY <1>4, <1>6, <2>1
  <2>2. CASE d # b
    <3>1. Spots(w)' \subseteq Spots(w) \cup {b}
      BY <1>3, AcceptPoints DEF Spots
    <3> QED
      BY <1>4, <2>2, <3>1 DEF HeapInv, Reached, Used
  <2> QED
    BY <2>1, <2>2
<1>13. AcceptorOwns'
  BY <1>3, <1>4 DEF AcceptorOwns, Conn, Block
<1> QED
  BY <1>8, <1>9, <1>10, <1>11, <1>12, <1>13 DEF HeapInv

LEMMA HeapInit == Init => HeapInv
<1> SUFFICES ASSUME Init
             PROVE  HeapInv
  OBVIOUS
<1>1. \A b \in Blocks : heap[b] = Blank
  BY DEF Init
<1>2. \A t \in Threads : thread[t] = Local("none")
  BY DEF Init
<1>3. Homed /\ OneBlock /\ FreeOnce /\ AcceptorOwns
  BY <1>1, <1>2, Apart DEF Homed, OneBlock, FreeOnce, AcceptorOwns, Used, Blank, Local
<1>4. Waiting
  BY RangeEmpty DEF Init, Waiting
<1>5. ASSUME NEW w \in Workers
      PROVE  Spots(w) \subseteq {None}
  <2>1. \A c \in Clients : watched[c] = NoWatch
    BY DEF Init
  <2>2. Watching(w) = {}
    BY <2>1, Apart DEF Watching, NoWatch
  <2>3. Points(w) \subseteq {NoPtr}
    BY <1>2, <2>2, Apart, RangeEmpty DEF Points, Mine, Ptrs, Init, Local
  <2> QED
    BY <2>3, Apart DEF Spots, Init
<1> QED
  BY <1>3, <1>4, <1>5, Apart DEF HeapInv, Reached

LEMMA HeapInvStep ==
  ASSUME Types, HeapInv, [Next]_vars, Up'
  PROVE  HeapInv'
<1>1. ~Stop
  BY DEF Stop, Up
<1> QED
  BY <1>1, FrameHeap, BeginRemoveHeap, EndRemoveHeap, CompletePipeHeap, RefuseHeap, AddFailsHeap,
     ConnectHeap, AcceptHeap DEF Owning

-----------------------------------------------------------------------------
(***************************************************************************)
(* What a worker still has to handle                                       *)
(***************************************************************************)

\* A worker that has events left comes back to them.
ComesBack == \A w \in Workers : events[w] # <<>> => thread[w].back = "event"

LEMMA BackInit == Init => ComesBack
BY DEF Init, ComesBack

\* A worker at rest is back where it is.
LEMMA RestBack ==
  ASSUME ThreadType, NEW t \in Threads, thread[t].at \notin ConnSteps
  PROVE  thread[t].back = thread[t].at /\ thread[t].ptr = NoPtr /\ thread[t] = Local(thread[t].at)
<1>1. thread[t] = Local(thread[t].at)
  BY DEF ThreadType, Placed
<1>2. \A at : Local(at).back = at /\ Local(at).ptr = NoPtr
  BY DEF Local
<1> QED
  BY <1>1, <1>2

LEMMA BackStep ==
  ASSUME Types, ComesBack, [Next]_vars
  PROVE  ComesBack'
<1> SUFFICES ASSUME NEW w \in Workers, events'[w] # <<>>
             PROVE  thread'[w].back = "event"
  BY DEF ComesBack
<1>0. w \in Threads /\ events \in [Workers -> Seq(EventType)] /\ ThreadType
  BY Apart DEF Types, QueueType
<1>1. CASE events'[w] = events[w] /\ thread'[w].back = thread[w].back
  BY <1>1 DEF ComesBack
<1>2. CASE events'[w] = events[w] /\ thread[w].at \in {"none", "loop", "complete", "left"}
  <2>1. thread[w].back # "event"
    BY <1>0, <1>2, RestBack DEF ConnSteps
  <2> QED
    BY <1>2, <2>1 DEF ComesBack
<1>3. CASE \E v \in Workers : Worker(v) \/ WaitFails(v)
  <2>1. PICK v \in Workers : Worker(v) \/ WaitFails(v)
    BY <1>3
  <2>2. CASE v # w
    <3>1. thread'[w] = thread[w]
      BY <1>0, <2>1, <2>2, WorkerMoves
    <3>2. events'[w] = events[w]
      <4>1. CASE UNCHANGED events
        BY <4>1
      <4>2. CASE OnConnection(v)
        <5>1. CASE Submits(v)
          BY <5>1, SubmitsIs, Apart
        <5>2. CASE ~Submits(v)
          BY <4>2, <5>2 DEF OnConnection, Submits, TryWrite, WriteNothing, WriteSome, Settle,
                            WriteAgain, ClearWritable, WriteFails, SubmitFails, BeginRemove,
                            AlreadyRemoving, EndRemove, restVars, queueVars
        <5> QED
          BY <5>1, <5>2
      <4>3. CASE TakesEvent(v)
        BY <1>0, <2>2, <4>3, TakesMoves
      <4> QED
        BY <1>0, <2>1, <2>2, <4>1, <4>2, <4>3
           DEF Worker, WaitFails, WaitForEvents, ExitEvent, TakesEvent, HandleOutput, EventsDone,
               CompleteData, CompleteNothing, CompletePipe, CompletionsDone, restVars, queueVars
    <3> QED
      BY <1>1, <3>1, <3>2
  <2>3. CASE v = w
    <3>1. CASE OnConnection(w)
      <4>1. thread'[w].back = thread[w].back
        BY <1>0, <3>1, ConnectionMoves
      <4>2. events' = events
        <5>1. CASE Submits(w)
          BY <1>0, <5>1, SubmitsIs
        <5>2. CASE ~Submits(w)
          BY <3>1, <5>2 DEF OnConnection, Submits, TryWrite, WriteNothing, WriteSome, Settle,
                            WriteAgain, ClearWritable, WriteFails, SubmitFails, BeginRemove,
                            AlreadyRemoving, EndRemove, restVars, queueVars
        <5> QED
          BY <5>1, <5>2
      <4> QED
        BY <1>1, <4>1, <4>2
    <3>2. CASE TakesEvent(w)
      BY <3>2, TakesMoves
    <3>3. CASE WaitForEvents(w)
      <4>1. thread'[w] = Local("event")
        BY <1>0, <3>3 DEF WaitForEvents, ThreadType
      <4> QED
        BY <4>1 DEF Local
    <3>4. CASE WaitFails(w) \/ CompletionsDone(w)
      BY <1>2, <3>4 DEF WaitFails, CompletionsDone, At, restVars, queueVars
    <3>5. CASE ExitEvent(w) \/ EventsDone(w)
      BY <1>0, <3>5 DEF ExitEvent, EventsDone
    <3>6. CASE HandleOutput(w)
      BY <1>0, <1>1, <3>6, OutputMoves DEF HandleOutput, queueVars
    <3>7. CASE CompleteData(w)
      BY <1>0, <1>1, <3>7, CompleteMoves DEF CompleteData
    <3>8. CASE CompleteNothing(w) \/ CompletePipe(w)
      BY <1>1, <3>8 DEF CompleteNothing, CompletePipe
    <3> QED
      BY <2>1, <2>3, <3>1, <3>2, <3>3, <3>4, <3>5, <3>6, <3>7, <3>8 DEF Worker, TakesEvent
  <2> QED
    BY <2>2, <2>3
<1>4. CASE AcceptThread \/ AcceptFails
  <2>1. thread'[w] = thread[w]
    BY <1>0, <1>4, AcceptorMoves, Apart
  <2>2. events' = events
    <3>1. CASE OnConnection(Acceptor)
      <4>1. CASE Submits(Acceptor)
        BY <4>1, SubmitsIs, Apart
      <4>2. CASE ~Submits(Acceptor)
        BY <3>1, <4>2 DEF OnConnection, Submits, TryWrite, WriteNothing, WriteSome, Settle,
                          WriteAgain, ClearWritable, WriteFails, SubmitFails, BeginRemove,
                          AlreadyRemoving, EndRemove, restVars, queueVars
      <4> QED
        BY <4>1, <4>2
    <3> QED
      BY <1>4, <3>1 DEF AcceptThread, AcceptFails, Refuse, AcceptConnection, AddConnection,
                        AddFails, SendWelcome, AcceptorLeaves, restVars, queueVars
  <2> QED
    BY <1>1, <2>1, <2>2
<1>5. ASSUME NEW t \in Threads, CreateThread(t)
      PROVE  thread'[w].back = "event"
  <2>1. events' = events /\ (t # w => thread'[w] = thread[w])
    BY <1>0, <1>5 DEF CreateThread, serverVars, queueVars, ThreadType
  <2>2. t = w => thread[w].at = "none"
    BY <1>5 DEF CreateThread, Created
  <2> QED
    BY <1>1, <1>2, <2>1, <2>2
<1>6. CASE UNCHANGED <<events, thread>>
  BY <1>1, <1>6
<1> QED
  BY <1>3, <1>4, <1>5, <1>6
     DEF Next, Main, StartFails, JoinThreads, StopReturns, Stop, Signal, Client, Connect,
         ClientSend, ClientReceive, ClientFin, ClientReset, OnSocket, vars, restVars, serverVars,
         queueVars

-----------------------------------------------------------------------------
(***************************************************************************)
(* What epoll has to say about a freed connection                          *)
(***************************************************************************)

\* Two pointers of one epoll_wait lead to different blocks, unless a completion has
\* overwritten a descriptor.
Differ(p, q) == p.block = q.block => {p.client, q.client} \cap cut # {}

\* A socket that epoll holds is that of the connection it is in epoll with, unless
\* its descriptor has been overwritten.
Watched ==
  \A c \in Clients \ cut : watched[c] # NoWatch => heap[watched[c].block].fd = c

\* A new connection is not in epoll before EPOLL_CTL_ADD.
Unwatched ==
  thread[Acceptor].at = "add" => watched[thread[Acceptor].ptr.client] = NoWatch

\* The events of one epoll_wait are of different connections, and none of them is
\* that of the connection in hand.
Spread(s) ==
  \A i, j \in DOMAIN s : i # j /\ s[i] # Exit /\ s[j] # Exit => Differ(s[i].ptr, s[j].ptr)

Away(ptr, s) == \A e \in Range(s) : e # Exit /\ ptr # NoPtr => Differ(ptr, e.ptr)

WatchInv ==
  /\ Watched /\ Unwatched
  /\ \A w \in Workers : Spread(events[w]) /\ Away(thread[w].ptr, events[w])

LEMMA WatchInit == Init => WatchInv
<1> SUFFICES ASSUME Init
             PROVE  WatchInv
  OBVIOUS
<1>1. Watched /\ Unwatched
  BY Apart DEF Init, Watched, Unwatched, Local
<1>2. \A w \in Workers : events[w] = <<>> /\ thread[w].ptr = NoPtr
  BY Apart DEF Init, Local
<1>3. Spread(<<>>) /\ Away(NoPtr, <<>>)
  BY DEF Spread, Away
<1> QED
  BY <1>1, <1>2, <1>3 DEF WatchInv

\* A descriptor that has been overwritten stays so.
LEMMA CutGrows ==
  ASSUME Types, [Next]_vars
  PROVE  cut \subseteq cut'
<1>1. CASE ~Owning
  BY <1>1, HeapFrame
<1>2. CASE Owning
  BY <1>2 DEF Owning, BeginRemove, EndRemove, CompletePipe, Refuse, AcceptConnection, AddFails,
              AcceptorLeaves, Stop, Connect, historyVars
<1> QED
  BY <1>1, <1>2

\* What becomes of an open descriptor.
LEMMA DescriptorMoves ==
  ASSUME Types, HeapInv, [Next]_vars, Up', NEW b \in Blocks, heap[b].fd \in Clients
  PROVE  \/ heap'[b].fd = heap[b].fd
         \/ \E t \in Threads : BeginRemove(t) /\ Block(t) = b
         \/ heap[b].fd \in cut'
         \/ AddFails /\ Block(Acceptor) = b
<1>0. heap \in [Blocks -> Connection] /\ b \in allocated
  BY DEF Types, HeapType, HeapInv, Homed
<1>1. ASSUME NEW d \in Blocks, NEW conn, heap' = [heap EXCEPT ![d] = conn], d # b
      PROVE  heap'[b].fd = heap[b].fd
  BY <1>0, <1>1
<1>2. CASE ~Owning
  BY <1>2, HeapFrame DEF SameConn
<1>3. ASSUME NEW t \in Threads, BeginRemove(t), Block(t) # b
      PROVE  heap'[b].fd = heap[b].fd
  <2>1. Block(t) \in Blocks
    BY <1>3, InHand DEF BeginRemove, At, ConnSteps, Types
  <2> QED
    BY <1>1, <1>3, <2>1, BeginRemoveIs
<1>4. CASE UNCHANGED heap
  BY <1>4
<1>5. ASSUME NEW w \in Workers, CompletePipe(w)
      PROVE  heap'[b].fd = heap[b].fd \/ heap[b].fd \in cut'
  <2>1. PICK d \in Blocks :
          /\ cut' = cut \cup ({heap[d].fd} \cap Clients)
          /\ \E conn : heap' = [heap EXCEPT ![d] = conn]
    BY <1>5, CompletePipeIs
  <2> QED
    BY <1>1, <2>1
<1>6. ASSUME AddFails, Block(Acceptor) # b
      PROVE  heap'[b].fd = heap[b].fd
  <2>1. Block(Acceptor) \in Blocks
    BY <1>6, InHand, Apart DEF AddFails, At, ConnSteps, Types
  <2> QED
    BY <1>1, <1>4, <1>6, <2>1, AddFailsIs
<1>7. CASE AcceptConnection
  <2>1. PICK d \in Blocks \ allocated : \E conn : heap' = [heap EXCEPT ![d] = conn]
    BY <1>7 DEF AcceptConnection
  <2> QED
    BY <1>0, <1>1, <2>1
<1>8. ~Stop
  BY DEF Stop, Up
<1> QED
  BY <1>2, <1>3, <1>4, <1>5, <1>6, <1>7, <1>8
     DEF Owning, EndRemove, Refuse, AcceptorLeaves, Connect, connVars

LEMMA WatchedStep ==
  ASSUME Types, HeapInv, WatchInv, [Next]_vars, Up'
  PROVE  Watched' /\ Unwatched'
<1>0. Acceptor \in Threads
  BY Apart
<1>1. Watched'
  <2> SUFFICES ASSUME NEW c \in Clients \ cut', watched'[c] # NoWatch
               PROVE  heap'[watched'[c].block].fd = c
    BY DEF Watched
  <2>1. CASE watched'[c] = watched[c]
    <3>1. PICK b \in Blocks : b = watched[c].block
      BY <2>1 DEF Types, SocketsType, WatchType
    <3>2. heap[b].fd = c
      BY <2>1, <3>1, CutGrows DEF WatchInv, Watched
    <3>3. ~(\E t \in Threads : BeginRemove(t) /\ Block(t) = b)
      BY <3>2 DEF BeginRemove, Conn
    <3>4. ~(AddFails /\ Block(Acceptor) = b)
      <4> SUFFICES ASSUME AddFails, Block(Acceptor) = b
                   PROVE  FALSE
        OBVIOUS
      <4>1. thread[Acceptor].at = "add" /\ thread[Acceptor].ptr # NoPtr
        BY <1>0, InHand, Apart DEF AddFails, At, ConnSteps, Types
      <4>2. c = thread[Acceptor].ptr.client
        BY <3>2, <4>1 DEF HeapInv, Homed, AcceptorOwns, Conn
      <4> QED
        BY <2>1, <4>1, <4>2 DEF WatchInv, Unwatched
    <3> QED
      BY <2>1, <3>1, <3>2, <3>3, <3>4, DescriptorMoves
  <2>2. CASE watched'[c] = NoWatch
    BY <2>2
  <2>3. CASE /\ AddConnection /\ c = Conn(Acceptor).fd
             /\ watched'[c] = [worker |-> Context(Acceptor), block |-> Block(Acceptor)]
    <3>1. UNCHANGED heap
      BY <2>3 DEF AddConnection
    <3> QED
      BY <2>3, <3>1 DEF Conn
  <2> QED
    BY <2>1, <2>2, <2>3, WatchMoves
<1>2. Unwatched'
  <2> SUFFICES ASSUME thread'[Acceptor].at = "add"
               PROVE  watched'[thread'[Acceptor].ptr.client] = NoWatch
    BY DEF Unwatched
  <2>1. thread'[Acceptor] = thread[Acceptor] \/ AcceptConnection
    BY <1>0, Apart, ThreadMoves DEF Moved, Quiet
  <2>2. CASE AcceptConnection
    <3>1. PICK c \in Clients : c = Head(backlog) /\ backlog # <<>>
      BY <2>2, AcceptConnectionIs
    <3>2. thread'[Acceptor].ptr.client = c
      <4>1. PICK b \in Blocks : \E l : /\ thread' = [thread EXCEPT ![Acceptor] = l]
                                      /\ l.ptr = [block |-> b, client |-> c]
        BY <2>2, <3>1, AcceptConnectionIs
      <4> QED
        BY <1>0, <4>1 DEF Types, ThreadType
    <3>3. c \in Range(backlog) /\ c \notin cut
      BY <3>1, HeadInRange DEF HeapInv, Waiting, Types, ClientType
    <3>4. watched[c] = NoWatch
      <4> SUFFICES ASSUME watched[c] # NoWatch
                   PROVE  FALSE
        OBVIOUS
      <4>1. PICK b \in Blocks : heap[b].fd = c
        BY <3>3 DEF WatchInv, Watched, Types, SocketsType, WatchType
      <4> QED
        BY <3>3, <4>1, Apart DEF HeapInv, Homed, Used
    <3> QED
      BY <2>2, <3>2, <3>4 DEF AcceptConnection, socketVars
  <2>3. CASE thread'[Acceptor] = thread[Acceptor] /\ ~AcceptConnection
    <3>1. PICK c \in Clients : c = thread[Acceptor].ptr.client
      BY <1>0, <2>3, InHand, PointerParts DEF ConnSteps, Types
    <3>2. watched[c] = NoWatch
      BY <2>3, <3>1 DEF WatchInv, Unwatched
    <3>3. ~AddConnection
      BY <1>0, <2>3, GotoMoves DEF AddConnection, Types
    <3> QED
      BY <2>3, <3>1, <3>2, <3>3, WatchMoves
  <2> QED
    BY <2>1, <2>2, <2>3
<1> QED
  BY <1>1, <1>2

LEMMA SpreadTail ==
  ASSUME NEW S, NEW s \in Seq(S), s # <<>>, Spread(s)
  PROVE  /\ Spread(Tail(s))
         /\ Head(s) # Exit => Away(Head(s).ptr, Tail(s))
<1>1. /\ Len(s) \in Nat \ {0} /\ DOMAIN s = 1 .. Len(s) /\ Head(s) = s[1]
      /\ DOMAIN Tail(s) = 1 .. Len(s) - 1
      /\ \A k \in 1 .. Len(s) - 1 : Tail(s)[k] = s[k + 1]
  BY EmptySeq, LenProperties, HeadTailProperties
<1>2. PICK n \in Nat \ {0} : n = Len(s)
  BY <1>1
<1>3. \A k \in 1 .. n - 1 : k + 1 \in 1 .. n /\ k + 1 # 1 /\ Tail(s)[k] = s[k + 1]
  BY <1>1, <1>2
<1>4. 1 \in 1 .. n
  BY <1>2
<1>5. Spread(Tail(s))
  <2> SUFFICES ASSUME NEW i \in 1 .. n - 1, NEW j \in 1 .. n - 1, i # j,
                      Tail(s)[i] # Exit, Tail(s)[j] # Exit
               PROVE  Differ(Tail(s)[i].ptr, Tail(s)[j].ptr)
    BY <1>1, <1>2 DEF Spread
  <2>1. i + 1 # j + 1 /\ i + 1 \in DOMAIN s /\ j + 1 \in DOMAIN s
    BY <1>1, <1>2
  <2> QED
    BY <1>3, <2>1 DEF Spread
<1>6. Head(s) # Exit => Away(Head(s).ptr, Tail(s))
  <2> SUFFICES ASSUME Head(s) # Exit, NEW k \in 1 .. n - 1, Tail(s)[k] # Exit
               PROVE  Differ(Head(s).ptr, Tail(s)[k].ptr)
    BY <1>1, <1>2 DEF Away, Range
  <2> QED
    BY <1>1, <1>2, <1>3, <1>4 DEF Spread
<1> QED
  BY <1>5, <1>6

\* epoll_wait returns one event for a socket.
LEMMA WaitSpread ==
  ASSUME Types, WatchInv, NEW w \in Workers,
         NEW s \in Orders({EventOf(c) : c \in Ready(w)} \cup (IF graceful_shutdown THEN {Exit} ELSE {}))
  PROVE  Spread(s)
<1>1. /\ Range(s) \subseteq {EventOf(c) : c \in Ready(w)} \cup {Exit}
      /\ IsInjective(s)
  BY ReadyEvents
<1> SUFFICES ASSUME NEW i \in DOMAIN s, NEW j \in DOMAIN s, i # j, s[i] # Exit, s[j] # Exit
             PROVE  Differ(s[i].ptr, s[j].ptr)
  BY DEF Spread
<1>2. s[i] \in Range(s) /\ s[j] \in Range(s) /\ s[i] # s[j]
  BY <1>1 DEF Range, IsInjective
<1>3. PICK c \in Ready(w), d \in Ready(w) : s[i] = EventOf(c) /\ s[j] = EventOf(d)
  BY <1>1, <1>2
<1>4. c # d
  BY <1>2, <1>3
<1>5. /\ s[i].ptr = [block |-> watched[c].block, client |-> c]
      /\ s[j].ptr = [block |-> watched[d].block, client |-> d]
  BY <1>3 DEF EventOf, Event
<1>6. /\ c \in Clients /\ watched[c].worker = w /\ watched[c] # NoWatch
      /\ d \in Clients /\ watched[d].worker = w /\ watched[d] # NoWatch
  BY Apart DEF Ready, Types, SocketsType, NoWatch
<1>7. watched[c].block = watched[d].block => {c, d} \cap cut # {}
  BY <1>4, <1>6 DEF WatchInv, Watched
<1> QED
  BY <1>5, <1>7 DEF Differ

\* What becomes of the events of a worker.
LEMMA EventsKept ==
  ASSUME Types, [Next]_vars, NEW w \in Workers
  PROVE  events'[w] \in {events[w], <<>>} \/ WaitForEvents(w) \/ TakesEvent(w)
<1>0. events \in [Workers -> Seq(EventType)]
  BY DEF Types, QueueType
<1>1. CASE UNCHANGED queueVars \/ (\E t \in Threads : Submits(t))
           \/ (\E v \in Workers : EventsDone(v) \/ TakesCompletion(v) \/ CompletionsDone(v))
  <2>1. UNCHANGED events
    BY <1>1, SubmitsIs DEF queueVars, EventsDone, TakesCompletion, CompleteData, CompleteNothing,
                           CompletePipe, CompletionsDone
  <2> QED
    BY <2>1
<1>2. ASSUME NEW v \in Workers, WaitForEvents(v), v # w
      PROVE  events'[w] = events[w]
  BY <1>0, <1>2 DEF WaitForEvents
<1>3. ASSUME NEW v \in Workers, ExitEvent(v)
      PROVE  events'[w] \in {events[w], <<>>}
  BY <1>0, <1>3 DEF ExitEvent
<1>4. ASSUME NEW v \in Workers, TakesEvent(v), v # w
      PROVE  events'[w] = events[w]
  BY <1>0, <1>4, TakesMoves
<1> QED
  BY <1>1, <1>2, <1>3, <1>4, QueueMoves

LEMMA SpreadStep ==
  ASSUME Types, ComesBack, WatchInv, [Next]_vars, NEW w \in Workers
  PROVE  Spread(events[w])' /\ Away(thread[w].ptr, events[w])'
<1> DEFINE Parted(ptr, s) == Spread(s) /\ Away(ptr, s)
<1>0. /\ w \in Threads /\ w # Acceptor /\ events[w] \in Seq(EventType)
      /\ events \in [Workers -> Seq(EventType)]
  BY Apart DEF Types, QueueType
<1>1. ASSUME NEW ptr, NEW s, s = events'[w], ptr = thread'[w].ptr, Parted(ptr, s)
      PROVE  Spread(events[w])' /\ Away(thread[w].ptr, events[w])'
  <2>1. ASSUME NEW p, NEW q, Differ(p, q)
        PROVE  Differ(p, q)'
    BY <2>1, CutGrows DEF Differ
  <2> QED
    BY <1>1, <2>1 DEF Spread, Away
<1>2. ASSUME NEW p
      PROVE  Parted(p, <<>>)
  BY DEF Spread, Away, Range
<1>3. ASSUME NEW s
      PROVE  Away(NoPtr, s)
  BY DEF Away
<1>4. Parted(thread[w].ptr, events[w])
  BY DEF WatchInv
<1>5. CASE WaitForEvents(w)
  <2>1. PICK s \in Orders({EventOf(c) : c \in Ready(w)} \cup (IF graceful_shutdown THEN {Exit} ELSE {})) :
          events' = [events EXCEPT ![w] = s]
    BY <1>5 DEF WaitForEvents
  <2>2. events'[w] = s /\ Spread(s)
    BY <1>0, <2>1, WaitSpread
  <2>3. thread'[w] = Local("event")
    BY <1>0, <1>5 DEF WaitForEvents, Types, ThreadType
  <2>4. thread'[w].ptr = NoPtr
    BY <2>3 DEF Local
  <2> QED
    BY <1>1, <1>3, <2>2, <2>4
<1>6. CASE TakesEvent(w)
  <2>1. /\ events[w] # <<>> /\ events'[w] = Tail(events[w])
        /\ thread'[w].ptr \in {Head(events[w]).ptr, NoPtr}
        /\ Head(events[w]) # Exit
    BY <1>0, <1>6, TakesMoves, TakesEventIs DEF HasEvent
  <2>2. Spread(Tail(events[w])) /\ Away(Head(events[w]).ptr, Tail(events[w]))
    BY <1>0, <1>4, <2>1, SpreadTail
  <2> QED
    BY <1>1, <1>3, <2>1, <2>2
<1>7. CASE ~WaitForEvents(w) /\ ~TakesEvent(w)
  <2>1. events'[w] \in {events[w], <<>>}
    BY <1>7, EventsKept
  <2>2. events'[w] # <<>> => thread'[w].ptr \in {thread[w].ptr, NoPtr}
    <3>1. CASE CompleteData(w)
      <4>1. thread[w] = Local("complete")
        BY <1>0, <3>1, CompleteMoves DEF Types
      <4>2. thread[w].back # "event"
        BY <4>1 DEF Local
      <4> QED
        BY <2>1, <4>2 DEF ComesBack
    <3>2. CASE ~CompleteData(w)
      BY <1>0, <1>7, <3>2, ThreadMoves DEF Moved, Keeps
    <3> QED
      BY <3>1, <3>2
  <2> HIDE DEF Parted
  <2>3. CASE events'[w] = <<>>
    BY <1>1, <1>2, <2>3
  <2>4. CASE events'[w] # <<>>
    <3>1. events'[w] = events[w]
      BY <2>1, <2>4
    <3>2. Parted(NoPtr, events[w])
      BY <1>3, <1>4 DEF Parted
    <3> QED
      BY <1>1, <1>4, <2>2, <2>4, <3>1, <3>2
  <2> QED
    BY <2>3, <2>4
<1> QED
  BY <1>5, <1>6, <1>7

LEMMA WatchInvStep ==
  ASSUME Types, HeapInv, ComesBack, WatchInv, [Next]_vars, Up'
  PROVE  WatchInv'
<1>1. Watched' /\ Unwatched'
  BY WatchedStep
<1>2. \A w \in Workers : Spread(events[w])' /\ Away(thread[w].ptr, events[w])'
  BY SpreadStep
<1> QED
  BY <1>1, <1>2 DEF WatchInv

-----------------------------------------------------------------------------
(***************************************************************************)
(* Removal                                                                 *)
(***************************************************************************)

\* What holds while the process is up: of blocks, of epoll and its events.
SafeInv == Types /\ MainInv /\ ComesBack /\ (Up => HeapInv /\ WatchInv)

LEMMA SafeInit == Init => SafeInv
BY TypesInit, MainInit, BackInit, HeapInit, WatchInit DEF SafeInv

LEMMA SafeStep == SafeInv /\ [Next]_vars => SafeInv'
<1> SUFFICES ASSUME SafeInv, [Next]_vars
             PROVE  SafeInv'
  OBVIOUS
<1>1. Types' /\ MainInv' /\ ComesBack'
  BY TypesStep, MainStep, BackStep DEF SafeInv
<1>2. ASSUME Up'
      PROVE  HeapInv' /\ WatchInv'
  BY <1>2, MainMoves, HeapInvStep, WatchInvStep DEF SafeInv
<1> QED
  BY <1>1, <1>2 DEF SafeInv

LEMMA SafeInvImpliesRemovalSafe == SafeInv => RemovalSafe
<1> SUFFICES ASSUME SafeInv, NEW t \in Threads, At(t, "free")
             PROVE  /\ Block(t) \in allocated
                    /\ \A u \in Threads \ {t} : At(u, "free") => Block(u) # Block(t)
                    /\ t \in Workers =>
                         \A i \in DOMAIN events[t] : events[t][i].ptr.block = Block(t) =>
                           {thread[t].ptr.client, events[t][i].ptr.client} \cap cut # {}
  BY DEF RemovalSafe
<1>1. thread[t].at = "free" /\ Up
  BY DEF At
<1>2. /\ Block(t) \in allocated
      /\ \A u \in Threads \ {t} : At(u, "free") => Block(u) # Block(t)
  BY <1>1 DEF SafeInv, HeapInv, FreeOnce, At
<1>3. ASSUME t \in Workers, NEW i \in DOMAIN events[t], events[t][i].ptr.block = Block(t)
      PROVE  {thread[t].ptr.client, events[t][i].ptr.client} \cap cut # {}
  <2>1. thread[t].ptr \in Pointers /\ Block(t) \in Blocks
    BY <1>1, InHand DEF SafeInv, Types, ConnSteps
  <2>2. thread[t].ptr # NoPtr /\ events[t][i] # Exit
    BY <1>3, <2>1, Apart
  <2>3. events[t][i] \in Range(events[t])
    BY DEF Range
  <2>4. Differ(thread[t].ptr, events[t][i].ptr)
    BY <1>1, <1>3, <2>2, <2>3 DEF SafeInv, WatchInv, Away
  <2> QED
    BY <1>3, <2>4 DEF Differ, Block
<1> QED
  BY <1>2, <1>3

\* For every number of clients, threads and blocks: a connection is removed by one
\* call of mt_remove_connection_safe at a time and never after it has been freed
\* (hybrid_proactor.c:678-681, 711), and no event that its remover has still to
\* handle points to its block, unless a completion has overwritten a descriptor
\* (line 656).
THEOREM RemovalIsSafe == Spec => []RemovalSafe
<1>1. SafeInv => RemovalSafe
  BY SafeInvImpliesRemovalSafe
<1> QED
  BY <1>1, SafeInit, SafeStep, PTL DEF Spec

\* For every number of clients, threads and blocks, and through stale pointers too:
\* an open descriptor is that of the client its block was allocated for, whose socket
\* is not yet closed, and of no other block, so that close (hybrid_proactor.c:692)
\* hits no other client's socket and none twice.  Descriptors are named by their
\* clients here: a number that accept hands out again is a new descriptor.
THEOREM DescriptorsOwned == Spec => [](Up => Homed /\ OneBlock)
<1>1. SafeInv => (Up => Homed /\ OneBlock)
  BY DEF SafeInv, HeapInv
<1> QED
  BY <1>1, SafeInit, SafeStep, PTL DEF Spec

-----------------------------------------------------------------------------
(***************************************************************************)
(* Whose list a connection is on                                           *)
(***************************************************************************)

\* The block holds a connection to which no stale pointer leads.
Clear(b) == heap[b].client \notin mixed

\* All that leads to it belongs to one worker.
OneWorker ==
  \A b \in Blocks : Clear(b) =>
    \A v, w \in Workers : b \in Spots(v) /\ b \in Spots(w) => v = w

\* Only the accept thread knows the connection it has not yet entered.
Fresh ==
  LET b == Block(Acceptor) IN
    thread[Acceptor].at = "add" /\ Clear(b) =>
      /\ heap[b] = NewConnection(heap[b].client)
      /\ \A w \in Workers : b \notin connections[w] /\ \A p \in Mine(w) : p.block # b

\* A pointer leads to the connection it was made for.
Meant ==
  \A w \in Workers : \A p \in Points(w) :
    p.block \in Blocks /\ Clear(p.block) => heap[p.block].client = p.client

OnList(b) == \E w \in Workers : b \in connections[w]

\* A connection is on a list as long as it is allocated, from when it is entered.
Listed ==
  \A b \in Blocks : Clear(b) =>
    /\ b \notin allocated => ~OnList(b)
    /\ b \in allocated => OnList(b) \/ (thread[Acceptor].at = "add" /\ Block(Acceptor) = b)

OwnerInv == OneWorker /\ Fresh /\ Meant /\ Listed

LEMMA OwnerInit == Init => OwnerInv
<1> SUFFICES ASSUME Init
             PROVE  OwnerInv
  OBVIOUS
<1>1. thread[Acceptor].at = "none"
  BY Apart DEF Init, Local
<1>2. ASSUME NEW w \in Workers
      PROVE  Spots(w) \subseteq {None} /\ Points(w) \subseteq {NoPtr} /\ connections[w] = {}
  <2>1. \A c \in Clients : watched[c] = NoWatch
    BY DEF Init
  <2>2. Watching(w) = {}
    BY <2>1, Apart DEF Watching, NoWatch
  <2>3. Points(w) \subseteq {NoPtr}
    BY <2>2, Apart, RangeEmpty DEF Points, Mine, Ptrs, Init, Local
  <2> QED
    BY <2>3, Apart DEF Spots, Init
<1>3. allocated = {}
  BY DEF Init
<1>4. OneWorker
  BY <1>2, Apart DEF OneWorker
<1>5. Meant
  BY <1>2, Apart DEF Meant
<1> QED
  BY <1>1, <1>2, <1>3, <1>4, <1>5 DEF OwnerInv, Fresh, Listed, OnList

\* A client that has been mixed up stays so.
LEMMA MixedGrows ==
  ASSUME [Next]_vars
  PROVE  mixed \subseteq mixed'
<1>1. CASE \/ UNCHANGED <<socketVars, clientVars, records>>
           \/ \E t \in Threads : BeginRemove(t)
           \/ \E w \in Workers : WaitForEvents(w) \/ CompletePipe(w)
           \/ Refuse \/ AddConnection \/ AddFails \/ AcceptorLeaves \/ Stop
           \/ \E c \in Clients : Connect(c) \/ OnClient(c)
  <2>1. UNCHANGED mixed
    BY <1>1 DEF historyVars, records, BeginRemove, WaitForEvents, CompletePipe, Refuse,
                AddConnection, AddFails, AcceptorLeaves, Stop, Connect, OnClient, ClientSend,
                ClientReceive, ClientFin, ClientReset, OnSocket
  <2> QED
    BY <2>1
<1>2. ASSUME NEW t \in Threads, WriteSome(t) \/ Submits(t)
      PROVE  mixed \subseteq mixed'
  BY <1>2 DEF WriteSome, Submits, SubmitAsyncWrite, SubmitAsyncRead, Mix, historyVars
<1>3. ASSUME NEW w \in Workers, ReadEvent(w)
      PROVE  mixed \subseteq mixed'
  BY <1>3 DEF ReadEvent, Mix
<1>4. CASE AcceptConnection
  BY <1>4 DEF AcceptConnection, Mix
<1> QED
  BY <1>1, <1>2, <1>3, <1>4, DataMoves

LEMMA ClearKept ==
  ASSUME Types, [Next]_vars, ~AcceptConnection, NEW b \in Blocks, Clear(b)'
  PROVE  Clear(b)
BY MixedGrows, ClientsKept DEF Clear

\* What the accept thread does with a connection it has not entered.
LEMMA AddLeaves ==
  ASSUME Types, [Next]_vars, thread[Acceptor].at = "add"
  PROVE  \/ thread'[Acceptor] = thread[Acceptor] /\ ~AddConnection /\ ~AddFails
         \/ AddConnection \/ AddFails
<1>0. Acceptor \in Threads
  BY Apart
<1>1. CASE \E w \in Workers : Worker(w) \/ WaitFails(w)
  BY <1>0, <1>1, WorkerMoves, Apart
<1>2. CASE AcceptThread \/ AcceptFails
  <2>1. CASE OnConnection(Acceptor)
    BY <2>1 DEF OnConnection, TryWrite, WriteNothing, WriteSome, Writes, Settle, WriteAgain,
                ClearWritable, WriteFails, SubmitAsyncWrite, SubmitAsyncRead, SubmitFails,
                BeginRemove, AlreadyRemoving, EndRemove, At
  <2> QED
    BY <1>2, <2>1 DEF AcceptThread, AcceptFails, Refuse, AcceptConnection, SendWelcome,
                      AcceptorLeaves, At
<1>3. ASSUME NEW t \in Threads, CreateThread(t)
      PROVE  thread'[Acceptor] = thread[Acceptor]
  BY <1>0, <1>3 DEF CreateThread, Created, Types, ThreadType
<1>4. CASE UNCHANGED thread
  BY <1>4
<1> QED
  BY <1>1, <1>2, <1>3, <1>4
     DEF Next, Main, StartFails, JoinThreads, StopReturns, Stop, Signal, Client, Connect,
         ClientSend, ClientReceive, ClientFin, ClientReset, OnSocket, vars

\* What a worker fills it has a pointer to.
LEMMA FilledMine ==
  ASSUME Types, NEW w \in Workers, WorkerFills(w) \/ CompletePipe(w)
  PROVE  /\ WorkerFills(w) => \E p \in Mine(w) : p.block = FilledBlock(w)
         /\ CompletePipe(w) => \E p \in Mine(w) : p.block = Head(aio_events[w]).ptr.block
<1>1. CASE ReadEvent(w)
  <2>1. At(w, "event") /\ events[w] # <<>>
    BY <1>1 DEF ReadEvent, HasEvent
  <2>2. Head(events[w]) \in Range(events[w])
    BY <2>1, HeadInRange DEF Types, QueueType
  <2> QED
    BY <1>1, <2>1, <2>2 DEF FilledBlock, Mine, Ptrs, ReadEvent, CompletePipe, HasEvent, At
<1>2. CASE HandleOutput(w)
  BY <1>2 DEF HandleOutput, FilledBlock, Mine, At, Block, CompletePipe
<1>3. CASE CompleteData(w) \/ CompletePipe(w)
  <2>1. At(w, "complete") /\ aio_events[w] # <<>>
    BY <1>3 DEF CompleteData, CompletePipe
  <2>2. Head(aio_events[w]) \in Range(aio_events[w])
    BY <2>1, HeadInRange DEF Types, QueueType
  <2>3. FilledBlock(w) = Head(aio_events[w]).ptr.block
    BY <2>1 DEF FilledBlock, At
  <2> QED
    BY <2>2, <2>3 DEF Mine, Ptrs
<1> QED
  BY <1>1, <1>2, <1>3 DEF WorkerFills

\* Nobody touches the connection that the accept thread has not entered.
LEMMA FreshKept ==
  ASSUME Types, [Next]_vars, NEW b \in Blocks, thread[Acceptor].at = "add",
         ~AddConnection, ~AddFails, \A w \in Workers : \A p \in Mine(w) : p.block # b
  PROVE  heap'[b] = heap[b]
<1>0. heap \in [Blocks -> Connection]
  BY DEF Types, HeapType
<1>1. ASSUME NEW d \in Blocks, NEW conn, heap' = [heap EXCEPT ![d] = conn], d # b
      PROVE  heap'[b] = heap[b]
  BY <1>0, <1>1
<1>2. ASSUME NEW t \in Threads, FillsBuffer(t) \/ BeginRemove(t)
      PROVE  heap'[b] = heap[b]
  <2>1. thread[t].at # "add"
    BY <1>2 DEF FillsBuffer, Settle, ClearWritable, SubmitAsyncRead, BeginRemove, At
  <2>2. t \in Workers
    BY <2>1, Apart
  <2>3. Block(t) # b
    BY <2>2 DEF Mine, Block
  <2> QED
    BY <1>1, <1>2, <2>3, FillsIs, BeginRemoveIs
<1>3. ASSUME NEW w \in Workers, WorkerFills(w) \/ CompletePipe(w)
      PROVE  heap'[b] = heap[b]
  <2>1. CASE WorkerFills(w)
    BY <1>1, <2>1, FilledMine, WorkerFillsIs
  <2>2. CASE CompletePipe(w)
    <3>1. PICK d \in Blocks : /\ d = Head(aio_events[w]).ptr.block
                             /\ \E conn : heap' = [heap EXCEPT ![d] = conn]
      BY <2>2, CompletePipeIs
    <3>2. d # b
      BY <2>2, <3>1, FilledMine
    <3> QED
      BY <1>1, <3>1, <3>2
  <2> QED
    BY <1>3, <2>1, <2>2
<1>4. CASE UNCHANGED connVars \/ (\E t \in Threads : EndRemove(t)) \/ Stop
  BY <1>4 DEF connVars, EndRemove, Stop
<1>5. ~AcceptConnection /\ ~SendWelcome
  BY DEF AcceptConnection, SendWelcome, At
<1> QED
  BY <1>2, <1>3, <1>4, <1>5, HeapMoves


\* What takes a connection off a list, and what frees it.
LEMMA UnlistedBy ==
  ASSUME Types, [Next]_vars, Up', NEW b, NEW w \in Workers, b \in connections[w], b \notin connections'[w]
  PROVE  \E t \in Threads : EndRemove(t) /\ Block(t) = b
<1>0. connections \in [Workers -> SUBSET Blocks]
  BY DEF Types, HeapType
<1>1. ASSUME NEW t \in Threads, EndRemove(t)
      PROVE  Block(t) = b
  BY <1>0, <1>1 DEF EndRemove
<1>2. CASE AddConnection
  BY <1>0, <1>2 DEF AddConnection
<1>3. ~Stop
  BY DEF Stop, Up
<1>4. CASE \/ UNCHANGED connVars
           \/ \E t \in Threads : FillsBuffer(t) \/ BeginRemove(t)
           \/ \E v \in Workers : WorkerFills(v) \/ CompletePipe(v)
           \/ AcceptConnection \/ AddFails \/ SendWelcome
  <2>1. UNCHANGED connections
    BY <1>4, FillsIs, WorkerFillsIs
       DEF connVars, BeginRemove, CompletePipe, AcceptConnection, AddFails, SendWelcome
  <2> QED
    BY <2>1
<1> QED
  BY <1>1, <1>2, <1>3, <1>4, HeapMoves

LEMMA FreedBy ==
  ASSUME Types, [Next]_vars, Up', NEW b, b \in allocated, b \notin allocated'
  PROVE  (\E t \in Threads : EndRemove(t) /\ Block(t) = b) \/ (AddFails /\ Block(Acceptor) = b)
<1>1. ASSUME NEW t \in Threads, EndRemove(t)
      PROVE  Block(t) = b
  BY <1>1 DEF EndRemove
<1>2. CASE AddFails
  BY <1>2, AddFailsIs
<1>3. ~Stop
  BY DEF Stop, Up
<1>4. CASE \/ UNCHANGED connVars
           \/ \E t \in Threads : FillsBuffer(t) \/ BeginRemove(t)
           \/ \E v \in Workers : WorkerFills(v) \/ CompletePipe(v)
           \/ AcceptConnection \/ AddConnection \/ SendWelcome
  <2>1. allocated \subseteq allocated'
    BY <1>4, FillsIs, WorkerFillsIs
       DEF connVars, BeginRemove, CompletePipe, AcceptConnection, AddConnection, SendWelcome
  <2> QED
    BY <2>1
<1> QED
  BY <1>1, <1>2, <1>3, <1>4, HeapMoves

\* A thread's own block is among those of the worker it works for.
LEMMA OwnSpot ==
  ASSUME Types, NEW t \in Threads
  PROVE  Context(t) \in Workers /\ Block(t) \in Spots(Context(t))
<1>1. Context(t) \in Workers
  BY ContextIs DEF Types
<1>2. CASE t \in Workers
  <2>1. Context(t) = t
    BY <1>2, Apart DEF Context
  <2> QED
    BY <1>1, <2>1 DEF Spots, Points, Mine, Block
<1>3. CASE t = Acceptor
  BY <1>1, <1>3 DEF Spots, Points, Block
<1> QED
  BY <1>2, <1>3, Apart

LEMMA OwnersKept ==
  ASSUME Types, HeapInv, OwnerInv, [Next]_vars, ~AcceptConnection
  PROVE  OneWorker' /\ Meant'
<1>1. OneWorker'
  <2> SUFFICES ASSUME NEW b \in Blocks, Clear(b)', NEW v \in Workers, NEW w \in Workers,
                      b \in Spots(v)', b \in Spots(w)'
               PROVE  v = w
    BY DEF OneWorker
  <2>1. b \in Spots(v) /\ b \in Spots(w)
    BY SpotsShrink, Apart
  <2> QED
    BY <2>1, ClearKept DEF OwnerInv, OneWorker
<1>2. Meant'
  <2> SUFFICES ASSUME NEW w \in Workers, NEW p \in Points(w)', p.block \in Blocks, Clear(p.block)'
               PROVE  heap'[p.block].client = p.client
    BY DEF Meant
  <2>1. p \in Points(w)
    BY PointsShrink, Apart
  <2>2. Clear(p.block)
    BY ClearKept
  <2> QED
    BY <2>1, <2>2, ClientsKept DEF OwnerInv, Meant
<1> QED
  BY <1>1, <1>2

LEMMA FreshStep ==
  ASSUME Types, HeapInv, OwnerInv, [Next]_vars, ~AcceptConnection
  PROVE  Fresh'
<1> SUFFICES ASSUME thread'[Acceptor].at = "add", Clear(Block(Acceptor))'
             PROVE  /\ Conn(Acceptor)' = NewConnection(Conn(Acceptor)'.client)
                    /\ \A w \in Workers : /\ Block(Acceptor)' \notin connections'[w]
                                          /\ \A p \in Mine(w)' : p.block # Block(Acceptor)'
  BY DEF Fresh, Conn
<1>1. thread'[Acceptor] = thread[Acceptor] /\ Block(Acceptor)' = Block(Acceptor)
  BY Apart, ThreadMoves DEF Moved, Quiet, Block
<1>2. PICK b \in Blocks : b = Block(Acceptor)
  BY <1>1, InHand, Apart DEF Types, ConnSteps
<1>3. ~AddConnection /\ ~AddFails
  BY <1>1, GotoMoves, Apart DEF AddConnection, AddFails, Types
<1>4. ~Submits(Acceptor)
  BY <1>1 DEF Submits, SubmitAsyncWrite, SubmitAsyncRead, At
<1>5. Clear(b)
  <2>1. Clear(b)'
    BY <1>1, <1>2 DEF Clear
  <2> QED
    BY <1>2, <2>1, ClearKept
<1>6. /\ heap[b] = NewConnection(heap[b].client)
      /\ \A w \in Workers : b \notin connections[w] /\ \A p \in Mine(w) : p.block # b
  BY <1>1, <1>2, <1>5 DEF OwnerInv, Fresh
<1>7. heap'[b] = heap[b]
  BY <1>1, <1>3, <1>6, FreshKept
<1>8. ASSUME NEW w \in Workers
      PROVE  b \notin connections'[w] /\ \A p \in Mine(w)' : p.block # b
  <2>1. connections'[w] \subseteq connections[w]
    BY <1>3, ListMoves
  <2>2. Mine(w)' \subseteq Mine(w) \cup {NoPtr}
    BY <1>3, <1>4, MineShrinks
  <2> QED
    BY <1>6, <2>1, <2>2, Apart
<1> QED
  BY <1>1, <1>2, <1>6, <1>7, <1>8 DEF Conn

LEMMA ListedStep ==
  ASSUME Types, HeapInv, OwnerInv, [Next]_vars, ~AcceptConnection, Up'
  PROVE  Listed'
<1> SUFFICES ASSUME NEW b \in Blocks, Clear(b)'
             PROVE  /\ b \notin allocated' => \A w \in Workers : b \notin connections'[w]
                    /\ b \in allocated' =>
                         \/ \E w \in Workers : b \in connections'[w]
                         \/ thread'[Acceptor].at = "add" /\ Block(Acceptor)' = b
  BY DEF Listed, OnList
<1>1. Clear(b)
  BY ClearKept
<1>2. ASSUME b \notin allocated', NEW w \in Workers, b \in connections'[w]
      PROVE  FALSE
  <2>1. CASE b \notin allocated
    <3>1. b \notin connections[w]
      BY <1>1, <2>1 DEF OwnerInv, Listed, OnList
    <3>2. AddConnection /\ b = Block(Acceptor)
      BY <1>2, <3>1, ListMoves
    <3>3. heap[b].fd \in Clients
      BY <3>2, AddsOwn DEF Conn
    <3> QED
      BY <2>1, <3>3 DEF HeapInv, Homed
  <2>2. CASE b \in allocated
    <3>1. ASSUME NEW t \in Threads, EndRemove(t), Block(t) = b
          PROVE  FALSE
      <4>1. Context(t) \in Workers /\ b \in Spots(Context(t))
        BY <3>1, OwnSpot
      <4>2. connections' = [connections EXCEPT ![Context(t)] = @ \ {b}]
        BY <3>1 DEF EndRemove
      <4>3. b \in connections[w] /\ w # Context(t)
        BY <1>2, <4>1, <4>2 DEF Types, HeapType
      <4>4. b \in Spots(w)
        BY <4>3 DEF Spots
      <4> QED
        BY <1>1, <4>1, <4>3, <4>4 DEF OwnerInv, OneWorker
    <3>2. ASSUME AddFails, Block(Acceptor) = b
          PROVE  FALSE
      <4>1. thread[Acceptor].at = "add" /\ UNCHANGED connections
        BY <3>2 DEF AddFails, At
      <4> QED
        BY <1>1, <1>2, <3>2, <4>1 DEF OwnerInv, Fresh
    <3> QED
      BY <1>2, <2>2, <3>1, <3>2, FreedBy
  <2> QED
    BY <2>1, <2>2
<1>3. ASSUME b \in allocated'
      PROVE  \/ \E w \in Workers : b \in connections'[w]
             \/ thread'[Acceptor].at = "add" /\ Block(Acceptor)' = b
  <2>1. b \in allocated
    BY <1>3, AllocMoves
  <2>2. ASSUME NEW w \in Workers, b \in connections[w]
        PROVE  b \in connections'[w]
    <3> SUFFICES ASSUME b \notin connections'[w]
                 PROVE  FALSE
      OBVIOUS
    <3>1. PICK t \in Threads : EndRemove(t) /\ Block(t) = b
      BY <2>2, UnlistedBy
    <3> QED
      BY <1>3, <3>1 DEF EndRemove
  <2>3. CASE thread[Acceptor].at = "add" /\ Block(Acceptor) = b
    <3>1. CASE thread'[Acceptor] = thread[Acceptor]
      BY <2>3, <3>1 DEF Block
    <3>2. CASE AddConnection
      <4>1. Context(Acceptor) \in Workers /\ connections' = [connections EXCEPT ![Context(Acceptor)] = @ \cup {b}]
        BY <2>3, <3>2, AddsOwn DEF AddConnection
      <4> QED
        BY <4>1 DEF Types, HeapType
    <3>3. CASE AddFails
      <4>1. heap[b] = NewConnection(heap[b].client)
        BY <1>1, <2>3 DEF OwnerInv, Fresh
      <4>2. ~heap[b].is_removing
        BY <4>1 DEF NewConnection
      <4>3. allocated' = allocated \ {b}
        BY <2>3, <3>3, <4>2, AddFailsIs DEF Conn
      <4> QED
        BY <1>3, <4>3
    <3> QED
      BY <2>3, <3>1, <3>2, <3>3, AddLeaves
  <2> QED
    BY <1>1, <2>1, <2>2, <2>3 DEF OwnerInv, Listed, OnList
<1> QED
  BY <1>2, <1>3


\* A new connection is Clear only if nothing led to its block.
LEMMA AcceptOwner ==
  ASSUME Types, HeapInv, OwnerInv, [Next]_vars, AcceptConnection
  PROVE  OwnerInv'
<1>0. heap \in [Blocks -> Connection] /\ Acceptor \in Threads /\ thread \in [Threads -> Place]
  BY Apart DEF Types, HeapType, ThreadType
<1>1. PICK c \in Clients : c = Head(backlog) /\ thread[Acceptor] = Local("loop")
  BY AcceptConnectionIs
<1>2. PICK b \in Blocks \ allocated :
        /\ allocated' = allocated \cup {b}
        /\ heap' = [heap EXCEPT ![b] = NewConnection(c)]
        /\ \E l : /\ thread' = [thread EXCEPT ![Acceptor] = l]
                  /\ l.at = "add" /\ l.ptr = [block |-> b, client |-> c]
        /\ Mix(c, Referenced(b))
  BY <1>1, AcceptConnectionIs
<1>3. thread'[Acceptor].at = "add" /\ thread'[Acceptor].ptr = [block |-> b, client |-> c]
  BY <1>0, <1>2
<1>4. /\ \A d \in Blocks : d # b => heap'[d] = heap[d]
      /\ heap'[b] = NewConnection(c) /\ heap'[b].client = c
  BY <1>0, <1>2 DEF NewConnection
<1>5. \A d \in Blocks : d # b /\ Clear(d)' => Clear(d)
  BY <1>4, MixedGrows DEF Clear
<1>6. Clear(b)' => \A w \in Workers : b \notin Spots(w)
  <2> SUFFICES ASSUME Clear(b)'
               PROVE  \A w \in Workers : b \notin Spots(w)
    OBVIOUS
  <2>1. c \notin mixed'
    BY <1>4 DEF Clear
  <2>2. ~Referenced(b)
    BY <1>2, <2>1 DEF Mix
  <2> QED
    BY <2>2, ReferencedIs
<1>7. ASSUME NEW w \in Workers
      PROVE  /\ \A p \in Points(w)' : p \in Points(w) \/ (p = thread'[Acceptor].ptr /\ Context(Acceptor)' = w)
             /\ connections' = connections
             /\ \A d \in Spots(w)' : d \in Spots(w) \/ (d = b /\ Context(Acceptor)' = w)
             /\ Mine(w)' \subseteq Points(w) \cup {NoPtr}
  <2>1. /\ Points(w)' \subseteq Points(w) \cup {p \in {thread'[Acceptor].ptr} : Context(Acceptor)' = w}
        /\ connections' = connections
    BY AcceptPoints
  <2>2. ~AddConnection /\ ~Submits(Acceptor)
    BY <1>1 DEF AddConnection, Submits, SubmitAsyncWrite, SubmitAsyncRead, At, Local
  <2>3. Mine(w)' \subseteq Mine(w) \cup {NoPtr}
    BY <2>2, MineShrinks
  <2> QED
    BY <1>3, <2>1, <2>3 DEF Spots, Points
<1>8. OneWorker'
  <2> SUFFICES ASSUME NEW d \in Blocks, Clear(d)', NEW v \in Workers, NEW w \in Workers,
                      d \in Spots(v)', d \in Spots(w)'
               PROVE  v = w
    BY DEF OneWorker
  <2>1. CASE d = b
    BY <1>6, <1>7, <2>1
  <2>2. CASE d # b
    BY <1>5, <1>7, <2>2 DEF OwnerInv, OneWorker
  <2> QED
    BY <2>1, <2>2
<1>9. Meant'
  <2> SUFFICES ASSUME NEW w \in Workers, NEW p \in Points(w)', p.block \in Blocks, Clear(p.block)'
               PROVE  heap'[p.block].client = p.client
    BY DEF Meant
  <2>1. CASE p \in Points(w)
    <3>1. p.block \in Spots(w)
      BY <2>1 DEF Spots
    <3>2. p.block # b
      BY <1>6, <3>1
    <3> QED
      BY <1>4, <1>5, <2>1, <3>2 DEF OwnerInv, Meant
  <2>2. CASE p = thread'[Acceptor].ptr
    BY <1>3, <1>4, <2>2
  <2> QED
    BY <1>7, <2>1, <2>2
<1>10. Fresh'
  <2>1. Block(Acceptor)' = b
    BY <1>3 DEF Block
  <2> SUFFICES ASSUME Clear(b)'
               PROVE  /\ heap'[b] = NewConnection(heap'[b].client)
                      /\ \A w \in Workers : b \notin connections'[w] /\ \A p \in Mine(w)' : p.block # b
    BY <2>1 DEF Fresh, Clear
  <2>2. \A w \in Workers : b \notin Spots(w)
    BY <1>6
  <2> QED
    BY <1>4, <1>7, <2>2, Apart DEF Spots
<1>11. Listed'
  <2> SUFFICES ASSUME NEW d \in Blocks, Clear(d)'
               PROVE  /\ d \notin allocated' => \A w \in Workers : d \notin connections'[w]
                      /\ d \in allocated' =>
                           \/ \E w \in Workers : d \in connections'[w]
                           \/ thread'[Acceptor].at = "add" /\ Block(Acceptor)' = d
    BY DEF Listed, OnList
  <2>1. CASE d = b
    BY <1>2, <1>3, <2>1 DEF Block
  <2>2. CASE d # b
    <3>1. thread[Acceptor].at # "add"
      BY <1>1 DEF Local
    <3> QED
      BY <1>2, <1>5, <1>7, <2>2, <3>1 DEF OwnerInv, Listed, OnList
  <2> QED
    BY <2>1, <2>2
<1> QED
  BY <1>8, <1>9, <1>10, <1>11 DEF OwnerInv

LEMMA OwnerInvStep ==
  ASSUME Types, HeapInv, OwnerInv, [Next]_vars, Up'
  PROVE  OwnerInv'
<1>1. CASE AcceptConnection
  BY <1>1, AcceptOwner
<1>2. CASE ~AcceptConnection
  BY <1>2, OwnersKept, FreshStep, ListedStep DEF OwnerInv
<1> QED
  BY <1>1, <1>2

\* When the process has ended nothing changes any more.
LEMMA Ended ==
  ASSUME [Next]_vars, ~Up
  PROVE  UNCHANGED vars
<1> USE DEF At, Up
<1>1. \A t : ~OnConnection(t)
  BY DEF OnConnection, TryWrite, WriteNothing, WriteSome, Writes, Settle, WriteAgain,
         ClearWritable, WriteFails, SubmitAsyncWrite, SubmitAsyncRead, SubmitFails, BeginRemove,
         AlreadyRemoving, EndRemove
<1>2. \A w : ~Worker(w) /\ ~WaitFails(w)
  BY <1>1 DEF Worker, WaitFails, WaitForEvents, ExitEvent, HangupEvent, OutputEvent, HasEvent,
              ReadEvent, ReadNothing, HandleOutput, EventsDone, CompleteData, CompleteNothing,
              CompletePipe, CompletionsDone
<1>3. ~AcceptThread /\ ~AcceptFails
  BY <1>1 DEF AcceptThread, AcceptFails, AcceptConnection, Refuse, AddConnection, AddFails,
              SendWelcome, AcceptorLeaves
<1>4. ~Main /\ ~Signal
  BY DEF Main, CreateThread, StartFails, JoinThreads, StopReturns, Stop, Signal
<1>5. \A c \in Clients : ~Client(c)
  BY DEF Client, Connect, ClientSend, ClientReceive, ClientFin, ClientReset, OnSocket
<1> QED
  BY <1>2, <1>3, <1>4, <1>5 DEF Next

\* What the lists say of the connections, also when the process has ended.
Owned ==
  \A b \in Blocks : Clear(b) =>
    /\ \A v, w \in Workers : b \in connections[v] /\ b \in connections[w] => v = w
    /\ b \notin allocated => ~OnList(b)
    /\ b \in allocated => OnList(b) \/ (At(Acceptor, "add") /\ Block(Acceptor) = b)

LEMMA OwnerInvOwned == Up /\ OwnerInv => Owned
BY DEF OwnerInv, OneWorker, Listed, Owned, Spots, At

\* The process ends with all threads gone, or before there were any.
LEMMA EndOwned ==
  ASSUME Types, MainInv, OwnerInv, [Next]_vars, Up, ~Up'
  PROVE  Owned'
<1>1. StartFails \/ StopReturns \/ Stop
  BY MainMoves DEF Up
<1>2. thread[Acceptor].at # "add"
  BY <1>1, Apart DEF StartFails, StopReturns, Stop, MainInv
<1>3. heap' = heap /\ mixed' = mixed
  BY <1>1 DEF StartFails, StopReturns, Stop, serverVars, connVars, historyVars
<1>4. CASE UNCHANGED <<allocated, connections>>
  BY <1>2, <1>3, <1>4 DEF OwnerInv, OneWorker, Listed, Owned, OnList, Clear, Spots
<1>5. CASE /\ allocated' = allocated \ UNION {connections[w] : w \in Workers}
           /\ connections' = [w \in Workers |-> {}]
  BY <1>2, <1>3, <1>5 DEF OwnerInv, Listed, Owned, OnList, Clear
<1> QED
  BY <1>1, <1>4, <1>5 DEF StartFails, StopReturns, Stop, serverVars, connVars


OwnedInv == Owned /\ (Up => OwnerInv)

LEMMA OwnedInit == Init => OwnedInv
<1> SUFFICES ASSUME Init
             PROVE  OwnedInv
  OBVIOUS
<1>1. Up
  BY DEF Init, Up
<1> QED
  BY <1>1, OwnerInit, OwnerInvOwned DEF OwnedInv

LEMMA OwnedStep == SafeInv /\ OwnedInv /\ [Next]_vars => OwnedInv'
<1> SUFFICES ASSUME SafeInv, OwnedInv, [Next]_vars
             PROVE  OwnedInv'
  OBVIOUS
<1>1. CASE ~Up
  <2>1. UNCHANGED vars
    BY <1>1, Ended
  <2> QED
    BY <2>1, <1>1 DEF OwnedInv, Owned, OnList, Clear, At, Block, Up, vars, restVars, otherVars,
                      mainVars, connVars, historyVars
<1>2. CASE Up'
  <2>1. Up
    BY <1>2, MainMoves
  <2>2. OwnerInv'
    BY <1>2, <2>1, OwnerInvStep DEF SafeInv, OwnedInv
  <2>3. Up' /\ OwnerInv' => Owned'
    BY <2>2 DEF OwnerInv, OneWorker, Listed, Owned, Spots, At
  <2> QED
    BY <1>2, <2>2, <2>3 DEF OwnedInv
<1>3. CASE Up /\ ~Up'
  <2>1. Owned'
    BY <1>3, EndOwned DEF SafeInv, OwnedInv
  <2> QED
    BY <1>3, <2>1 DEF OwnedInv
<1> QED
  BY <1>1, <1>2, <1>3

LEMMA OwnedImpliesOwnedOnce == Owned => OwnedOnce
<1> SUFFICES ASSUME Owned, NEW b \in Blocks, Clear(b)
             PROVE  LET owners == {w \in Workers : b \in connections[w]} IN
                      /\ Cardinality(owners) <= 1
                      /\ b \notin allocated => owners = {}
                      /\ b \in allocated /\ owners = {} => At(Acceptor, "add") /\ Block(Acceptor) = b
  BY DEF OwnedOnce, Clear
<1> DEFINE owners == {w \in Workers : b \in connections[w]}
<1>1. Cardinality(owners) <= 1
  <2>1. CASE owners = {}
    BY <2>1, FS_EmptySet
  <2>2. CASE owners # {}
    <3>1. PICK w \in Workers : b \in connections[w]
      BY <2>2
    <3>2. owners = {w}
      BY <3>1 DEF Owned
    <3>3. Cardinality({w}) = 1
      BY FS_Singleton
    <3> QED
      BY <3>2, <3>3
  <2> QED
    BY <2>1, <2>2
<1>2. /\ b \notin allocated => owners = {}
      /\ b \in allocated /\ owners = {} => At(Acceptor, "add") /\ Block(Acceptor) = b
  BY DEF Owned, OnList
<1> QED
  BY <1>1, <1>2

\* For every number of clients, threads and blocks: a connection to which no stale
\* pointer leads is on the list of one worker from mt_add_connection_to_worker to its
\* removal, and on none when it is freed (hybrid_proactor.c:358-382, 696-711).
THEOREM OwnedByOneWorker == Spec => []OwnedOnce
<1>1. Init => SafeInv /\ OwnedInv
  BY SafeInit, OwnedInit
<1>2. SafeInv /\ OwnedInv /\ [Next]_vars => SafeInv' /\ OwnedInv'
  BY SafeStep, OwnedStep
<1>3. OwnedInv => OwnedOnce
  BY OwnedImpliesOwnedOnce DEF OwnedInv
<1> QED
  BY <1>1, <1>2, <1>3, PTL DEF Spec

-----------------------------------------------------------------------------
(***************************************************************************)
(* Units in order                                                          *)
(***************************************************************************)

\* Client c has sent n units and has received g last, if anything: g, what is in its
\* socket, what waits in write_buf and what the server has not read are units of its
\* own, each once and in this order.
InOrder(c, g, out, u, rx, n) ==
  /\ g = Nothing \/ g[1] = c
  /\ g[2] <= n
  /\ Stretch(out, c, n) /\ Stretch(u, c, n) /\ Stretch(rx, c, n)
  /\ Precedes(<<g>>, out) /\ Precedes(<<g>>, u) /\ Precedes(<<g>>, rx)
  /\ Precedes(out, u) /\ Precedes(out, rx) /\ Precedes(u, rx)

LEMMA UnitIs ==
  /\ \A x \in Unit \cup {Nothing} : x[2] \in Int
  /\ \A c \in Clients : Welcome(c) \in Unit /\ Welcome(c)[1] = c /\ Welcome(c)[2] = 0
  /\ \A c \in Clients, n \in 0 .. MaxBytes : <<c, n>> \in Unit /\ <<c, n>>[1] = c /\ <<c, n>>[2] = n
  /\ Nothing[2] = -1
<1>1. PICK m \in Nat : m = MaxBytes
  BY Sizes
<1>2. 0 \in 0 .. m
  BY <1>1
<1>3. Unit = Clients \X (0 .. m)
  BY <1>1 DEF Unit
<1>4. \A x \in Unit : x[2] \in 0 .. m
  BY <1>3
<1>5. \A x \in Unit : x[2] \in Int
  BY <1>1, <1>4
<1>6. Nothing[2] = -1 /\ Nothing[2] \in Int
  BY DEF Nothing
<1>7. \A c \in Clients, n \in 0 .. MaxBytes : <<c, n>> \in Unit /\ <<c, n>>[1] = c /\ <<c, n>>[2] = n
  BY DEF Unit
<1>8. \A c \in Clients : Welcome(c) \in Unit /\ Welcome(c)[1] = c /\ Welcome(c)[2] = 0
  BY <1>1, <1>2, <1>7 DEF Welcome
<1> QED
  BY <1>5, <1>6, <1>7, <1>8

\* A single unit.
LEMMA StretchOne ==
  ASSUME NEW x, NEW c, NEW n, x[1] = c, x[2] <= n
  PROVE  Stretch(<<x>>, c, n)
<1>1. Range(<<x>>) = {x} /\ DOMAIN <<x>> = 1 .. 1
  BY RangeOne
<1>2. \A i, j \in 1 .. 1 : ~(i < j)
  OBVIOUS
<1> QED
  BY <1>1, <1>2 DEF Stretch

LEMMA OrderNone ==
  ASSUME NEW c, NEW g, NEW n, g = Nothing \/ g[1] = c, g[2] <= n
  PROVE  InOrder(c, g, <<>>, <<>>, <<>>, n)
BY StretchNone DEF InOrder

\* The first pending units go into the socket.
LEMMA OrderWrite ==
  ASSUME NEW c, NEW g, NEW n, NEW out \in Seq(Unit), NEW p \in Seq(Unit), NEW d \in Seq(Unit),
         NEW rx \in Seq(Unit), InOrder(c, g, out, p \o d, rx, n)
  PROVE  InOrder(c, g, out \o p, d, rx, n)
<1>1. /\ Stretch(p, c, n) /\ Stretch(d, c, n) /\ Precedes(p, d)
      /\ Precedes(<<g>>, p) /\ Precedes(<<g>>, d) /\ Precedes(out, p) /\ Precedes(out, d)
      /\ Precedes(p, rx) /\ Precedes(d, rx)
  BY StretchCat, PrecedesCat DEF InOrder
<1>2. Stretch(out \o p, c, n)
  BY <1>1, StretchCat DEF InOrder
<1>3. Precedes(<<g>>, out \o p) /\ Precedes(out \o p, d) /\ Precedes(out \o p, rx)
  BY <1>1, PrecedesCat DEF InOrder
<1> QED
  BY <1>1, <1>2, <1>3 DEF InOrder

\* The first units not yet read take the place of what was pending, or are dropped.
LEMMA OrderRead ==
  ASSUME NEW c, NEW g, NEW n, NEW out \in Seq(Unit), NEW u \in Seq(Unit), NEW data \in Seq(Unit),
         NEW rx \in Seq(Unit), InOrder(c, g, out, u, data \o rx, n)
  PROVE  InOrder(c, g, out, data, rx, n) /\ InOrder(c, g, out, u, rx, n)
<1>1. /\ Stretch(data, c, n) /\ Stretch(rx, c, n) /\ Precedes(data, rx)
      /\ Precedes(<<g>>, data) /\ Precedes(<<g>>, rx) /\ Precedes(out, data) /\ Precedes(out, rx)
      /\ Precedes(u, rx)
  BY StretchCat, PrecedesCat DEF InOrder
<1> QED
  BY <1>1 DEF InOrder

\* What is pending is given up.
LEMMA OrderDropped ==
  ASSUME NEW c, NEW g, NEW n, NEW out, NEW u, NEW rx, InOrder(c, g, out, u, rx, n)
  PROVE  InOrder(c, g, out, <<>>, rx, n)
BY StretchNone DEF InOrder

\* A reset clears the socket in both directions.
LEMMA OrderReset ==
  ASSUME NEW c, NEW g, NEW n, NEW out, NEW u, NEW rx, InOrder(c, g, out, u, rx, n)
  PROVE  InOrder(c, g, <<>>, u, <<>>, n)
BY StretchNone DEF InOrder

\* The client has sent another unit, whether it is kept or not.
LEMMA OrderMore ==
  ASSUME NEW c, NEW g \in Unit \cup {Nothing}, NEW n \in Nat, NEW out \in Seq(Unit), NEW u \in Seq(Unit),
         NEW rx \in Seq(Unit), InOrder(c, g, out, u, rx, n)
  PROVE  InOrder(c, g, out, u, rx, n + 1)
<1>1. ASSUME NEW s \in Seq(Unit), Stretch(s, c, n)
      PROVE  Stretch(s, c, n + 1)
  <2>1. ASSUME NEW x \in Range(s)
        PROVE  x[1] = c /\ x[2] <= n + 1
    <3>1. x \in Unit
      BY ElementOfSeq, LenProperties DEF Range
    <3>2. PICK k \in Int : k = x[2] /\ k <= n
      BY <1>1, <3>1, UnitIs DEF Stretch
    <3>3. k <= n + 1
      BY <3>2
    <3> QED
      BY <1>1, <3>2, <3>3 DEF Stretch
  <2> QED
    BY <1>1, <2>1 DEF Stretch
<1>2. g[2] <= n + 1
  <2>1. PICK k \in Int : k = g[2] /\ k <= n
    BY UnitIs DEF InOrder
  <2>2. k <= n + 1
    BY <2>1
  <2> QED
    BY <2>1, <2>2
<1> QED
  BY <1>1, <1>2 DEF InOrder

LEMMA OrderSend ==
  ASSUME NEW c \in Clients, NEW g \in Unit \cup {Nothing}, NEW n \in Nat, n + 1 \in 0 .. MaxBytes,
         NEW out \in Seq(Unit), NEW u \in Seq(Unit), NEW rx \in Seq(Unit), InOrder(c, g, out, u, rx, n)
  PROVE  InOrder(c, g, out, u, Append(rx, <<c, n + 1>>), n + 1)
<1>1. PICK x \in Unit : x = <<c, n + 1>> /\ x[1] = c /\ x[2] = n + 1
  BY UnitIs
<1>2. <<x>> \in Seq(Unit) /\ Append(rx, <<c, n + 1>>) = rx \o <<x>>
  <2>1. Append(rx, x) = rx \o <<x>> /\ <<x>> \in Seq(Unit)
    BY AppendIsConcat
  <2> QED
    BY <1>1, <2>1
<1>3. InOrder(c, g, out, u, rx, n + 1)
  BY OrderMore
<1>4. Stretch(<<x>>, c, n + 1)
  <2>1. PICK m \in Nat : m = n + 1 /\ m <= m
    OBVIOUS
  <2>2. x[1] = c /\ x[2] <= m
    BY <1>1, <2>1
  <2>3. Stretch(<<x>>, c, m)
    BY <2>2, StretchOne
  <2> QED
    BY <2>1, <2>3
<1>5. ASSUME NEW s \in Seq(Unit), Stretch(s, c, n)
      PROVE  Precedes(s, <<x>>)
  <2> SUFFICES ASSUME NEW y \in Range(s)
               PROVE  y[2] < x[2]
    BY RangeOne DEF Precedes
  <2>1. y \in Unit
    BY ElementOfSeq, LenProperties DEF Range
  <2>2. PICK k \in Int : k = y[2] /\ k <= n
    BY <1>5, <2>1, UnitIs DEF Stretch
  <2>3. k < n + 1
    BY <2>2
  <2> QED
    BY <1>1, <2>2, <2>3
<1>6. Precedes(out, <<x>>) /\ Precedes(u, <<x>>) /\ Precedes(rx, <<x>>)
  BY <1>5 DEF InOrder
<1>7. Precedes(<<g>>, <<x>>)
  <2>1. PICK k \in Int : k = g[2] /\ k <= n
    BY UnitIs DEF InOrder
  <2>2. k < n + 1
    BY <2>1
  <2> QED
    BY <1>1, <2>1, <2>2, RangeOne DEF Precedes
<1>8. Stretch(rx \o <<x>>, c, n + 1)
  BY <1>2, <1>3, <1>4, <1>6, StretchCat DEF InOrder
<1>9. /\ Precedes(<<g>>, rx \o <<x>>) /\ Precedes(out, rx \o <<x>>) /\ Precedes(u, rx \o <<x>>)
  BY <1>2, <1>3, <1>6, <1>7, PrecedesCat DEF InOrder
<1> QED
  BY <1>2, <1>3, <1>8, <1>9 DEF InOrder

\* The client takes the first unit out of its socket.
LEMMA OrderReceive ==
  ASSUME NEW c, NEW g, NEW n, NEW out \in Seq(Unit), out # <<>>, NEW u, NEW rx, InOrder(c, g, out, u, rx, n)
  PROVE  InOrder(c, Head(out), Tail(out), u, rx, n)
<1>1. PICK h : h = Head(out) /\ h \in Range(out)
  BY HeadInRange
<1>2. PICK m \in Nat \ {0} : /\ m = Len(out) /\ DOMAIN out = 1 .. m /\ h = out[1]
                             /\ DOMAIN Tail(out) = 1 .. m - 1
                             /\ \A i \in 1 .. m - 1 : Tail(out)[i] = out[i + 1]
  BY <1>1, EmptySeq, LenProperties, HeadTailProperties
<1>3. PICK rest \in Seq(Unit) : rest = Tail(out)
  BY HeadTailProperties
<1>4. Range(rest) \subseteq Range(out)
  BY <1>3, TailInRange
<1>5. Stretch(rest, c, n) /\ Precedes(<<h>>, rest)
  <2>1. ASSUME NEW i \in 1 .. m - 1, NEW j \in 1 .. m - 1, i < j
        PROVE  rest[i][2] < rest[j][2]
    <3>1. i + 1 \in 1 .. m /\ j + 1 \in 1 .. m /\ i + 1 < j + 1
      BY <2>1
    <3>2. out[i + 1][2] < out[j + 1][2]
      BY <1>2, <3>1 DEF InOrder, Stretch
    <3> QED
      BY <1>2, <1>3, <3>2
  <2>2. ASSUME NEW i \in 1 .. m - 1
        PROVE  h[2] < rest[i][2]
    <3>1. i + 1 \in 1 .. m /\ 1 \in 1 .. m /\ 1 < i + 1
      OBVIOUS
    <3>2. out[1][2] < out[i + 1][2]
      BY <1>2, <3>1 DEF InOrder, Stretch
    <3> QED
      BY <1>2, <1>3, <3>2
  <2>3. Stretch(rest, c, n)
    BY <1>2, <1>3, <1>4, <2>1 DEF InOrder, Stretch
  <2>4. Precedes(<<h>>, rest)
    BY <1>2, <1>3, <2>2, RangeOne DEF Precedes, Range
  <2> QED
    BY <2>3, <2>4
<1>6. h[1] = c /\ h[2] <= n /\ Precedes(<<h>>, u) /\ Precedes(<<h>>, rx)
  BY <1>1, RangeOne DEF InOrder, Stretch, Precedes
<1>7. Precedes(rest, u) /\ Precedes(rest, rx)
  BY <1>4 DEF InOrder, Precedes
<1> QED
  BY <1>1, <1>3, <1>5, <1>6, <1>7 DEF InOrder

\* The first unit of all is the welcome message.
LEMMA OrderWelcome ==
  ASSUME NEW c \in Clients, NEW n \in Nat, NEW rx \in Seq(Unit),
         InOrder(c, Welcome(c), <<>>, <<>>, rx, n)
  PROVE  /\ InOrder(c, Nothing, <<>>, <<Welcome(c)>>, rx, n)
         /\ InOrder(c, Nothing, <<>>, <<>>, rx, n)
<1>1. PICK x \in Unit : x = Welcome(c) /\ x[1] = c /\ x[2] = 0
  BY UnitIs
<1>2. Stretch(<<x>>, c, n)
  BY <1>1, StretchOne
<1>3. Precedes(<<x>>, rx) /\ Stretch(rx, c, n)
  BY <1>1 DEF InOrder
<1>4. Nothing[2] = -1 /\ -1 <= n
  BY UnitIs
<1>5. Precedes(<<Nothing>>, rx) /\ Precedes(<<Nothing>>, <<x>>)
  <2>1. ASSUME NEW y \in Range(rx)
        PROVE  Nothing[2] < y[2]
    <3>1. y \in Unit
      BY ElementOfSeq, LenProperties DEF Range
    <3>2. PICK k \in Int : k = y[2] /\ 0 < k
      BY <1>1, <1>3, <3>1, UnitIs, RangeOne DEF Precedes
    <3>3. -1 < k
      BY <3>2
    <3> QED
      BY <1>4, <3>2, <3>3
  <2>2. Nothing[2] < x[2]
    BY <1>1, <1>4
  <2> QED
    BY <2>1, <2>2, RangeOne DEF Precedes
<1> QED
  BY <1>1, <1>2, <1>3, <1>4, <1>5, StretchNone DEF InOrder

-----------------------------------------------------------------------------
(***************************************************************************)
(* What happens to the data of a client                                    *)
(***************************************************************************)

Untouched(c) == sock'[c] = sock[c] /\ got'[c] = got[c] /\ sent'[c] = sent[c]

Shut(c) == c \in closed' /\ sock'[c] = NewSocket /\ got'[c] = Nothing /\ sent'[c] = 0

LEMMA CloseShuts ==
  ASSUME NEW S, Close(S), NEW c \in Clients
  PROVE  Untouched(c) \/ Shut(c)
BY DEF Close, Untouched, Shut

LEMMA SockMoves ==
  ASSUME Types, [Next]_vars, NEW c \in Clients
  PROVE  \/ Untouched(c)
         \/ Shut(c)
         \/ /\ got'[c] = got[c] /\ sent'[c] = sent[c]
            /\ \/ \E t \in Threads : (WriteSome(t) \/ Submits(t)) /\ Conn(t).fd = c
               \/ \E w \in Workers : ReadEvent(w) /\ EventConn(w).fd = c
         \/ OnClient(c)
<1>0. sock \in [Clients -> SocketType(Unit)]
  BY DEF Types, SocketsType
<1>1. CASE \/ UNCHANGED <<socketVars, clientVars, records>>
           \/ \E w \in Workers : WaitForEvents(w) \/ CompletePipe(w)
           \/ AcceptConnection \/ AddConnection
           \/ \E d \in Clients : Connect(d)
  BY <1>1 DEF Untouched, socketVars, clientVars, historyVars, records, otherVars, WaitForEvents,
              CompletePipe, AcceptConnection, AddConnection, Connect
<1>2. ASSUME NEW t \in Threads, WriteSome(t) \/ Submits(t), Conn(t).fd # c
      PROVE  Untouched(c)
  <2>1. UNCHANGED <<sent, got>>
    BY <1>2 DEF WriteSome, Submits, SubmitAsyncWrite, SubmitAsyncRead, otherVars, clientVars
  <2>2. PICK s : sock' = [sock EXCEPT ![Conn(t).fd] = s]
    BY <1>2, WriteSomeIs, SubmitsSocket
  <2> QED
    BY <1>0, <1>2, <2>1, <2>2 DEF Untouched
<1>3. ASSUME NEW w \in Workers, ReadEvent(w), EventConn(w).fd # c
      PROVE  Untouched(c)
  <2>1. UNCHANGED <<sent, got>>
    BY <1>3 DEF ReadEvent, otherVars, clientVars
  <2>2. PICK s : sock' = [sock EXCEPT ![EventConn(w).fd] = s]
    BY <1>3, ReadEventIs
  <2> QED
    BY <1>0, <1>3, <2>1, <2>2 DEF Untouched
<1>4. CASE \/ \E t \in Threads : WriteSome(t) \/ Submits(t)
           \/ \E w \in Workers : ReadEvent(w)
  <2>1. UNCHANGED <<sent, got>>
    BY <1>4 DEF WriteSome, Submits, SubmitAsyncWrite, SubmitAsyncRead, ReadEvent, otherVars,
                clientVars
  <2> QED
    BY <1>2, <1>3, <1>4, <2>1
<1>5. CASE (\E t \in Threads : BeginRemove(t)) \/ Refuse \/ AddFails \/ AcceptorLeaves \/ Stop
  <2>1. CASE \E S \in SUBSET Clients : Close(S)
    BY <2>1, CloseShuts
  <2>2. CASE UNCHANGED <<closed, sock, sent, got, behind>>
    BY <2>2 DEF Untouched
  <2> QED
    BY <1>5, <2>1, <2>2, Closing
<1>6. ASSUME NEW d \in Clients, OnClient(d), d # c
      PROVE  Untouched(c)
  <2>1. sock'[c] = sock[c]
    BY <1>0, <1>6, OnClientIs
  <2>2. sent'[c] = sent[c] /\ got'[c] = got[c]
    BY <1>6 DEF OnClient, ClientSend, ClientReceive, ClientFin, ClientReset, Types, ClientType
  <2> QED
    BY <2>1, <2>2 DEF Untouched
<1> QED
  BY <1>1, <1>4, <1>5, <1>6, DataMoves

\* What a client does to its own data.
LEMMA ClientMoves ==
  ASSUME Types, NEW c \in Clients, OnClient(c)
  PROVE  /\ sock'[c].err = sock[c].err \/ sock'[c].err
         /\ \/ /\ sock'[c].out = sock[c].out /\ sock'[c].rx = sock[c].rx
               /\ sent'[c] = sent[c] /\ got'[c] = got[c]
            \/ /\ sock'[c].out = sock[c].out /\ got'[c] = got[c]
               /\ sent[c] + 1 \in 0 .. MaxBytes /\ sent'[c] = sent[c] + 1
               /\ sock'[c].rx = Append(sock[c].rx, <<c, sent[c] + 1>>)
            \/ /\ sock[c].out # <<>> /\ sock'[c].out = Tail(sock[c].out) /\ got'[c] = Head(sock[c].out)
               /\ sock'[c].rx = sock[c].rx /\ sent'[c] = sent[c]
            \/ /\ sock'[c].out = <<>> /\ sock'[c].rx = <<>> /\ sock'[c].err
               /\ sent'[c] = sent[c] /\ got'[c] = got[c]
<1>1. /\ sock \in [Clients -> SocketType(Unit)] /\ sock[c] \in SocketType(Unit)
      /\ sent \in [Clients -> 0 .. MaxBytes] /\ got \in [Clients -> Unit \cup {Nothing}]
  BY DEF Types, SocketsType, ClientType
<1>2. CASE ClientSend(c)
  <2>1. PICK n \in Nat : n = sent[c] /\ n + 1 \in 0 .. MaxBytes
    <3>1. PICK m \in Nat, n \in Nat : m = MaxBytes /\ n = sent[c] /\ n < m
      <4>1. MaxBytes \in Nat /\ sent[c] \in 0 .. MaxBytes /\ sent[c] < MaxBytes
        BY <1>1, <1>2, Sizes DEF ClientSend
      <4> QED
        BY <4>1
    <3>2. n + 1 \in 0 .. m
      BY <3>1
    <3> QED
      BY <3>1, <3>2
  <2>2. PICK q : q = Append(sock[c].rx, <<c, n + 1>>)
    OBVIOUS
  <2>3. sock' = [sock EXCEPT ![c] = [sock[c] EXCEPT !.rx = q]]
    BY <1>2, <2>1, <2>2, <1>1 DEF ClientSend, OnSocket
  <2>4. sent' = [sent EXCEPT ![c] = n + 1] /\ UNCHANGED got
    BY <1>2, <2>1 DEF ClientSend
  <2>5. sent'[c] = n + 1 /\ got'[c] = got[c] /\ sock'[c] = [sock[c] EXCEPT !.rx = q]
    BY <1>1, <2>3, <2>4
  <2>6. sock'[c].rx = q /\ sock'[c].out = sock[c].out /\ sock'[c].err = sock[c].err
    BY <1>1, <2>5 DEF SocketType
  <2> QED
    BY <2>1, <2>2, <2>5, <2>6
<1>3. CASE ClientReceive(c)
  <2>1. /\ sock[c].out # <<>> /\ got' = [got EXCEPT ![c] = Head(sock[c].out)] /\ UNCHANGED sent
        /\ sock' = [sock EXCEPT ![c] = [sock[c] EXCEPT !.out = Tail(@)]]
    BY <1>3 DEF ClientReceive, OnSocket
  <2>2. got'[c] = Head(sock[c].out) /\ sock'[c] = [sock[c] EXCEPT !.out = Tail(@)]
    BY <1>1, <2>1
  <2>3. sock'[c].out = Tail(sock[c].out) /\ sock'[c].rx = sock[c].rx /\ sock'[c].err = sock[c].err
    BY <1>1, <2>2 DEF SocketType
  <2> QED
    BY <2>1, <2>2, <2>3
<1>4. CASE ClientFin(c)
  <2>1. UNCHANGED <<sent, got>> /\ sock' = [sock EXCEPT ![c] = [sock[c] EXCEPT !.fin = TRUE]]
    BY <1>4 DEF ClientFin, OnSocket
  <2>2. sock'[c] = [sock[c] EXCEPT !.fin = TRUE]
    BY <1>1, <2>1
  <2>3. sock'[c].out = sock[c].out /\ sock'[c].rx = sock[c].rx /\ sock'[c].err = sock[c].err
    BY <1>1, <2>2 DEF SocketType
  <2> QED
    BY <2>1, <2>3
<1>5. CASE ClientReset(c)
  <2>1. /\ UNCHANGED <<sent, got>>
        /\ sock' = [sock EXCEPT ![c] = [sock[c] EXCEPT !.err = TRUE, !.rx = <<>>, !.out = <<>>]]
    BY <1>5 DEF ClientReset, OnSocket
  <2>2. sock'[c] = [sock[c] EXCEPT !.err = TRUE, !.rx = <<>>, !.out = <<>>]
    BY <1>1, <2>1
  <2>3. sock'[c].out = <<>> /\ sock'[c].rx = <<>> /\ sock'[c].err
    BY <1>1, <2>2 DEF SocketType
  <2> QED
    BY <2>1, <2>3
<1> QED
  BY <1>2, <1>3, <1>4, <1>5 DEF OnClient

\* What is closed stays closed.
LEMMA ClosedGrows ==
  ASSUME Types, [Next]_vars
  PROVE  closed \subseteq closed'
<1>1. CASE (\E t \in Threads : BeginRemove(t)) \/ Refuse \/ AddFails \/ AcceptorLeaves \/ Stop
  BY <1>1, Closing DEF Close
<1>2. CASE \/ UNCHANGED <<socketVars, clientVars, records>>
           \/ \E t \in Threads : WriteSome(t) \/ Submits(t)
           \/ \E w \in Workers : WaitForEvents(w) \/ ReadEvent(w) \/ CompletePipe(w)
           \/ AcceptConnection \/ AddConnection
           \/ \E c \in Clients : Connect(c) \/ OnClient(c)
  <2>1. UNCHANGED closed
    BY <1>2, OnClientIs DEF socketVars, WriteSome, Submits, SubmitAsyncWrite, SubmitAsyncRead,
              WaitForEvents, ReadEvent, CompletePipe, AcceptConnection, AddConnection, Connect
  <2> QED
    BY <2>1
<1> QED
  BY <1>1, <1>2, DataMoves

\* A block that something leads to is not given away to a connection that counts as
\* clear.
LEMMA ClearSpot ==
  ASSUME Types, [Next]_vars, NEW w \in Workers, NEW b \in Blocks, b \in Spots(w), Clear(b)'
  PROVE  Clear(b) /\ heap'[b].client = heap[b].client /\ (AcceptConnection => heap'[b] = heap[b])
<1>1. CASE ~AcceptConnection
  BY <1>1, ClearKept, ClientsKept
<1>2. CASE AcceptConnection
  <2>1. PICK d \in Blocks \ allocated :
          /\ heap' = [heap EXCEPT ![d] = NewConnection(Head(backlog))]
          /\ Mix(Head(backlog), Referenced(d))
    BY <1>2, AcceptConnectionIs
  <2>2. heap \in [Blocks -> Connection]
    BY DEF Types, HeapType
  <2>3. b # d
    <3> SUFFICES ASSUME b = d
                 PROVE  FALSE
      OBVIOUS
    <3>1. heap'[b].client = Head(backlog)
      BY <2>1, <2>2 DEF NewConnection
    <3>2. Head(backlog) \notin mixed'
      BY <3>1 DEF Clear
    <3>3. ~Referenced(b)
      BY <2>1, <3>2 DEF Mix
    <3> QED
      BY <3>3, ReferencedIs
  <2>4. heap'[b] = heap[b]
    BY <2>1, <2>2, <2>3
  <2> QED
    BY <2>4, MixedGrows DEF Clear
<1> QED
  BY <1>1, <1>2

\* A descriptor that leads to a client has always done so.
LEMMA DescriptorKept ==
  ASSUME Types, HeapInv, HeapInv', [Next]_vars, NEW b \in Blocks,
         heap'[b].client = heap[b].client, heap'[b].fd \in Clients
  PROVE  /\ heap[b].fd = heap'[b].fd /\ heap[b].client = heap[b].fd
         /\ heap[b].fd \notin closed' \cup cut'
<1>1. heap'[b].fd = heap'[b].client /\ heap'[b].fd \notin closed' \cup cut'
  BY DEF HeapInv, Homed
<1>2. heap[b].client \in Clients /\ heap[b].client \notin closed \cup cut
  BY <1>1, ClosedGrows, CutGrows
<1>3. Used(b)
  BY <1>2, Apart DEF Used
<1>4. heap[b].fd = heap[b].client
  BY <1>2, <1>3 DEF HeapInv, Homed
<1> QED
  BY <1>1, <1>4

\* No two blocks lead to the same socket.
LEMMA SameBlock ==
  ASSUME Types, HeapInv, NEW b \in Blocks, NEW d \in Blocks, heap[b].fd \in Clients, heap[d].fd = heap[b].fd
  PROVE  b = d /\ heap[b].client = heap[b].fd /\ heap[b].fd \notin closed \cup cut
<1>1. heap[b].fd = heap[b].client /\ heap[d].fd = heap[d].client /\ heap[b].fd \notin closed \cup cut
  BY DEF HeapInv, Homed
<1>2. Used(b)
  BY <1>1, Apart DEF Used
<1> QED
  BY <1>1, <1>2 DEF HeapInv, OneBlock

-----------------------------------------------------------------------------
(***************************************************************************)
(* What a worker finds to read                                             *)
(***************************************************************************)

\* The socket of an input event that is still to be handled holds its bytes, or has
\* been reset, so that no asynchronous read of a clear connection is submitted; and
\* none of its completions carries data.
NoRead == \A t \in Threads : thread[t].at = "async_read" => ~Clear(Block(t))

NoResult ==
  \A w \in Workers : \A r \in Range(aio_ctx[w]) \cup Range(aio_events[w]) :
    r.res > 0 => ~Clear(r.ptr.block)

HasInput ==
  \A w \in Workers : \A e \in Range(events[w]) :
    LET b == e.ptr.block IN
      "in" \in e.mask /\ Clear(b) /\ heap[b].fd \in Clients =>
        sock[heap[b].fd].rx # <<>> \/ sock[heap[b].fd].err

ReadInv == NoRead /\ NoResult /\ HasInput

LEMMA ReadInit == Init => ReadInv
<1> SUFFICES ASSUME Init
             PROVE  ReadInv
  OBVIOUS
<1>1. \A t \in Threads : thread[t].at = "none"
  BY DEF Init, Local
<1>2. \A w \in Workers : Range(events[w]) = {} /\ Range(aio_ctx[w]) = {} /\ Range(aio_events[w]) = {}
  BY RangeEmpty DEF Init
<1> QED
  BY <1>1, <1>2 DEF ReadInv, NoRead, NoResult, HasInput

LEMMA NoReadStep ==
  ASSUME Types, ReadInv, [Next]_vars
  PROVE  NoRead'
<1> SUFFICES ASSUME NEW t \in Threads, NEW b, b = thread'[t].ptr.block,
                    thread'[t].at = "async_read", Clear(b)'
             PROVE  FALSE
  BY DEF NoRead, Clear, Block
<1>1. "async_read" \notin Quiet
  BY DEF Quiet
<1>2. CASE thread'[t] = thread[t]
  <2>1. b = Block(t) /\ thread[t].at = "async_read"
    BY <1>2 DEF Block
  <2>2. b \in Blocks
    BY <2>1, InHand DEF Types, ConnSteps
  <2>3. Clear(b)
    BY <2>1, <2>2, OwnSpot, ClearSpot
  <2> QED
    BY <2>1, <2>3 DEF ReadInv, NoRead
<1>3. CASE t \in Workers /\ ReadNothing(t) /\ thread'[t].ptr \in {Head(events[t]).ptr, NoPtr}
  <2>1. /\ HasEvent(t) /\ "in" \in EventMask(t) /\ ~Readable(t)
        /\ UNCHANGED <<heap, mixed>>
    BY <1>3 DEF ReadNothing, connVars, historyVars
  <2>2. thread'[t].ptr \in Pointers
    BY ThreadStep DEF ThreadType, Placed, ConnSteps
  <2>3. b = Head(events[t]).ptr.block
    BY <1>3, <2>2, Apart
  <2>4. Clear(b)
    BY <2>1 DEF Clear
  <2>5. events[t] # <<>> /\ Head(events[t]) \in Range(events[t])
    BY <1>3, <2>1, HeadInRange DEF HasEvent, Types, QueueType
  <2>6. heap[b].fd \in Clients => sock[heap[b].fd].rx # <<>> \/ sock[heap[b].fd].err
    BY <1>3, <2>1, <2>3, <2>4, <2>5 DEF ReadInv, HasInput, EventMask
  <2>7. Handles(t, "remove")
    BY <2>1, <2>3, <2>6, <1>3 DEF ReadNothing, Readable, EventConn, EventSock
  <2>8. PICK l : thread' = [thread EXCEPT ![t] = l] /\ l.at = "remove"
    BY <1>3, <2>1, <2>7, HandlesPlaced DEF Types, ConnSteps
  <2>9. thread'[t] = l
    BY <2>8 DEF Types, ThreadType
  <2> QED
    BY <2>8, <2>9
<1> QED
  BY <1>1, <1>2, <1>3, ThreadMoves DEF Moved

LEMMA NoResultStep ==
  ASSUME Types, HeapInv, ReadInv, [Next]_vars
  PROVE  NoResult'
<1> SUFFICES ASSUME NEW w \in Workers, NEW r \in Range(aio_ctx'[w]) \cup Range(aio_events'[w]),
                    r.res > 0, NEW b, b = r.ptr.block, Clear(b)'
             PROVE  FALSE
  BY DEF NoResult, Clear
<1>1. CASE r \in Range(aio_ctx[w]) \cup Range(aio_events[w])
  <2>1. r \in ResultType
    BY <1>1, ElementOfSeq, LenProperties DEF Types, QueueType, Range
  <2>2. b \in Blocks
    BY <2>1, PointerParts DEF ResultType
  <2>3. b \in Spots(w)
    BY <1>1 DEF Spots, Points, Mine, Ptrs
  <2>4. Clear(b)
    BY <2>2, <2>3, ClearSpot
  <2> QED
    BY <1>1, <2>4 DEF ReadInv, NoResult
<1>2. ASSUME NEW t \in Threads, NEW res \in Pipe .. BufSize,
             Submits(t), SubmitAsyncWrite(t) /\ res > 0 => Conn(t).fd \in mixed',
             r = [ptr |-> thread[t].ptr, res |-> res]
      PROVE  FALSE
  <2>1. /\ Block(t) \in Blocks /\ Conn(t).fd \in Clients /\ b = Block(t) /\ res > 0
        /\ thread[t].at \in {"async", "async_read"}
    BY <1>2, SubmitsIs DEF Block
  <2>2. Clear(b) /\ heap'[b].client = heap[b].client
    BY <2>1, OwnSpot, ClearSpot
  <2>3. CASE SubmitAsyncWrite(t)
    <3>1. heap[b].fd = heap[b].client
      BY <2>1 DEF HeapInv, Homed, Conn
    <3> QED
      BY <1>2, <2>1, <2>2, <2>3, <3>1 DEF Clear, Conn
  <2>4. CASE SubmitAsyncRead(t)
    BY <2>1, <2>2, <2>4 DEF ReadInv, NoRead, SubmitAsyncRead, At
  <2> QED
    BY <1>2, <2>3, <2>4 DEF Submits
<1> QED
  BY <1>1, <1>2, ResultMoves

\* An event of the socket of a connection, when it is asked for.
LEMMA MaskHasInput ==
  ASSUME NEW s, "in" \in Mask(s)
  PROVE  s.rx # <<>>
BY DEF Mask, Poll

\* A worker that reads from the connection of event e has no other event of it.
LEMMA ReadsOther ==
  ASSUME Types, HeapInv, WatchInv, OwnerInv, NEW v \in Workers, NEW w \in Workers, ReadEvent(v),
         NEW e \in Range(events'[w]), e \in Range(events[w]), e # Exit,
         NEW b \in Blocks, b = e.ptr.block, Clear(b), heap[b].fd \in Clients,
         EventConn(v).fd = heap[b].fd
  PROVE  FALSE
<1>1. /\ Head(events[v]).ptr.block \in Blocks /\ HasEvent(v)
      /\ events[v] # <<>> /\ Head(events[v]) # Exit
  BY ReadEventIs DEF ReadEvent, HasEvent
<1>2. Head(events[v]).ptr.block = b /\ heap[b].client = heap[b].fd /\ heap[b].fd \notin cut
  BY <1>1, SameBlock DEF EventConn
<1>3. Head(events[v]) \in Range(events[v])
  BY <1>1, HeadInRange DEF Types, QueueType
<1>4. Head(events[v]).ptr \in Mine(v) /\ e.ptr \in Mine(w)
  BY <1>3 DEF Mine, Ptrs
<1>5. Head(events[v]).ptr \in Points(v) /\ e.ptr \in Points(w) /\ b \in Spots(v) /\ b \in Spots(w)
  BY <1>2, <1>4 DEF Points, Spots
<1>6. v = w
  BY <1>5 DEF OwnerInv, OneWorker
<1>7. Head(events[v]).ptr.client = heap[b].client /\ e.ptr.client = heap[b].client
  BY <1>2, <1>5 DEF OwnerInv, Meant
<1>8. events'[w] = Tail(events[w])
  <2>1. events' = [events EXCEPT ![w] = Tail(@)]
    BY <1>6, TakesMoves DEF TakesEvent
  <2> QED
    BY <2>1 DEF Types, QueueType
<1>9. Away(Head(events[w]).ptr, Tail(events[w]))
  <2>1. events[w] \in Seq(EventType) /\ Spread(events[w])
    BY DEF Types, QueueType, WatchInv
  <2> QED
    BY <1>1, <1>6, <2>1, SpreadTail
<1>10. Head(events[w]).ptr # NoPtr
  BY <1>1, <1>6, NextEvent, PointerParts DEF Types
<1>11. Differ(Head(events[w]).ptr, e.ptr)
  BY <1>8, <1>9, <1>10 DEF Away
<1> QED
  BY <1>2, <1>6, <1>7, <1>11 DEF Differ

LEMMA HasInputStep ==
  ASSUME Types, HeapInv, WatchInv, OwnerInv, ReadInv, [Next]_vars, HeapInv', Types'
  PROVE  HasInput'
<1> SUFFICES ASSUME NEW w \in Workers, NEW e \in Range(events'[w]), NEW b, b = e.ptr.block,
                    "in" \in e.mask, Clear(b)', heap'[b].fd \in Clients
             PROVE  sock'[heap'[b].fd].rx # <<>> \/ sock'[heap'[b].fd].err
  BY DEF HasInput, Clear
<1>0. e # Exit
  BY DEF Exit, Event
<1>1. b \in Blocks
  <2>1. e \in EventType
    BY ElementOfSeq, LenProperties DEF Types, QueueType, Range
  <2> QED
    BY <1>0, <2>1, PointerParts DEF EventType
<1>2. ASSUME WaitForEvents(w), NEW c \in Ready(w), e = EventOf(c)
      PROVE  sock[heap[b].fd].rx # <<>> /\ UNCHANGED <<heap, sock>>
  <2>1. UNCHANGED <<heap, sock, mixed>>
    BY <1>2 DEF WaitForEvents, connVars, historyVars
  <2>2. e.ptr \in Points(w) /\ e.ptr.client = c /\ e.mask = Mask(sock[c])
    BY <1>2, ReadyPoints DEF Points, Mine, EventOf, Event
  <2>3. Clear(b) /\ heap[b].fd \in Clients
    BY <2>1 DEF Clear
  <2>4. heap[b].fd = c
    BY <1>1, <2>2, <2>3 DEF OwnerInv, Meant, HeapInv, Homed
  <2> QED
    BY <2>1, <2>2, <2>4, MaskHasInput
<1>3. ASSUME e \in Range(events[w])
      PROVE  sock'[heap'[b].fd].rx # <<>> \/ sock'[heap'[b].fd].err
  <2>1. b \in Spots(w)
    BY <1>3 DEF Spots, Points, Mine, Ptrs
  <2>2. Clear(b) /\ heap'[b].client = heap[b].client
    BY <1>1, <2>1, ClearSpot
  <2>3. PICK c \in Clients : c = heap[b].fd /\ c = heap'[b].fd /\ c \notin closed' \cup cut'
    BY <1>1, <2>2, DescriptorKept
  <2>4. sock[c].rx # <<>> \/ sock[c].err
    BY <1>3, <2>2, <2>3 DEF ReadInv, HasInput
  <2>5. sock \in [Clients -> SocketType(Unit)]
    BY DEF Types, SocketsType
  <2>6. CASE Untouched(c)
    BY <2>3, <2>4, <2>6 DEF Untouched
  <2>7. ASSUME NEW t \in Threads, WriteSome(t), Conn(t).fd = c
        PROVE  sock'[c].rx = sock[c].rx /\ sock'[c].err = sock[c].err
    <3>1. PICK s : sock' = [sock EXCEPT ![c] = s] /\ Wrote(sock[c], Conn(t).pending, s)
      BY <2>7, WriteSomeIs
    <3> QED
      BY <2>5, <3>1 DEF Wrote
  <2>8. ASSUME NEW t \in Threads, Submits(t), Conn(t).fd = c
        PROVE  sock'[c].rx = sock[c].rx /\ sock'[c].err = sock[c].err
    <3>1. Block(t) \in Blocks
      BY <2>8, SubmitsIs
    <3>2. Block(t) = b
      BY <1>1, <2>3, <2>8, <3>1, SameBlock DEF Conn
    <3>3. ~SubmitAsyncRead(t)
      BY <2>2, <3>2 DEF ReadInv, NoRead, SubmitAsyncRead, At
    <3>4. PICK s : /\ sock' = [sock EXCEPT ![c] = s]
                   /\ s.rx = sock[c].rx
                   /\ s = sock[c] \/ Wrote(sock[c], Conn(t).pending, s)
      BY <2>8, <3>3, SubmitsSocket
    <3> QED
      BY <2>5, <3>4 DEF Wrote
  <2>9. ASSUME NEW v \in Workers, ReadEvent(v), EventConn(v).fd = c
        PROVE  FALSE
    BY <1>0, <1>1, <1>3, <2>2, <2>3, <2>9, ReadsOther
  <2>10. CASE OnClient(c)
    <3>1. sock[c].rx \in Seq(Unit)
      BY SocketOf DEF Types
    <3>2. \A x : Append(sock[c].rx, x) # <<>>
      BY <3>1
    <3>3. /\ sock'[c].err = sock[c].err \/ sock'[c].err
          /\ sock'[c].rx = sock[c].rx \/ sock'[c].err \/ \E x : sock'[c].rx = Append(sock[c].rx, x)
      BY <2>10, ClientMoves
    <3>4. sock'[c].rx # <<>> \/ sock'[c].err
      BY <2>4, <3>2, <3>3
    <3> QED
      BY <2>3, <3>4
  <2> QED
    BY <2>3, <2>4, <2>6, <2>7, <2>8, <2>9, <2>10, SockMoves DEF Shut
<1>4. e \in Range(events[w]) \/ (WaitForEvents(w) /\ (e = Exit \/ \E c \in Ready(w) : e = EventOf(c)))
  BY EventMoves
<1> QED
  BY <1>0, <1>2, <1>3, <1>4

LEMMA ReadInvStep ==
  ASSUME Types, HeapInv, WatchInv, OwnerInv, ReadInv, [Next]_vars, HeapInv', Types'
  PROVE  ReadInv'
BY NoReadStep, NoResultStep, HasInputStep DEF ReadInv

-----------------------------------------------------------------------------
(***************************************************************************)
(* What is pending and what is written                                     *)
(***************************************************************************)

\* The stream of client c, when the units u wait in write_buf.
Flow(c, u) == InOrder(c, got[c], sock[c].out, u, sock[c].rx, sent[c])

\* Thread t has written from the buffer of block b and not yet counted the bytes off.
Settles(t, b) == thread[t].at = "settle" /\ Block(t) = b

Unwrapped == \A b \in Blocks : Clear(b) => ~heap[b].wrapped

\* What clients have received and are about to is in order; so is what they have
\* sent, behind the welcome.
Received == \A c \in Clients \ mixed : InOrder(c, got[c], sock[c].out, <<>>, <<>>, sent[c])

Unread == \A c \in Clients : InOrder(c, Welcome(c), <<>>, <<>>, sock[c].rx, sent[c])

\* A client that has no connection yet, and one that has not been welcomed, has
\* been sent nothing.
Unserved ==
  \A c \in Clients : c \notin closed \cup cut /\ (\A b \in Blocks : heap[b].fd # c) =>
    sock[c].out = <<>> /\ got[c] = Nothing

Unwelcomed ==
  LET c == Conn(Acceptor).client IN
    thread[Acceptor].at \in {"add", "welcome"} /\ Clear(Block(Acceptor)) =>
      Conn(Acceptor).pending = <<>> /\ sock[c].out = <<>> /\ got[c] = Nothing

\* Between a write and the counting nobody else touches the buffer.
Settling ==
  \A t \in Threads : thread[t].at = "settle" /\ Clear(Block(t)) =>
    /\ thread[t].n <= Len(Conn(t).pending)
    /\ \A u \in Threads \ {t} : thread[u].at \in {"settle", "welcome"} => Block(u) # Block(t)
    /\ Conn(t).fd \in Clients => Flow(Conn(t).fd, Drop(Conn(t).pending, thread[t].n))

\* What waits in write_buf is in order.
Pending ==
  \A b \in Blocks : Clear(b) /\ heap[b].fd \in Clients /\ (\A t \in Threads : ~Settles(t, b)) =>
    Flow(heap[b].fd, heap[b].pending)

WriteInv == Unserved /\ Unwelcomed /\ Settling /\ Pending

LEMMA WriteInit == Init => Unwrapped /\ Received /\ Unread /\ WriteInv
<1> SUFFICES ASSUME Init
             PROVE  Unwrapped /\ Received /\ Unread /\ WriteInv
  OBVIOUS
<1>1. /\ \A t \in Threads : thread[t].at = "none"
      /\ \A b \in Blocks : heap[b] = Blank
      /\ \A c \in Clients : sock[c] = NewSocket /\ sent[c] = 0 /\ got[c] = Nothing
  BY DEF Init, Local
<1>2. \A b \in Blocks : ~heap[b].wrapped /\ heap[b].fd \notin Clients
  BY <1>1, Apart DEF Blank
<1>3. \A c \in Clients : sock[c].out = <<>> /\ sock[c].rx = <<>> /\ sent[c] = 0
  BY <1>1 DEF NewSocket
<1>4. Nothing[2] <= 0 /\ \A c \in Clients : Welcome(c)[2] <= 0 /\ Welcome(c)[1] = c
  BY UnitIs
<1>5. Received /\ Unread
  BY <1>1, <1>3, <1>4, OrderNone DEF Received, Unread
<1>6. Unserved /\ Unwelcomed /\ Settling /\ Pending
  BY <1>1, <1>2, <1>3, Apart DEF Unserved, Unwelcomed, Settling, Pending
<1> QED
  BY <1>2, <1>5, <1>6 DEF Unwrapped, WriteInv

\* How write_buf of a block may change.
LEMMA BufferMoves ==
  ASSUME Types, [Next]_vars, NEW b \in Blocks
  PROVE  \/ heap'[b].pending = heap[b].pending /\ heap'[b].wrapped = heap[b].wrapped
         \/ AcceptConnection /\ heap'[b] = NewConnection(Head(backlog))
         \/ \E t \in Threads :
              /\ Settle(t) /\ Block(t) = b
              /\ heap'[b].pending = Drop(heap[b].pending, thread[t].n)
              /\ heap'[b].wrapped = (heap[b].wrapped \/ thread[t].n > Len(heap[b].pending))
         \/ \E w \in Workers : /\ ReadEvent(w) \/ CompleteData(w)
                               /\ FilledBlock(w) = b
                               /\ heap'[b].wrapped => heap[b].wrapped
         \/ /\ SendWelcome /\ Block(Acceptor) = b
            /\ heap'[b].pending = <<Welcome(thread[Acceptor].ptr.client)>> /\ ~heap'[b].wrapped
<1>0. heap \in [Blocks -> Connection]
  BY DEF Types, HeapType
<1>1. ASSUME NEW d, NEW conn, heap' = [heap EXCEPT ![d] = conn]
      PROVE  heap'[b] = IF d = b THEN conn ELSE heap[b]
  BY <1>0, <1>1
<1>2. ASSUME UNCHANGED heap
      PROVE  heap'[b].pending = heap[b].pending /\ heap'[b].wrapped = heap[b].wrapped
  BY <1>2
<1>3. CASE \E t \in Threads : FillsBuffer(t)
  <2>1. PICK t \in Threads : FillsBuffer(t)
    BY <1>3
  <2>2. CASE Settle(t)
    <3>1. PICK conn : /\ heap' = [heap EXCEPT ![Block(t)] = conn]
                      /\ conn.pending = Drop(Conn(t).pending, thread[t].n)
                      /\ conn.wrapped = (Conn(t).wrapped \/ thread[t].n > Len(Conn(t).pending))
      BY <2>2, SettleIs
    <3> QED
      BY <1>1, <2>2, <3>1 DEF Conn
  <2>3. CASE ~Settle(t)
    <3>1. PICK conn : /\ heap' = [heap EXCEPT ![Block(t)] = conn]
                      /\ conn.pending = Conn(t).pending /\ conn.wrapped = Conn(t).wrapped
      BY <2>1, <2>3, FillsIs
    <3> QED
      BY <1>1, <3>1 DEF Conn
  <2> QED
    BY <2>2, <2>3
<1>4. CASE \E t \in Threads : BeginRemove(t)
  <2>0. PICK t \in Threads : BeginRemove(t)
    BY <1>4
  <2>1. PICK conn : heap' = [heap EXCEPT ![Block(t)] = conn] /\ Removed(conn, Conn(t))
    BY <2>0, BeginRemoveIs
  <2> QED
    BY <1>1, <2>1 DEF Conn, Removed
<1>5. CASE \E w \in Workers : WorkerFills(w)
  <2>1. PICK w \in Workers : WorkerFills(w)
    BY <1>5
  <2>2. PICK conn : /\ heap' = [heap EXCEPT ![FilledBlock(w)] = conn]
                    /\ conn.wrapped => heap[FilledBlock(w)].wrapped
    BY <2>1, WorkerFillsIs
  <2>3. CASE ReadEvent(w) \/ CompleteData(w)
    BY <1>1, <2>2, <2>3
  <2>4. CASE HandleOutput(w)
    <3>1. heap' = [heap EXCEPT ![Block(w)] = [heap[Block(w)] EXCEPT !.writable = TRUE]]
      BY <2>4 DEF HandleOutput
    <3>2. Block(w) = b => heap'[b] = [heap[b] EXCEPT !.writable = TRUE]
      BY <1>1, <3>1
    <3> QED
      BY <1>0, <1>1, <3>1, <3>2 DEF Connection
  <2> QED
    BY <2>1, <2>3, <2>4 DEF WorkerFills
<1>6. CASE \E w \in Workers : CompletePipe(w)
  <2>0. PICK d \in Blocks :
          \E conn : /\ heap' = [heap EXCEPT ![d] = conn]
                    /\ conn = [heap[d] EXCEPT !.fd = IF @ = None THEN None ELSE Stdin]
    BY <1>6, CompletePipeIs
  <2>1. PICK conn : /\ heap' = [heap EXCEPT ![d] = conn]
                    /\ conn = [heap[d] EXCEPT !.fd = IF @ = None THEN None ELSE Stdin]
    BY <2>0
  <2>2. conn.pending = heap[d].pending /\ conn.wrapped = heap[d].wrapped
    BY <1>0, <2>1 DEF Connection
  <2> QED
    BY <1>1, <2>1, <2>2
<1>7. CASE AcceptConnection
  <2>1. PICK d : heap' = [heap EXCEPT ![d] = NewConnection(Head(backlog))]
    BY <1>7, AcceptConnectionIs
  <2> QED
    BY <1>1, <1>7, <2>1
<1>8. CASE AddFails
  <2>1. \/ UNCHANGED heap
        \/ \E conn : heap' = [heap EXCEPT ![Block(Acceptor)] = conn] /\ Removed(conn, Conn(Acceptor))
    BY <1>8, AddFailsIs
  <2> QED
    BY <1>1, <1>2, <2>1 DEF Conn, Removed
<1>9. CASE SendWelcome
  <2>1. PICK conn : /\ heap' = [heap EXCEPT ![Block(Acceptor)] = conn]
                    /\ conn.pending = <<Welcome(thread[Acceptor].ptr.client)>> /\ ~conn.wrapped
    BY <1>9, SendWelcomeIs
  <2> QED
    BY <1>1, <1>9, <2>1
<1>10. CASE (\E t \in Threads : EndRemove(t)) \/ AddConnection \/ Stop \/ UNCHANGED connVars
  BY <1>2, <1>10 DEF EndRemove, AddConnection, Stop, connVars
<1> QED
  BY <1>3, <1>4, <1>5, <1>6, <1>7, <1>8, <1>9, <1>10, HeapMoves

\* An asynchronous write that does not put bytes into the socket that stay pending.
LEMMA AsyncWrites ==
  ASSUME Types, NEW t \in Threads, SubmitAsyncWrite(t), Conn(t).fd \notin mixed'
  PROVE  sock'[Conn(t).fd].out = sock[Conn(t).fd].out /\ sock'[Conn(t).fd].rx = sock[Conn(t).fd].rx
<1>1. PICK c \in Clients : c = Conn(t).fd
  BY DEF SubmitAsyncWrite
<1>2. thread[t].at \in ConnSteps
  BY DEF SubmitAsyncWrite, At, ConnSteps
<1>3. Conn(t).pending \in Seq(Unit)
  BY <1>2, InHand DEF Types, Connection
<1>4. PICK p \in Seq(Unit) : /\ p = Put(sock[c], Conn(t).pending) /\ Len(p) \in Nat
                             /\ AfterWrite(sock[c], Conn(t).pending) = [sock[c] EXCEPT !.out = sock[c].out \o p]
  BY <1>3, SocketOf, PutIs, LenProperties DEF Types
<1>5. p = <<>>
  <2>1. ~(Len(p) > 0)
    BY <1>1, <1>4 DEF SubmitAsyncWrite, Mix
  <2> QED
    BY <1>4, <2>1, EmptySeq
<1>6. sock[c] \in SocketType(Unit) /\ sock[c].out \in Seq(Unit) /\ sock \in [Clients -> SocketType(Unit)]
  BY SocketOf DEF Types, SocketsType
<1>7. sock[c].out \o p = sock[c].out
  BY <1>5, <1>6
<1>8. PICK s : /\ s = AfterWrite(sock[c], Conn(t).pending)
               /\ s.out = sock[c].out /\ s.rx = sock[c].rx
  BY <1>4, <1>6, <1>7 DEF SocketType
<1>9. UNCHANGED sock \/ sock' = [sock EXCEPT ![c] = s]
  BY <1>1, <1>8 DEF SubmitAsyncWrite
<1> QED
  BY <1>1, <1>6, <1>8, <1>9

LEMMA StreamType ==
  ASSUME Types, NEW c \in Clients
  PROVE  /\ sock[c].out \in Seq(Unit) /\ sock[c].rx \in Seq(Unit)
         /\ sent[c] \in Nat /\ got[c] \in Unit \cup {Nothing}
<1>1. sent[c] \in 0 .. MaxBytes /\ MaxBytes \in Nat
  BY Sizes DEF Types, ClientType
<1>2. sent[c] \in Nat
  BY <1>1
<1> QED
  BY <1>2, SocketOf DEF Types, ClientType

\* A client that acts keeps its stream in order, whatever is pending.
LEMMA ClientOrder ==
  ASSUME Types, NEW c \in Clients, OnClient(c), NEW u \in Seq(Unit), Flow(c, u)
  PROVE  InOrder(c, got'[c], sock'[c].out, u, sock'[c].rx, sent'[c])
<1>1. PICK g \in Unit \cup {Nothing}, n \in Nat, out \in Seq(Unit), rx \in Seq(Unit) :
        g = got[c] /\ n = sent[c] /\ out = sock[c].out /\ rx = sock[c].rx
  BY StreamType
<1>2. InOrder(c, g, out, u, rx, n)
  BY <1>1 DEF Flow
<1>3. CASE sock'[c].out = out /\ sock'[c].rx = rx /\ sent'[c] = n /\ got'[c] = g
  BY <1>2, <1>3
<1>4. CASE /\ sock'[c].out = out /\ got'[c] = g
           /\ n + 1 \in 0 .. MaxBytes /\ sent'[c] = n + 1
           /\ sock'[c].rx = Append(rx, <<c, n + 1>>)
  BY <1>2, <1>4, OrderSend
<1>5. CASE /\ out # <<>> /\ sock'[c].out = Tail(out) /\ got'[c] = Head(out)
           /\ sock'[c].rx = rx /\ sent'[c] = n
  BY <1>2, <1>5, OrderReceive
<1>6. CASE /\ sock'[c].out = <<>> /\ sock'[c].rx = <<>>
           /\ sent'[c] = n /\ got'[c] = g
  BY <1>2, <1>6, OrderReset
<1> QED
  BY <1>1, <1>3, <1>4, <1>5, <1>6, ClientMoves

\* What a read of the server does with the socket.
LEMMA ReadsStream ==
  ASSUME Types, NEW c \in Clients,
         \/ \E t \in Threads : SubmitAsyncRead(t) /\ Conn(t).fd = c
         \/ \E w \in Workers : ReadEvent(w) /\ EventConn(w).fd = c
  PROVE  \E data \in Seq(Unit) : sock[c].rx = data \o sock'[c].rx /\ sock'[c].out = sock[c].out
<1>0. sock \in [Clients -> SocketType(Unit)]
  BY DEF Types, SocketsType
<1>1. PICK data, s : Reads(sock[c], data, s) /\ sock' = [sock EXCEPT ![c] = s]
  <2>1. ASSUME NEW t \in Threads, SubmitAsyncRead(t), Conn(t).fd = c
        PROVE  \E data, s : Reads(sock[c], data, s) /\ sock' = [sock EXCEPT ![c] = s]
    <3>1. PICK data : data = Take(sock[c], BufSize - 1)
      OBVIOUS
    <3>2. BufSize - 1 \in Nat
      BY Sizes
    <3>3. sock' = [sock EXCEPT ![c] = AfterRead(sock[c], BufSize - 1)]
      BY <2>1 DEF SubmitAsyncRead
    <3>4. Reads(sock[c], data, AfterRead(sock[c], BufSize - 1))
      BY <3>1, <3>2, TakeIs, SocketOf DEF Types
    <3> QED
      BY <3>3, <3>4
  <2> QED
    BY <2>1, ReadEventIs
<1>2. sock'[c] = s
  BY <1>0, <1>1
<1> QED
  BY <1>1, <1>2 DEF Reads

\* What is pending stays in order as long as nobody writes.
LEMMA FlowKept ==
  ASSUME Types, [Next]_vars, NEW c \in Clients, c \notin mixed', c \notin closed',
         NEW u \in Seq(Unit), Flow(c, u),
         \A t \in Threads : ~(WriteSome(t) /\ Conn(t).fd = c)
  PROVE  InOrder(c, got'[c], sock'[c].out, u, sock'[c].rx, sent'[c])
<1>1. CASE Untouched(c)
  BY <1>1 DEF Untouched, Flow
<1>2. ASSUME NEW data \in Seq(Unit), sock[c].rx = data \o sock'[c].rx, sock'[c].out = sock[c].out,
             got'[c] = got[c], sent'[c] = sent[c], Types'
      PROVE  InOrder(c, got'[c], sock'[c].out, u, sock'[c].rx, sent'[c])
  <2>1. PICK out \in Seq(Unit), rx \in Seq(Unit) :
          out = sock[c].out /\ rx = sock'[c].rx
    <3>1. sock[c].out \in Seq(Unit) /\ sock'[c].rx \in Seq(Unit)
      BY <1>2, StreamType DEF Types, SocketsType, SocketType
    <3> QED
      BY <3>1
  <2>2. InOrder(c, got[c], out, u, data \o rx, sent[c])
    BY <1>2, <2>1 DEF Flow
  <2>3. InOrder(c, got[c], out, u, rx, sent[c])
    BY <2>2, OrderRead
  <2> QED
    BY <1>2, <2>1, <2>3
<1>3. Types'
  BY TypesStep
<1>4. ASSUME NEW t \in Threads, Submits(t), Conn(t).fd = c, got'[c] = got[c], sent'[c] = sent[c]
      PROVE  InOrder(c, got'[c], sock'[c].out, u, sock'[c].rx, sent'[c])
  <2>1. CASE SubmitAsyncRead(t)
    BY <1>2, <1>3, <1>4, <2>1, ReadsStream
  <2>2. CASE SubmitAsyncWrite(t)
    <3>1. sock'[c].out = sock[c].out /\ sock'[c].rx = sock[c].rx
      BY <1>4, <2>2, AsyncWrites
    <3> QED
      BY <1>4, <3>1 DEF Flow
  <2> QED
    BY <1>4, <2>1, <2>2 DEF Submits
<1>5. ASSUME NEW w \in Workers, ReadEvent(w), EventConn(w).fd = c, got'[c] = got[c], sent'[c] = sent[c]
      PROVE  InOrder(c, got'[c], sock'[c].out, u, sock'[c].rx, sent'[c])
  BY <1>2, <1>3, <1>5, ReadsStream
<1>6. CASE OnClient(c)
  BY <1>6, ClientOrder
<1> QED
  BY <1>1, <1>4, <1>5, <1>6, SockMoves DEF Shut

\* A write takes bytes from the front of what is pending.
LEMMA FlowWritten ==
  ASSUME Types, [Next]_vars, NEW t \in Threads, WriteSome(t), NEW c \in Clients, Conn(t).fd = c,
         NEW p, p = Conn(t).pending, Flow(c, p)
  PROVE  /\ p \in Seq(Unit)
         /\ \E n \in 0 .. Len(p) :
              /\ thread'[t].n = n /\ thread'[t].at = "settle" /\ thread'[t].ptr = thread[t].ptr
              /\ \A u \in Threads : u # t => thread'[u] = thread[u]
              /\ Drop(p, n) \in Seq(Unit)
              /\ InOrder(c, got'[c], sock'[c].out, Drop(p, n), sock'[c].rx, sent'[c])
<1>1. thread[t].at \in ConnSteps
  BY DEF WriteSome, Writes, At, ConnSteps
<1>2. p \in Seq(Unit)
  BY <1>1, InHand DEF Types, Connection
<1>3. PICK n : n = Len(Put(sock[c], p))
  OBVIOUS
<1>4. PICK q \in Seq(Unit) : /\ q = Put(sock[c], p) /\ n \in 0 .. Len(p)
                             /\ Drop(p, n) \in Seq(Unit) /\ p = q \o Drop(p, n)
  BY <1>2, <1>3, SocketOf, PutIs DEF Types
<1>5. PICK d \in Seq(Unit) : d = Drop(p, n) /\ p = q \o d
  BY <1>4
<1>6. PICK s : sock' = [sock EXCEPT ![c] = s] /\ Wrote(sock[c], p, s)
  BY WriteSomeIs
<1>7. sock'[c] = s
  BY <1>6 DEF Types, SocketsType
<1>8. PICK out \in Seq(Unit), rx \in Seq(Unit) : out = sock[c].out /\ rx = sock[c].rx
  BY StreamType
<1>9. InOrder(c, got[c], out, q \o d, rx, sent[c])
  BY <1>5, <1>8 DEF Flow
<1>10. InOrder(c, got[c], out \o q, d, rx, sent[c])
  BY <1>9, OrderWrite
<1>11. got'[c] = got[c] /\ sent'[c] = sent[c]
  BY DEF WriteSome, otherVars, clientVars
<1>12. sock'[c].out = out \o q /\ sock'[c].rx = rx
  BY <1>4, <1>6, <1>7, <1>8 DEF Wrote
<1>13. /\ thread'[t].n = n /\ thread'[t].at = "settle" /\ thread'[t].ptr = thread[t].ptr
       /\ \A u \in Threads : u # t => thread'[u] = thread[u]
  <2>1. PICK l : /\ thread' = [thread EXCEPT ![t] = l]
                 /\ l = [thread[t] EXCEPT !.at = "settle", !.n = n]
    BY <1>3, WritesSome DEF Types
  <2>2. thread[t] \in Place
    BY DEF Types, ThreadType
  <2>3. l.n = n /\ l.at = "settle" /\ l.ptr = thread[t].ptr
    BY <2>1, <2>2 DEF Place
  <2>4. thread' = [thread EXCEPT ![t] = l]
    BY <2>1
  <2>5. \A u \in Threads : thread'[u] = IF u = t THEN l ELSE thread[u]
    BY <2>4, OneMoves DEF Types
  <2> QED
    BY <2>3, <2>5
<1> QED
  BY <1>2, <1>4, <1>5, <1>10, <1>11, <1>12, <1>13

\* A read of the worker puts what it has read in the place of what was pending, or
\* leaves that.
LEMMA FlowRead ==
  ASSUME Types, [Next]_vars, NEW w \in Workers, ReadEvent(w), NEW b \in Blocks, FilledBlock(w) = b,
         NEW c \in Clients, heap[b].fd = c, Flow(c, heap[b].pending)
  PROVE  InOrder(c, got'[c], sock'[c].out, heap'[b].pending, sock'[c].rx, sent'[c])
<1>0. Head(events[w]).ptr.block = b /\ EventConn(w) = heap[b]
  BY DEF FilledBlock, ReadEvent, HasEvent, At, EventConn
<1>1. PICK data, s, conn :
        /\ Reads(sock[c], data, s)
        /\ sock' = [sock EXCEPT ![c] = s]
        /\ heap' = [heap EXCEPT ![b] = conn]
        /\ conn.pending = data \/ conn.pending = heap[b].pending
  BY <1>0, ReadEventIs
<1>2. sock'[c] = s /\ heap'[b] = conn
  BY <1>1 DEF Types, SocketsType, HeapType
<1>3. PICK out \in Seq(Unit), rx \in Seq(Unit), u \in Seq(Unit) :
        out = sock[c].out /\ rx = s.rx /\ u = heap[b].pending
  BY <1>1, StreamType, SpacedIs DEF Reads, Types, HeapType, Connection
<1>4. data \in Seq(Unit) /\ InOrder(c, got[c], out, u, data \o rx, sent[c])
  BY <1>1, <1>3 DEF Flow, Reads
<1>5. InOrder(c, got[c], out, data, rx, sent[c]) /\ InOrder(c, got[c], out, u, rx, sent[c])
  BY <1>4, OrderRead
<1>6. got'[c] = got[c] /\ sent'[c] = sent[c]
  BY DEF ReadEvent, otherVars, clientVars
<1> QED
  BY <1>1, <1>2, <1>3, <1>5, <1>6 DEF Reads

\* Who fills or writes the buffer of a connection while another thread does mixes
\* its client up.
LEMMA WritesAlone ==
  ASSUME Types, HeapInv, NEW b \in Blocks, Clear(b)', heap'[b].client = heap[b].client,
         NEW u \in Threads, Block(u) = b,
         thread[u].at \in {"welcome", "write", "again", "settle", "async"},
         NEW t \in Threads, t # u
  PROVE  /\ ~(WriteSome(t) /\ Block(t) = b)
         /\ ~(t \in Workers /\ ReadEvent(t) /\ FilledBlock(t) = b)
<1>1. Writing(b, t)
  BY DEF Writing, Block
<1>2. ASSUME WriteSome(t), Block(t) = b
      PROVE  FALSE
  <2>1. heap[b].fd \in Clients /\ Mix(heap[b].fd, Writing(b, t))
    BY <1>2, WriteSomeIs DEF Conn
  <2>2. heap[b].fd = heap[b].client
    BY <2>1 DEF HeapInv, Homed
  <2> QED
    BY <1>1, <2>1, <2>2 DEF Mix, Clear
<1>3. ASSUME t \in Workers, ReadEvent(t), FilledBlock(t) = b
      PROVE  FALSE
  <2>1. Head(events[t]).ptr.block = b
    BY <1>3 DEF FilledBlock, ReadEvent, HasEvent, At
  <2>2. heap[b].fd \in Clients /\ Mix(heap[b].fd, Writing(b, t))
    BY <1>3, <2>1 DEF ReadEvent, Readable, EventConn
  <2>3. heap[b].fd = heap[b].client
    BY <2>2 DEF HeapInv, Homed
  <2> QED
    BY <1>1, <2>2, <2>3 DEF Mix, Clear
<1> QED
  BY <1>2, <1>3

\* No completion fills the buffer of a clear connection.
LEMMA NoCompletion ==
  ASSUME Types, ReadInv, NEW b \in Blocks, Clear(b), NEW w \in Workers, CompleteData(w)
  PROVE  FilledBlock(w) # b
<1>1. At(w, "complete") /\ aio_events[w] # <<>> /\ Head(aio_events[w]).res > 0
  BY DEF CompleteData
<1>2. FilledBlock(w) = Head(aio_events[w]).ptr.block
  BY <1>1 DEF FilledBlock, At
<1>3. Head(aio_events[w]) \in Range(aio_events[w])
  BY <1>1, HeadInRange DEF Types, QueueType
<1> QED
  BY <1>1, <1>2, <1>3 DEF ReadInv, NoResult

\* A thread that writes the buffer of a clear connection finds its stream in order.
LEMMA WritesPending ==
  ASSUME Types, HeapInv, Pending, [Next]_vars, NEW t \in Threads, WriteSome(t), NEW b, b = Block(t),
         Clear(b)'
  PROVE  /\ b \in Blocks /\ Clear(b) /\ Conn(t).fd \in Clients /\ Conn(t).fd = heap[b].client
         /\ heap'[b] = heap[b]
         /\ \A u \in Threads : ~Settles(u, b)
         /\ Flow(Conn(t).fd, Conn(t).pending)
<1>1. b \in Blocks /\ Conn(t).fd \in Clients /\ thread[t].at = "write"
  BY WriteSomeIs
<1>2. Conn(t).fd = heap[b].client
  BY <1>1 DEF HeapInv, Homed, Conn
<1>3. UNCHANGED heap
  BY DEF WriteSome, connVars
<1>4. Clear(b)
  BY <1>3, MixedGrows DEF Clear
<1>5. \A u \in Threads : ~Settles(u, b)
  BY <1>1, <1>3, WritesAlone DEF Settles
<1>6. Flow(Conn(t).fd, Conn(t).pending)
  BY <1>1, <1>4, <1>5 DEF Pending, Conn
<1> QED
  BY <1>1, <1>2, <1>3, <1>4, <1>5, <1>6

LEMMA ReceivedStep ==
  ASSUME Types, HeapInv, Pending, Received, [Next]_vars
  PROVE  Received'
<1> SUFFICES ASSUME NEW c \in Clients, c \notin mixed'
             PROVE  InOrder(c, got'[c], sock'[c].out, <<>>, <<>>, sent'[c])
  BY DEF Received
<1>1. PICK g \in Unit \cup {Nothing}, n \in Nat, out \in Seq(Unit) :
        g = got[c] /\ n = sent[c] /\ out = sock[c].out
  BY StreamType
<1>2. InOrder(c, g, out, <<>>, <<>>, n)
  BY <1>1, MixedGrows DEF Received
<1>3. CASE Untouched(c)
  BY <1>1, <1>2, <1>3 DEF Untouched
<1>4. CASE Shut(c)
  <2>1. Nothing[2] <= 0
    BY UnitIs
  <2> QED
    BY <1>4, <2>1, OrderNone DEF Shut, NewSocket
<1>5. ASSUME NEW t \in Threads, WriteSome(t), Conn(t).fd = c
      PROVE  InOrder(c, got'[c], sock'[c].out, <<>>, <<>>, sent'[c])
  <2>1. PICK b : b = Block(t)
    OBVIOUS
  <2>2. b \in Blocks /\ UNCHANGED heap
    BY <1>5, <2>1, WriteSomeIs DEF WriteSome, connVars
  <2>3. heap[b].client = c
    BY <1>5, <2>1, <2>2 DEF HeapInv, Homed, Conn
  <2>4. Clear(b)'
    BY <2>2, <2>3 DEF Clear
  <2>5. PICK p : p = Conn(t).pending /\ Flow(c, p)
    BY <1>5, <2>1, <2>4, WritesPending
  <2>6. \E u : InOrder(c, got'[c], sock'[c].out, u, sock'[c].rx, sent'[c])
    BY <1>5, <2>5, FlowWritten
  <2> QED
    BY <2>6, StretchNone DEF InOrder
<1>6. CASE got'[c] = got[c] /\ sent'[c] = sent[c] /\ sock'[c].out = sock[c].out
  BY <1>1, <1>2, <1>6
<1>7. ASSUME NEW t \in Threads, Submits(t), Conn(t).fd = c
      PROVE  sock'[c].out = sock[c].out
  BY <1>7, AsyncWrites, ReadsStream DEF Submits
<1>8. ASSUME NEW w \in Workers, ReadEvent(w), EventConn(w).fd = c
      PROVE  sock'[c].out = sock[c].out
  BY <1>8, ReadsStream
<1>9. CASE OnClient(c)
  <2>0. <<>> \in Seq(Unit)
    OBVIOUS
  <2>1. CASE sock'[c].out = out /\ sent'[c] = n /\ got'[c] = g
    BY <1>2, <2>1
  <2>2. CASE sock'[c].out = out /\ sent'[c] = n + 1 /\ got'[c] = g
    BY <1>2, <2>0, <2>2, OrderMore
  <2>3. CASE out # <<>> /\ sock'[c].out = Tail(out) /\ got'[c] = Head(out) /\ sent'[c] = n
    BY <1>2, <2>0, <2>3, OrderReceive
  <2>4. CASE sock'[c].out = <<>> /\ sent'[c] = n /\ got'[c] = g
    BY <1>2, <2>4, OrderReset
  <2> QED
    BY <1>1, <1>9, <2>1, <2>2, <2>3, <2>4, ClientMoves
<1> QED
  BY <1>3, <1>4, <1>5, <1>6, <1>7, <1>8, <1>9, SockMoves

LEMMA UnreadStep ==
  ASSUME Types, Unread, [Next]_vars
  PROVE  Unread'
<1> SUFFICES ASSUME NEW c \in Clients
             PROVE  InOrder(c, Welcome(c), <<>>, <<>>, sock'[c].rx, sent'[c])
  BY DEF Unread
<1>1. PICK n \in Nat, rx \in Seq(Unit), g \in Unit : n = sent[c] /\ rx = sock[c].rx /\ g = Welcome(c)
  BY StreamType, UnitIs
<1>2. InOrder(c, g, <<>>, <<>>, rx, n) /\ <<>> \in Seq(Unit)
  BY <1>1 DEF Unread
<1>3. CASE sock'[c].rx = rx /\ sent'[c] = n
  BY <1>1, <1>2, <1>3
<1>4. CASE Shut(c)
  <2>1. Welcome(c)[2] <= 0 /\ Welcome(c)[1] = c
    BY UnitIs
  <2> QED
    BY <1>4, <2>1, OrderNone DEF Shut, NewSocket
<1>5. ASSUME NEW data \in Seq(Unit), sock[c].rx = data \o sock'[c].rx, sent'[c] = sent[c]
      PROVE  InOrder(c, Welcome(c), <<>>, <<>>, sock'[c].rx, sent'[c])
  <2>1. PICK r \in Seq(Unit) : r = sock'[c].rx
    BY TypesStep DEF Types, SocketsType, SocketType
  <2>2. InOrder(c, g, <<>>, <<>>, data \o r, n)
    BY <1>1, <1>2, <1>5, <2>1
  <2>3. InOrder(c, g, <<>>, <<>>, r, n)
    BY <1>2, <2>2, OrderRead
  <2> QED
    BY <1>1, <1>5, <2>1, <2>3
<1>6. ASSUME NEW t \in Threads, WriteSome(t), Conn(t).fd = c
      PROVE  sock'[c].rx = rx
  <2>1. PICK s : sock' = [sock EXCEPT ![c] = s] /\ s.rx = sock[c].rx
    BY <1>6, WriteSomeIs DEF Wrote
  <2> QED
    BY <1>1, <2>1 DEF Types, SocketsType
<1>7. ASSUME NEW t \in Threads, SubmitAsyncWrite(t), Conn(t).fd = c
      PROVE  sock'[c].rx = rx
  <2>1. PICK s : sock' = [sock EXCEPT ![c] = s] /\ s.rx = sock[c].rx
    BY <1>7, SubmitsSocket DEF Submits, SubmitAsyncWrite, SubmitAsyncRead, At
  <2> QED
    BY <1>1, <2>1 DEF Types, SocketsType
<1>8. CASE OnClient(c)
  <2>1. CASE sent'[c] = n + 1 /\ n + 1 \in 0 .. MaxBytes /\ sock'[c].rx = Append(rx, <<c, n + 1>>)
    BY <1>1, <1>2, <2>1, OrderSend
  <2>2. CASE sock'[c].rx = <<>> /\ sent'[c] = n
    BY <1>1, <1>2, <2>2, OrderReset
  <2> QED
    BY <1>1, <1>3, <1>8, <2>1, <2>2, ClientMoves
<1> QED
  BY <1>1, <1>3, <1>4, <1>5, <1>6, <1>7, <1>8, SockMoves, ReadsStream DEF Untouched, Submits

\* A client keeps its block until its socket is closed or its descriptor lost.
LEMMA UnservedStep ==
  ASSUME Types, HeapInv, WriteInv, [Next]_vars, Up'
  PROVE  Unserved'
<1> SUFFICES ASSUME NEW c \in Clients, c \notin closed' \cup cut', \A b \in Blocks : heap'[b].fd # c
             PROVE  sock'[c].out = <<>> /\ got'[c] = Nothing
  BY DEF Unserved
<1>1. c \notin closed \cup cut
  BY ClosedGrows, CutGrows
<1>2. ASSUME NEW b \in Blocks, heap[b].fd = c
      PROVE  FALSE
  <2>1. ASSUME NEW t \in Threads, BeginRemove(t), Block(t) = b
        PROVE  c \in closed'
    BY <1>2, <2>1 DEF BeginRemove, Close, Conn
  <2>2. ASSUME AddFails, Block(Acceptor) = b
        PROVE  c \in closed' \/ heap'[b] = heap[b]
    BY <1>2, <2>2, AddFailsIs DEF Close, Conn
  <2> QED
    BY <1>2, <2>1, <2>2, DescriptorMoves
<1>3. sock[c].out = <<>> /\ got[c] = Nothing
  BY <1>1, <1>2 DEF WriteInv, Unserved
<1>4. ASSUME NEW t \in Threads, WriteSome(t) \/ Submits(t)
      PROVE  Conn(t).fd # c
  <2>1. Block(t) \in Blocks
    BY <1>4, WriteSomeIs, SubmitsIs
  <2> QED
    BY <1>2, <2>1 DEF Conn
<1>5. ASSUME NEW w \in Workers, ReadEvent(w)
      PROVE  EventConn(w).fd # c
  BY <1>2, <1>5, ReadEventIs DEF EventConn
<1>6. CASE OnClient(c)
  BY <1>3, <1>6, ClientMoves
<1>7. CASE Untouched(c)
  BY <1>3, <1>7 DEF Untouched
<1> QED
  BY <1>4, <1>5, <1>6, <1>7, SockMoves DEF Shut

LEMMA UnwrappedStep ==
  ASSUME Types, HeapInv, Settling, ReadInv, Unwrapped, [Next]_vars
  PROVE  Unwrapped'
<1> SUFFICES ASSUME NEW b \in Blocks, Clear(b)'
             PROVE  ~heap'[b].wrapped
  BY DEF Unwrapped, Clear
<1>1. CASE AcceptConnection /\ heap'[b] = NewConnection(Head(backlog))
  BY <1>1 DEF NewConnection
<1>2. CASE ~(AcceptConnection /\ heap'[b] = NewConnection(Head(backlog)))
  <2>1. heap'[b].client = heap[b].client
    <3>1. CASE AcceptConnection
      <4>1. PICK d \in Blocks : heap' = [heap EXCEPT ![d] = NewConnection(Head(backlog))]
        BY <3>1, AcceptConnectionIs
      <4> QED
        BY <1>2, <3>1, <4>1 DEF Types, HeapType
    <3> QED
      BY <3>1, ClientsKept
  <2>2. Clear(b) /\ ~heap[b].wrapped
    BY <2>1, MixedGrows DEF Clear, Unwrapped
  <2>3. ASSUME NEW t \in Threads, Settle(t), Block(t) = b,
               heap'[b].wrapped = (heap[b].wrapped \/ thread[t].n > Len(heap[b].pending))
        PROVE  ~heap'[b].wrapped
    <3>1. thread[t].at = "settle"
      BY <2>3 DEF Settle, At
    <3>2. thread[t].n <= Len(heap[b].pending)
      BY <2>2, <2>3, <3>1 DEF Settling, Conn
    <3>3. thread[t].n \in Nat /\ Len(heap[b].pending) \in Nat
      <4>1. thread[t].n \in 0 .. SendSpace /\ SendSpace \in Nat
        BY Sizes DEF Types, ThreadType, Place
      <4>2. heap[b].pending \in Seq(Unit)
        BY DEF Types, HeapType, Connection
      <4> QED
        BY <4>1, <4>2, LenProperties
    <3>4. ~(thread[t].n > Len(heap[b].pending))
      BY <3>2, <3>3
    <3> QED
      BY <2>2, <2>3, <3>4
  <2> QED
    BY <1>2, <2>2, <2>3, BufferMoves
<1> QED
  BY <1>1, <1>2

\* Who is accepted has been sent nothing.
LEMMA AcceptedNew ==
  ASSUME Types, HeapInv, Unserved, AcceptConnection, NEW c, c = Head(backlog)
  PROVE  /\ c \in Clients /\ sock[c].out = <<>> /\ got[c] = Nothing
         /\ UNCHANGED <<sock, got, sent>>
<1>1. backlog # <<>> /\ c \in Clients
  BY AcceptConnectionIs
<1>2. c \in Range(backlog)
  BY <1>1, HeadInRange DEF Types, ClientType
<1>3. c \notin closed \cup cut
  BY <1>2 DEF HeapInv, Waiting
<1>4. ASSUME NEW b \in Blocks, heap[b].fd = c
      PROVE  FALSE
  <2>1. heap[b].client = c
    BY <1>1, <1>4 DEF HeapInv, Homed
  <2>2. Used(b)
    BY <1>1, <2>1, Apart DEF Used
  <2> QED
    BY <1>2, <2>1, <2>2 DEF HeapInv, Homed
<1>5. UNCHANGED <<sock, got, sent>>
  BY DEF AcceptConnection, socketVars
<1> QED
  BY <1>1, <1>3, <1>4, <1>5 DEF Unserved

\* Nobody writes to a connection that is not yet welcomed, or its client is mixed up.
LEMMA NotWelcomed ==
  ASSUME Types, HeapInv, OwnerInv, ReadInv, WriteInv, [Next]_vars, NEW b, b = Block(Acceptor),
         thread[Acceptor].at \in {"add", "welcome"}, Clear(b)', Clear(b), heap'[b].client = heap[b].client
  PROVE  /\ \A t \in Threads : ~(Settle(t) /\ Block(t) = b)
         /\ \A t \in Threads : ~(WriteSome(t) /\ Block(t) = b)
         /\ \A w \in Workers : ~(ReadEvent(w) /\ FilledBlock(w) = b)
         /\ \A w \in Workers : ~(CompleteData(w) /\ FilledBlock(w) = b)
<1>0. b \in Blocks
  BY InHand, Apart DEF Types, ConnSteps
<1>1. \A w \in Workers : ~(CompleteData(w) /\ FilledBlock(w) = b)
  BY <1>0, NoCompletion
<1>2. CASE thread[Acceptor].at = "add"
  <2>1. \A w \in Workers : \A p \in Mine(w) : p.block # b
    BY <1>2 DEF OwnerInv, Fresh
  <2>2. \A w \in Workers : Block(w) # b
    BY <2>1 DEF Mine, Block
  <2>3. ~Settle(Acceptor) /\ ~WriteSome(Acceptor)
    BY <1>2 DEF Settle, WriteSome, Writes, At
  <2>4. \A w \in Workers : ~(ReadEvent(w) /\ FilledBlock(w) = b)
    BY <2>1, FilledMine DEF WorkerFills
  <2> QED
    BY <1>1, <2>2, <2>3, <2>4, Apart
<1>3. CASE thread[Acceptor].at = "welcome"
  <2>1. ~Settle(Acceptor) /\ ~WriteSome(Acceptor)
    BY <1>3 DEF Settle, WriteSome, Writes, At
  <2>2. ASSUME NEW t \in Threads, Settle(t), Block(t) = b
        PROVE  FALSE
    <3>1. thread[t].at = "settle" /\ t # Acceptor
      BY <2>1, <2>2 DEF Settle, At
    <3>2. Acceptor \in Threads \ {t} /\ Block(Acceptor) = Block(t)
      BY <2>2, <3>1, Apart
    <3> QED
      BY <1>3, <2>2, <3>1, <3>2 DEF WriteInv, Settling
  <2>3. ASSUME NEW t \in Threads, t # Acceptor
        PROVE  ~(WriteSome(t) /\ Block(t) = b) /\ ~(t \in Workers /\ ReadEvent(t) /\ FilledBlock(t) = b)
    BY <1>0, <1>3, <2>3, WritesAlone, Apart
  <2> QED
    BY <1>1, <2>1, <2>2, <2>3, Apart
<1> QED
  BY <1>2, <1>3

LEMMA UnwelcomedStep ==
  ASSUME Types, HeapInv, OwnerInv, ReadInv, WriteInv, [Next]_vars
  PROVE  Unwelcomed'
<1> SUFFICES ASSUME NEW b, b = thread'[Acceptor].ptr.block, NEW c, c = heap'[b].client,
                    thread'[Acceptor].at \in {"add", "welcome"}, Clear(b)'
             PROVE  heap'[b].pending = <<>> /\ sock'[c].out = <<>> /\ got'[c] = Nothing
  BY DEF Unwelcomed, Clear, Block, Conn
<1>1. CASE AcceptConnection /\ thread'[Acceptor].at = "add"
  <2>0. PICK d \in Blocks :
          /\ heap' = [heap EXCEPT ![d] = NewConnection(Head(backlog))]
          /\ \E l : /\ thread' = [thread EXCEPT ![Acceptor] = l]
                    /\ l.ptr = [block |-> d, client |-> Head(backlog)]
    BY <1>1, AcceptConnectionIs
  <2>1. PICK l : /\ thread' = [thread EXCEPT ![Acceptor] = l]
                 /\ l.ptr = [block |-> d, client |-> Head(backlog)]
    BY <2>0
  <2>2. b = d /\ heap'[b] = NewConnection(Head(backlog))
    BY <2>0, <2>1, Apart DEF Types, ThreadType, HeapType
  <2>3. c = Head(backlog) /\ heap'[b].pending = <<>>
    BY <2>2 DEF NewConnection
  <2> QED
    BY <1>1, <2>3, AcceptedNew DEF WriteInv
<1>2. CASE /\ thread[Acceptor].at \in {"add", "welcome"} /\ thread'[Acceptor].ptr = thread[Acceptor].ptr
  <2>0. b = Block(Acceptor) /\ b \in Blocks
    BY <1>2, InHand, Apart DEF Types, ConnSteps, Block
  <2>1. Clear(b) /\ heap'[b].client = heap[b].client /\ (AcceptConnection => heap'[b] = heap[b])
    BY <2>0, OwnSpot, ClearSpot, Apart
  <2>2. heap[b].pending = <<>> /\ sock[c].out = <<>> /\ got[c] = Nothing
    BY <1>2, <2>0, <2>1 DEF WriteInv, Unwelcomed, Conn
  <2>3. /\ \A t \in Threads : ~(Settle(t) /\ Block(t) = b)
        /\ \A t \in Threads : ~(WriteSome(t) /\ Block(t) = b)
        /\ \A w \in Workers : ~((ReadEvent(w) \/ CompleteData(w)) /\ FilledBlock(w) = b)
    BY <1>2, <2>0, <2>1, NotWelcomed
  <2>4. ~SendWelcome
    <3>1. SendWelcome => thread'[Acceptor].at = "write"
      BY Apart, GotoMoves DEF SendWelcome, Types
    <3> QED
      BY <3>1
  <2>5. heap'[b].pending = <<>>
    BY <2>0, <2>1, <2>2, <2>3, <2>4, BufferMoves
  <2>6. c \in Clients /\ c \notin mixed'
    <3>1. thread[Acceptor].ptr \in Pointers
      BY <1>2, InHand, Apart DEF Types, ConnSteps
    <3>2. c = thread[Acceptor].ptr.client
      BY <2>0, <2>1, <3>1, PointerParts DEF HeapInv, AcceptorOwns, Conn
    <3> QED
      BY <3>1, <3>2, PointerParts DEF Clear
  <2>7. ASSUME NEW t \in Threads, WriteSome(t), Conn(t).fd = c
        PROVE  FALSE
    <3>1. Block(t) \in Blocks /\ heap[Block(t)].client = c
      BY <2>6, <2>7, WriteSomeIs DEF HeapInv, Homed, Conn
    <3>2. Used(Block(t))
      BY <2>6, <3>1, Apart DEF Used
    <3>3. Block(t) = b
      BY <2>0, <2>1, <3>1, <3>2 DEF HeapInv, OneBlock
    <3> QED
      BY <2>3, <2>7, <3>3
  <2>8. ASSUME NEW t \in Threads, Submits(t), Conn(t).fd = c
        PROVE  sock'[c].out = sock[c].out
    BY <2>6, <2>8, AsyncWrites, ReadsStream DEF Submits
  <2>9. ASSUME NEW w \in Workers, ReadEvent(w), EventConn(w).fd = c
        PROVE  sock'[c].out = sock[c].out
    BY <2>6, <2>9, ReadsStream
  <2>10. CASE OnClient(c)
    BY <2>2, <2>5, <2>6, <2>10, ClientMoves
  <2>11. CASE Untouched(c)
    BY <2>2, <2>5, <2>11 DEF Untouched
  <2>12. CASE Shut(c)
    BY <2>5, <2>12 DEF Shut, NewSocket
  <2> QED
    BY <2>2, <2>5, <2>6, <2>7, <2>8, <2>9, <2>10, <2>11, <2>12, SockMoves
<1>3. Moved(Acceptor) /\ Acceptor \notin Workers
  BY ThreadMoves, Apart
<1>4. (AddConnection \/ AddFails) => thread[Acceptor].at = "add"
  BY DEF AddConnection, AddFails, At
<1> QED
  BY <1>1, <1>2, <1>3, <1>4 DEF Moved, Quiet

\* Who is about to count what it has written goes on to it, or counts it now.
LEMMA SettleLeaves ==
  ASSUME Types, [Next]_vars, NEW t \in Threads, thread[t].at = "settle", ~Settle(t)
  PROVE  thread'[t] = thread[t]
<1>1. ASSUME NEW u \in Threads, OnConnection(u)
      PROVE  u # t
  BY <1>1 DEF OnConnection, TryWrite, WriteNothing, WriteSome, Writes, WriteAgain, ClearWritable,
              WriteFails, SubmitAsyncWrite, SubmitAsyncRead, SubmitFails, BeginRemove,
              AlreadyRemoving, EndRemove, At
<1>2. ASSUME NEW w \in Workers, Worker(w) \/ WaitFails(w)
      PROVE  w # t
  <2>1. CASE OnConnection(w)
    BY <1>1, <2>1, Apart
  <2> QED
    BY <1>2, <2>1 DEF Worker, WaitFails, WaitForEvents, ExitEvent, HangupEvent, OutputEvent,
                      ReadEvent, ReadNothing, HasEvent, HandleOutput, EventsDone, CompleteData,
                      CompleteNothing, CompletePipe, CompletionsDone, At
<1>3. ASSUME AcceptThread \/ AcceptFails
      PROVE  Acceptor # t
  <2>1. CASE OnConnection(Acceptor)
    BY <1>1, <2>1, Apart
  <2> QED
    BY <1>3, <2>1 DEF AcceptThread, AcceptFails, Refuse, AcceptConnection, AddConnection, AddFails,
                      SendWelcome, AcceptorLeaves, At
<1>4. ASSUME NEW u \in Threads, CreateThread(u)
      PROVE  thread'[t] = thread[t]
  BY <1>4 DEF CreateThread, Created, Types, ThreadType
<1>5. CASE UNCHANGED thread
  BY <1>5
<1> QED
  BY <1>2, <1>3, <1>4, <1>5, WorkerMoves, AcceptorMoves
     DEF Next, Main, StartFails, JoinThreads, StopReturns, Stop, Signal, Client, Connect,
         ClientSend, ClientReceive, ClientFin, ClientReset, OnSocket, vars

\* While a thread is about to count what it has written, nobody else touches the
\* buffer of a clear connection.
LEMMA SettlesAlone ==
  ASSUME Types, HeapInv, OwnerInv, ReadInv, WriteInv, [Next]_vars, NEW t \in Threads, NEW b, b = Block(t),
         thread[t].at = "settle", ~Settle(t), Clear(b)'
  PROVE  /\ b \in Blocks /\ Clear(b) /\ heap'[b].client = heap[b].client
         /\ heap'[b].pending = heap[b].pending
         /\ \A u \in Threads : ~(WriteSome(u) /\ Block(u) = b)
         /\ \A u \in Threads \ {t} : thread'[u].at \in {"settle", "welcome"} => thread'[u].ptr.block # b
<1>1. b \in Blocks
  BY InHand DEF Types, ConnSteps
<1>2. Clear(b) /\ heap'[b].client = heap[b].client /\ (AcceptConnection => heap'[b] = heap[b])
  BY <1>1, OwnSpot, ClearSpot
<1>3. \A u \in Threads \ {t} : thread[u].at \in {"settle", "welcome"} => Block(u) # b
  BY <1>2 DEF WriteInv, Settling
<1>4. \A u \in Threads : ~(WriteSome(u) /\ Block(u) = b)
  <2>1. ~WriteSome(t)
    BY DEF WriteSome, Writes, At
  <2> QED
    BY <1>1, <1>2, <2>1, WritesAlone
<1>5. \A w \in Workers : ~((ReadEvent(w) \/ CompleteData(w)) /\ FilledBlock(w) = b)
  <2>1. ASSUME NEW w \in Workers, ReadEvent(w)
        PROVE  FilledBlock(w) # b
    <3>1. w # t /\ w \in Threads
      BY <2>1, Apart DEF ReadEvent, HasEvent, At
    <3> QED
      BY <1>1, <1>2, <2>1, <3>1, WritesAlone
  <2> QED
    BY <1>1, <1>2, <2>1, NoCompletion
<1>6. ~(SendWelcome /\ Block(Acceptor) = b)
  <2> SUFFICES ASSUME SendWelcome, Block(Acceptor) = b
               PROVE  FALSE
    OBVIOUS
  <2>1. thread[Acceptor].at = "welcome" /\ Acceptor \in Threads \ {t}
    BY Apart DEF SendWelcome, At
  <2> QED
    BY <1>3, <2>1
<1>7. \A u \in Threads : Settle(u) => Block(u) # b
  BY <1>3 DEF Settle, At
<1>8. heap'[b].pending = heap[b].pending
  BY <1>1, <1>2, <1>5, <1>6, <1>7, BufferMoves
<1>9. ASSUME NEW u \in Threads \ {t}, thread'[u].at \in {"settle", "welcome"}, thread'[u].ptr.block = b
      PROVE  FALSE
  <2>1. CASE thread'[u] = thread[u]
    BY <1>3, <1>9, <2>1 DEF Block
  <2>2. CASE WriteSome(u) /\ thread'[u].ptr = thread[u].ptr
    BY <1>4, <1>9, <2>2 DEF Block
  <2>3. CASE u = Acceptor /\ (AddConnection \/ AddFails) /\ thread'[u].ptr = thread[u].ptr
    <3>1. thread[Acceptor].at = "add" /\ Block(Acceptor) = b
      BY <1>9, <2>3 DEF AddConnection, AddFails, At, Block
    <3>2. t \in Workers
      BY <2>3, Apart
    <3>3. thread[t].ptr \in Mine(t)
      BY DEF Mine
    <3> QED
      BY <1>2, <3>1, <3>2, <3>3 DEF OwnerInv, Fresh, Block
  <2> QED
    BY <1>9, <2>1, <2>2, <2>3, ThreadMoves DEF Moved, Quiet
<1> QED
  BY <1>1, <1>2, <1>4, <1>8, <1>9

LEMMA SettlingStep ==
  ASSUME Types, HeapInv, OwnerInv, ReadInv, WriteInv, [Next]_vars, HeapInv'
  PROVE  Settling'
<1> SUFFICES ASSUME NEW t \in Threads, NEW b, b = thread'[t].ptr.block,
                    thread'[t].at = "settle", Clear(b)'
             PROVE  /\ thread'[t].n <= Len(heap'[b].pending)
                    /\ \A u \in Threads \ {t} :
                         thread'[u].at \in {"settle", "welcome"} => thread'[u].ptr.block # b
                    /\ heap'[b].fd \in Clients =>
                         LET c == heap'[b].fd IN
                           InOrder(c, got'[c], sock'[c].out, Drop(heap'[b].pending, thread'[t].n),
                                   sock'[c].rx, sent'[c])
  BY DEF Settling, Clear, Block, Conn, Flow
<1>1. CASE thread'[t] = thread[t]
  <2>1. b = Block(t) /\ thread[t].at = "settle"
    BY <1>1 DEF Block
  <2>2. ~Settle(t)
    <3> SUFFICES ASSUME Settle(t)
                 PROVE  FALSE
      OBVIOUS
    <3>1. thread'[t].at \in Quiet
      BY FinishedMoves DEF Settle, Types
    <3> QED
      BY <3>1 DEF Quiet
  <2>3. /\ b \in Blocks /\ Clear(b) /\ heap'[b].client = heap[b].client
        /\ heap'[b].pending = heap[b].pending
        /\ \A u \in Threads : ~(WriteSome(u) /\ Block(u) = b)
        /\ \A u \in Threads \ {t} : thread'[u].at \in {"settle", "welcome"} => thread'[u].ptr.block # b
    BY <2>1, <2>2, SettlesAlone
  <2>4. thread[t].n <= Len(heap[b].pending)
    BY <2>1, <2>3 DEF WriteInv, Settling, Conn
  <2>5. ASSUME NEW c \in Clients, heap'[b].fd = c
        PROVE  InOrder(c, got'[c], sock'[c].out, Drop(heap'[b].pending, thread'[t].n),
                       sock'[c].rx, sent'[c])
    <3>1. heap[b].fd = c /\ heap[b].client = c /\ c \notin closed' \cup cut'
      BY <2>3, <2>5, DescriptorKept
    <3>2. Drop(heap[b].pending, thread[t].n) \in Seq(Unit)
      <4>1. heap[b].pending \in Seq(Unit)
        BY <2>3 DEF Types, HeapType, Connection
      <4>2. thread[t].n \in Nat
        BY Sizes DEF Types, ThreadType, Place
      <4> QED
        BY <4>1, <4>2, DropIs
    <3>3. PICK u \in Seq(Unit) : u = Drop(heap[b].pending, thread[t].n)
      BY <3>2
    <3>4. Flow(c, u)
      BY <2>1, <2>3, <3>1, <3>3 DEF WriteInv, Settling, Conn
    <3>5. c \notin mixed'
      BY <2>3, <3>1 DEF Clear
    <3>6. ASSUME NEW v \in Threads, WriteSome(v), Conn(v).fd = c
          PROVE  FALSE
      <4>1. Block(v) \in Blocks
        BY <3>6, WriteSomeIs
      <4>2. Block(v) = b
        BY <2>3, <3>1, <3>6, <4>1, SameBlock DEF Conn
      <4> QED
        BY <2>3, <3>6, <4>2
    <3>7. InOrder(c, got'[c], sock'[c].out, u, sock'[c].rx, sent'[c])
      BY <3>1, <3>4, <3>5, <3>6, FlowKept
    <3> QED
      BY <1>1, <2>3, <3>3, <3>7
  <2> QED
    BY <1>1, <2>3, <2>4, <2>5
<1>2. CASE WriteSome(t) /\ thread'[t].ptr = thread[t].ptr
  <2>1. b = Block(t)
    BY <1>2 DEF Block
  <2>0. /\ b \in Blocks /\ Conn(t).fd \in Clients /\ Conn(t).fd = heap[b].client
        /\ heap'[b] = heap[b]
        /\ \A u \in Threads : ~Settles(u, b)
        /\ Flow(Conn(t).fd, Conn(t).pending)
    BY <1>2, <2>1, WritesPending DEF WriteInv
  <2>2. PICK c \in Clients : /\ c = Conn(t).fd /\ b \in Blocks /\ c = heap[b].client
                             /\ heap'[b] = heap[b]
                             /\ Flow(c, Conn(t).pending)
    BY <2>0
  <2>3. PICK p \in Seq(Unit) : p = heap[b].pending /\ p = Conn(t).pending /\ Flow(c, p)
    BY <2>1, <2>2 DEF Conn, Types, HeapType, Connection
  <2>4. PICK n \in 0 .. Len(p) :
          /\ thread'[t].n = n
          /\ \A u \in Threads : u # t => thread'[u] = thread[u]
          /\ InOrder(c, got'[c], sock'[c].out, Drop(p, n), sock'[c].rx, sent'[c])
    BY <1>2, <2>2, <2>3, FlowWritten
  <2>5. n <= Len(p)
    BY <2>3, <2>4, LenProperties
  <2>6. ASSUME NEW u \in Threads \ {t}, thread'[u].at \in {"settle", "welcome"}, thread'[u].ptr.block = b
        PROVE  FALSE
    <3>1. thread[u].at \in {"settle", "welcome"} /\ Block(u) = b /\ u # t /\ u \in Threads
      BY <2>4, <2>6 DEF Block
    <3>2. heap'[b].client = heap[b].client
      BY <2>2
    <3> QED
      BY <1>2, <2>1, <2>2, <3>1, <3>2, WritesAlone
  <2>7. heap'[b].fd = c /\ heap'[b].pending = p
    BY <2>1, <2>2, <2>3 DEF Conn
  <2> QED
    BY <2>4, <2>5, <2>6, <2>7
<1> QED
  BY <1>1, <1>2, ThreadMoves DEF Moved, Quiet

\* A new connection has nothing pending, and the welcome is its first unit.
LEMMA WelcomeFirst ==
  ASSUME Types, Unread, NEW c \in Clients, sock[c].out = <<>>, got[c] = Nothing
  PROVE  Flow(c, <<>>) /\ Flow(c, <<Welcome(c)>>)
<1>1. PICK n \in Nat, rx \in Seq(Unit) : n = sent[c] /\ rx = sock[c].rx
  BY StreamType
<1>2. InOrder(c, Welcome(c), <<>>, <<>>, rx, n)
  BY <1>1 DEF Unread
<1>3. InOrder(c, Nothing, <<>>, <<Welcome(c)>>, rx, n) /\ InOrder(c, Nothing, <<>>, <<>>, rx, n)
  BY <1>2, OrderWelcome
<1> QED
  BY <1>1, <1>3 DEF Flow

LEMMA PendingStep ==
  ASSUME Types, HeapInv, OwnerInv, ReadInv, WriteInv, Unread, [Next]_vars, HeapInv'
  PROVE  Pending'
<1> SUFFICES ASSUME NEW b \in Blocks, Clear(b)', NEW c \in Clients, heap'[b].fd = c,
                    \A t \in Threads : ~(thread'[t].at = "settle" /\ thread'[t].ptr.block = b)
             PROVE  InOrder(c, got'[c], sock'[c].out, heap'[b].pending, sock'[c].rx, sent'[c])
  BY DEF Pending, Clear, Settles, Block, Flow
<1>1. CASE AcceptConnection /\ heap'[b] = NewConnection(Head(backlog))
  <2>1. c = Head(backlog) /\ heap'[b].pending = <<>>
    BY <1>1 DEF NewConnection
  <2>2. sock[c].out = <<>> /\ got[c] = Nothing /\ UNCHANGED <<sock, got, sent>>
    BY <1>1, <2>1, AcceptedNew DEF WriteInv
  <2>3. Flow(c, <<>>)
    BY <2>2, WelcomeFirst
  <2> QED
    BY <2>1, <2>2, <2>3 DEF Flow
<1>2. CASE ~(AcceptConnection /\ heap'[b] = NewConnection(Head(backlog)))
  <2>1. heap'[b].client = heap[b].client
    <3>1. CASE AcceptConnection
      <4>1. PICK d \in Blocks : heap' = [heap EXCEPT ![d] = NewConnection(Head(backlog))]
        BY <3>1, AcceptConnectionIs
      <4> QED
        BY <1>2, <3>1, <4>1 DEF Types, HeapType
    <3> QED
      BY <3>1, ClientsKept
  <2>2. Clear(b)
    BY <2>1, MixedGrows DEF Clear
  <2>3. heap[b].fd = c /\ heap[b].client = c /\ c \notin closed' \cup cut' /\ c \notin mixed'
    BY <2>1, DescriptorKept DEF Clear
  <2>4. heap[b].pending \in Seq(Unit)
    BY DEF Types, HeapType, Connection
  <2>5. ASSUME NEW t \in Threads, Settles(t, b)
        PROVE  InOrder(c, got'[c], sock'[c].out, heap'[b].pending, sock'[c].rx, sent'[c])
    <3>1. Settle(t)
      BY <2>5, SettleLeaves DEF Settles, Block
    <3>2. Flow(c, Drop(heap[b].pending, thread[t].n))
      BY <2>2, <2>3, <2>5 DEF WriteInv, Settling, Settles, Conn
    <3>3. PICK conn : heap' = [heap EXCEPT ![b] = conn] /\ conn.pending = Drop(heap[b].pending, thread[t].n)
      BY <2>5, <3>1, SettleIs DEF Settles, Conn
    <3>4. heap'[b] = conn
      BY <3>3 DEF Types, HeapType
    <3>5. UNCHANGED <<sock, got, sent>>
      BY <3>1 DEF Settle, otherVars, socketVars, clientVars
    <3> QED
      BY <3>2, <3>3, <3>4, <3>5 DEF Flow
  <2>6. ASSUME \A t \in Threads : ~Settles(t, b)
        PROVE  InOrder(c, got'[c], sock'[c].out, heap'[b].pending, sock'[c].rx, sent'[c])
    <3>1. Flow(c, heap[b].pending)
      BY <2>2, <2>3, <2>6 DEF WriteInv, Pending
    <3>2. CASE heap'[b].pending = heap[b].pending
      <4>1. ASSUME NEW t \in Threads, WriteSome(t), Conn(t).fd = c
            PROVE  FALSE
        <5>1. Block(t) \in Blocks
          BY <4>1, WriteSomeIs
        <5>2. Block(t) = b
          BY <2>3, <4>1, <5>1, SameBlock DEF Conn
        <5>3. thread'[t].at = "settle" /\ thread'[t].ptr = thread[t].ptr
          BY <2>3, <3>1, <4>1, <5>2, FlowWritten DEF Conn
        <5> QED
          BY <5>2, <5>3 DEF Block
      <4>2. InOrder(c, got'[c], sock'[c].out, heap[b].pending, sock'[c].rx, sent'[c])
        BY <2>3, <2>4, <3>1, <4>1, FlowKept
      <4> QED
        BY <3>2, <4>2
    <3>3. ASSUME NEW w \in Workers, ReadEvent(w) \/ CompleteData(w), FilledBlock(w) = b
          PROVE  InOrder(c, got'[c], sock'[c].out, heap'[b].pending, sock'[c].rx, sent'[c])
      BY <2>2, <2>3, <3>1, <3>3, FlowRead, NoCompletion
    <3>4. ASSUME SendWelcome, Block(Acceptor) = b,
                 heap'[b].pending = <<Welcome(thread[Acceptor].ptr.client)>>
          PROVE  InOrder(c, got'[c], sock'[c].out, heap'[b].pending, sock'[c].rx, sent'[c])
      <4>1. thread[Acceptor].at = "welcome"
        BY <3>4 DEF SendWelcome, At
      <4>2. thread[Acceptor].ptr \in Pointers
        BY <4>1, InHand, Apart DEF Types, ConnSteps
      <4>3. thread[Acceptor].ptr.client = c
        BY <2>3, <3>4, <4>2, PointerParts DEF HeapInv, AcceptorOwns, Conn
      <4>4. sock[c].out = <<>> /\ got[c] = Nothing
        BY <2>2, <2>3, <3>4, <4>1 DEF WriteInv, Unwelcomed, Conn
      <4>5. Flow(c, <<Welcome(c)>>)
        BY <4>4, WelcomeFirst
      <4>6. UNCHANGED <<sock, got, sent>>
        BY <3>4 DEF SendWelcome, otherVars, socketVars, clientVars
      <4> QED
        BY <3>4, <4>3, <4>5, <4>6 DEF Flow
    <3>5. ASSUME NEW t \in Threads, Settle(t), Block(t) = b
          PROVE  FALSE
      BY <2>6, <3>5 DEF Settle, At, Settles
    <3> QED
      BY <1>2, <3>2, <3>3, <3>4, <3>5, BufferMoves
  <2> QED
    BY <2>5, <2>6
<1> QED
  BY <1>1, <1>2

LEMMA WriteInvStep ==
  ASSUME Types, HeapInv, OwnerInv, ReadInv, WriteInv, Unread, [Next]_vars, Up', HeapInv'
  PROVE  WriteInv'
BY UnservedStep, UnwelcomedStep, SettlingStep, PendingStep DEF WriteInv

-----------------------------------------------------------------------------
(***************************************************************************)
(* The order of the echoes                                                 *)
(***************************************************************************)

EchoInv == Unwrapped /\ Received /\ Unread /\ (Up => ReadInv /\ WriteInv)

LEMMA EchoInit == Init => EchoInv
BY ReadInit, WriteInit DEF EchoInv

LEMMA EchoStep == SafeInv /\ OwnedInv /\ EchoInv /\ [Next]_vars => EchoInv'
<1> SUFFICES ASSUME SafeInv, OwnedInv, EchoInv, [Next]_vars
             PROVE  EchoInv'
  OBVIOUS
<1>1. CASE ~Up
  <2>1. UNCHANGED vars
    BY <1>1, Ended
  <2>2. UNCHANGED <<main, heap, mixed, got, sock, sent>>
    BY <2>1 DEF vars, restVars, otherVars, mainVars, clientVars, connVars, socketVars,
                historyVars
  <2> QED
    BY <1>1, <2>2 DEF EchoInv, Up, Unwrapped, Clear, Received, Unread
<1>2. CASE Up
  <2>1. Types /\ HeapInv /\ WatchInv /\ OwnerInv /\ ReadInv /\ WriteInv
    BY <1>2 DEF SafeInv, OwnedInv, EchoInv
  <2>2. Unwrapped' /\ Received' /\ Unread'
    BY <2>1, UnwrappedStep, ReceivedStep, UnreadStep DEF EchoInv, WriteInv
  <2>3. ASSUME Up'
        PROVE  ReadInv' /\ WriteInv'
    <3>1. HeapInv' /\ Types'
      BY <2>1, <2>3, HeapInvStep, TypesStep
    <3>2. ReadInv'
      BY <2>1, <3>1, ReadInvStep
    <3>3. WriteInv'
      BY <2>1, <2>3, <3>1, WriteInvStep DEF EchoInv
    <3> QED
      BY <3>2, <3>3
  <2> QED
    BY <2>2, <2>3 DEF EchoInv
<1> QED
  BY <1>1, <1>2

\* What a client has received, with what is on its way, is its own and rises.
LEMMA ReceivedRises ==
  ASSUME Types, Received, NEW c \in Clients \ mixed, NEW r, r = <<got[c]>> \o sock[c].out
  PROVE  /\ \A i \in DOMAIN r : r[i] = Nothing \/ r[i][1] = c
         /\ \A i \in 1 .. Len(r) - 1 : r[i][2] < r[i + 1][2]
<1>1. PICK g \in Unit \cup {Nothing}, out \in Seq(Unit) : g = got[c] /\ out = sock[c].out
  BY StreamType
<1>2. Stretch(out, c, sent[c]) /\ Precedes(<<g>>, out) /\ (g = Nothing \/ g[1] = c)
  BY <1>1 DEF Received, InOrder
<1>3. PICK m \in Nat : m = Len(out) /\ DOMAIN out = 1 .. m
  BY <1>1, LenProperties
<1>4. /\ Len(r) = m + 1 /\ r[1] = g /\ DOMAIN r = 1 .. m + 1
      /\ \A i \in 1 .. m : r[i + 1] = out[i]
  BY <1>1, <1>3
<1>7. ASSUME NEW i \in 1 .. m + 1
      PROVE  r[i] = Nothing \/ r[i][1] = c
  <2>1. CASE i = 1
    BY <1>2, <1>4, <2>1
  <2>2. CASE i # 1
    <3>1. PICK j \in 1 .. m : i = j + 1
      <4>1. i - 1 \in 1 .. m /\ i = (i - 1) + 1
        BY <2>2
      <4> QED
        BY <4>1
    <3>2. out[j] \in Range(out) /\ r[i] = out[j]
      BY <1>3, <1>4, <3>1 DEF Range
    <3> QED
      BY <1>2, <3>2 DEF Stretch
  <2> QED
    BY <2>1, <2>2
<1> SUFFICES ASSUME NEW i \in 1 .. m
             PROVE  r[i][2] < r[i + 1][2]
  BY <1>3, <1>4, <1>7
<1>5. CASE i = 1
  <2>1. out[1] \in Range(out)
    BY <1>3, <1>5 DEF Range
  <2>2. g[2] < out[1][2]
    BY <1>2, <2>1, RangeOne DEF Precedes
  <2> QED
    BY <1>4, <1>5, <2>2
<1>6. CASE i # 1
  <2>1. i - 1 \in 1 .. m /\ i - 1 < i /\ (i - 1) + 1 = i
    BY <1>6
  <2>2. out[i - 1][2] < out[i][2]
    BY <1>2, <1>3, <2>1 DEF Stretch
  <2>3. r[i] = out[i - 1] /\ r[i + 1] = out[i]
    BY <1>4, <2>1
  <2> QED
    BY <2>2, <2>3
<1> QED
  BY <1>5, <1>6

LEMMA EchoImpliesEchoInOrder == Types /\ EchoInv => EchoInOrder
<1> SUFFICES ASSUME Types, EchoInv
             PROVE  EchoInOrder
  OBVIOUS
<1>1. \A c \in Clients \ mixed :
        LET r == <<got[c]>> \o sock[c].out IN
          /\ \A i \in DOMAIN r : r[i] = Nothing \/ r[i][1] = c
          /\ \A i \in 1 .. Len(r) - 1 : r[i][2] < r[i + 1][2]
  BY ReceivedRises DEF EchoInv
<1>2. \A b \in allocated : heap[b].wrapped => heap[b].client \in mixed
  BY DEF EchoInv, Unwrapped, Clear, Types, HeapType
<1> QED
  BY <1>1, <1>2 DEF EchoInOrder

\* For every number of clients, threads and blocks and all sizes: a client that was
\* never mixed up (see Mix) gets its own welcome and the echoes of its own bytes and
\* nothing of another client, in order and none twice, and the write_pending of its
\* connection never falls below 0 (hybrid_proactor.c:551-603).
THEOREM EchoOrdered == Spec => []EchoInOrder
<1>1. Init => SafeInv /\ OwnedInv /\ EchoInv
  BY SafeInit, OwnedInit, EchoInit
<1>2. SafeInv /\ OwnedInv /\ EchoInv /\ [Next]_vars => (SafeInv /\ OwnedInv /\ EchoInv)'
  BY SafeStep, OwnedStep, EchoStep
<1>3. SafeInv /\ OwnedInv /\ EchoInv => EchoInOrder
  BY EchoImpliesEchoInOrder DEF SafeInv
<1> QED
  BY <1>1, <1>2, <1>3, PTL DEF Spec

\* An input event of a connection that was never mixed up finds its bytes, however
\* long it had to wait behind others: the connection gets no asynchronous read, and
\* no completion carries data for it (hybrid_proactor.c:536-542, 650-656).
THEOREM InputAtHand == Spec => [](Up => ReadInv)
<1>1. Init => SafeInv /\ OwnedInv /\ EchoInv
  BY SafeInit, OwnedInit, EchoInit
<1>2. SafeInv /\ OwnedInv /\ EchoInv /\ [Next]_vars => (SafeInv /\ OwnedInv /\ EchoInv)'
  BY SafeStep, OwnedStep, EchoStep
<1>3. EchoInv => (Up => ReadInv)
  BY DEF EchoInv
<1> QED
  BY <1>1, <1>2, <1>3, PTL DEF Spec

=============================================================================
