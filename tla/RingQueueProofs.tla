-------------------------- MODULE RingQueueProofs --------------------------
(***************************************************************************)
(* Proofs about RingQueue for every number of producers, consumers and     *)
(* observers, every Size, Modulus, Start and Batch.                        *)
(*                                                                         *)
(* The queue tests for room and for emptiness with a head and a tail that  *)
(* were read at different moments.  The argument is that such a test may   *)
(* be wrong only for a call whose compare-and-swap then fails: IndInv says *)
(* what a call knows at each of its steps, relative to the counters as     *)
(* they are now.                                                           *)
(***************************************************************************)
EXTENDS RingQueue, TLAPS

-----------------------------------------------------------------------------
(***************************************************************************)
(* The inductive invariant                                                 *)
(***************************************************************************)

CounterInv ==
  /\ Ticket(head) <= Ticket(tail)
  /\ Ticket(tail) <= Ticket(head) + Size
  /\ Ticket(tail) <= MaxItems

\* The tail a push has loaded is not ahead of tail; once it has passed the full
\* test, either tail has moved (and its swap fails) or there is room for it;
\* while it copies, its tickets are given out.
PushInv(p) ==
  /\ pc[p] \in {"push_head", "push_cas"} => Ticket(reg[p].pos) <= Ticket(tail)
  /\ pc[p] = "push_cas" =>
       /\ reg[p].n >= 1
       /\ tail = reg[p].pos => Ticket(tail) + reg[p].n <= Ticket(head) + Size
  /\ pc[p] = "push_copy" =>
       /\ Ticket(reg[p].pos) + reg[p].n <= Ticket(tail)
       /\ reg[p].todo \subseteq 0 .. reg[p].n - 1
  /\ pc[p] # "push_copy" => reg[p].todo = {}

\* The head a pop has loaded is not ahead of head; once it has passed the empty
\* test, the tickets it is about to take are given out; while it copies, they
\* are taken.
PopInv(c) ==
  /\ pc[c] \in {"pop_tail", "pop_read", "pop_cas"} =>
       Ticket(reg[c].pos) <= Ticket(head)
  /\ pc[c] \in {"pop_read", "pop_cas"} =>
       /\ reg[c].n >= 1
       /\ Ticket(reg[c].pos) + reg[c].n <= Ticket(tail)
  /\ pc[c] = "pop_copy" =>
       /\ Ticket(reg[c].pos) + reg[c].n <= Ticket(head)
       /\ reg[c].todo \subseteq 0 .. reg[c].n - 1
  /\ pc[c] # "pop_copy" => reg[c].todo = {}

\* The tickets of two calls that copy at the same time do not overlap.
Apart(t, u) ==
  \/ Ticket(reg[t].pos) + reg[t].n <= Ticket(reg[u].pos)
  \/ Ticket(reg[u].pos) + reg[u].n <= Ticket(reg[t].pos)

PushApart ==
  \A p, q \in Producers :
    p # q /\ pc[p] = "push_copy" /\ pc[q] = "push_copy" => Apart(p, q)

PopApart ==
  \A c, d \in Consumers :
    c # d /\ pc[c] = "pop_copy" /\ pc[d] = "pop_copy" => Apart(c, d)

IndInv ==
  /\ TypeOK
  /\ CounterInv
  /\ \A p \in Producers : PushInv(p)
  /\ \A c \in Consumers : PopInv(c)
  /\ PushApart
  /\ PopApart

-----------------------------------------------------------------------------
(***************************************************************************)
(* Arithmetic of the wrapping counters                                     *)
(***************************************************************************)

\* The difference of two counters is a counter.
LEMMA USubType ==
  ASSUME NEW x \in Index, NEW y \in Index
  PROVE  USub(x, y) \in Index
BY SizeAssumption DEF USub, Index

\* A counter advanced by at most a batch is a counter.
LEMMA UAddType ==
  ASSUME NEW x \in Index, NEW n \in 0 .. Batch
  PROVE  UAdd(x, n) \in Index
BY SizeAssumption DEF UAdd, Index

\* A counter's ticket is below Modulus.
LEMMA TicketType ==
  ASSUME NEW x \in Index
  PROVE  Ticket(x) \in Index
BY SizeAssumption, USubType DEF Ticket, Index

\* Counters with the same ticket are equal: comparing them with the swap of a
\* push or a pop compares tickets.
LEMMA TicketInjective ==
  ASSUME NEW x \in Index, NEW y \in Index, Ticket(x) = Ticket(y)
  PROVE  x = y
BY SizeAssumption DEF Ticket, USub, Index

\* Advancing a counter by n gives out n tickets, wrap or no wrap.
LEMMA TicketAdd ==
  ASSUME NEW x \in Index, NEW n \in 0 .. Batch, Ticket(x) + n < Modulus
  PROVE  Ticket(UAdd(x, n)) = Ticket(x) + n
BY SizeAssumption DEF Ticket, USub, UAdd, Index

\* The unsigned difference of two counters is their distance in tickets, if
\* the first is not behind the second.
LEMMA Distance ==
  ASSUME NEW x \in Index, NEW y \in Index, Ticket(y) <= Ticket(x)
  PROVE  USub(x, y) = Ticket(x) - Ticket(y)
BY SizeAssumption DEF Ticket, USub, Index

\* A counter's slot exists.
LEMMA SlotType ==
  ASSUME NEW x \in Index
  PROVE  Slot(x) \in 0 .. Size - 1
BY SizeAssumption DEF Slot, Index

-----------------------------------------------------------------------------
(***************************************************************************)
(* Type correctness: one lemma per group of actions                        *)
(***************************************************************************)

\* A call begins with well-typed locals.
LEMMA CallType ==
  ASSUME NEW op \in {"none", "push", "push_batch", "pop", "pop_batch", "probe"},
         NEW n \in 0 .. Batch, NEW pos \in Index
  PROVE  /\ Call(op, n, pos) \in Locals
         /\ Call(op, n, pos).op = op
         /\ Call(op, n, pos).n = n
         /\ Call(op, n, pos).pos = pos
         /\ Call(op, n, pos).todo = {}
BY SizeAssumption DEF Call, Locals

\* The step of a call changes the locals and the program counter of its own
\* thread only.
LEMMA TypeStep ==
  ASSUME TypeOK, NEW t \in Threads,
         NEW where \in ProducerPCs \cup ConsumerPCs \cup ObserverPCs,
         t \in Producers => where \in ProducerPCs,
         t \in Consumers => where \in ConsumerPCs,
         t \in Observers => where \in ObserverPCs,
         Goto(t, where)
  PROVE  /\ pc' \in [Threads -> ProducerPCs \cup ConsumerPCs \cup ObserverPCs]
         /\ \A p \in Producers : pc'[p] \in ProducerPCs
         /\ \A c \in Consumers : pc'[c] \in ConsumerPCs
         /\ \A o \in Observers : pc'[o] \in ObserverPCs
         /\ pc'[t] = where
         /\ \A u \in Threads \ {t} : pc'[u] = pc[u]
BY DEF TypeOK, Goto, Threads

\* The same of a call that returns.
LEMMA ReturnStep ==
  ASSUME TypeOK, NEW t \in Threads, Return(t)
  PROVE  /\ pc' \in [Threads -> ProducerPCs \cup ConsumerPCs \cup ObserverPCs]
         /\ \A p \in Producers : pc'[p] \in ProducerPCs
         /\ \A c \in Consumers : pc'[c] \in ConsumerPCs
         /\ \A o \in Observers : pc'[o] \in ObserverPCs
         /\ pc'[t] = "idle"
         /\ reg' \in [Threads -> Locals]
         /\ reg'[t] = NoCall
         /\ \A u \in Threads \ {t} : pc'[u] = pc[u] /\ reg'[u] = reg[u]
<1>1. Goto(t, "idle")
  BY DEF Return, Goto
<1>2. NoCall \in Locals
  BY SizeAssumption DEF NoCall, Call, Locals, Index
<1>3. reg' \in [Threads -> Locals] /\ reg'[t] = NoCall
      /\ \A u \in Threads \ {t} : reg'[u] = reg[u]
  BY <1>2 DEF Return, TypeOK
<1>4. QED
  BY <1>1, <1>3, TypeStep DEF ProducerPCs, ConsumerPCs, ObserverPCs

-----------------------------------------------------------------------------
(***************************************************************************)
(* Steps that leave head and tail alone and start no copy                  *)
(***************************************************************************)

\* A step of one thread that moves neither counter preserves the invariant if
\* it preserves the type and what its own call knows, and does not begin to
\* copy.
LEMMA LocalStep ==
  ASSUME IndInv, TypeOK', NEW t \in Threads,
         UNCHANGED <<head, tail>>,
         \A u \in Threads \ {t} : pc'[u] = pc[u] /\ reg'[u] = reg[u],
         t \in Producers => PushInv(t)',
         t \in Consumers => PopInv(t)',
         pc'[t] \in {"push_copy", "pop_copy"} =>
           /\ pc'[t] = pc[t]
           /\ reg'[t].pos = reg[t].pos
           /\ reg'[t].n = reg[t].n
  PROVE  IndInv'
<1>1. CounterInv'
  BY DEF IndInv, CounterInv, Ticket
<1>2. ASSUME NEW p \in Producers PROVE PushInv(p)'
  <2>1. CASE p = t
    BY <2>1
  <2>2. CASE p # t
    BY <2>2 DEF IndInv, PushInv, Threads, Ticket
  <2>3. QED
    BY <2>1, <2>2
<1>3. ASSUME NEW c \in Consumers PROVE PopInv(c)'
  <2>1. CASE c = t
    BY <2>1
  <2>2. CASE c # t
    BY <2>2 DEF IndInv, PopInv, Threads, Ticket
  <2>3. QED
    BY <2>1, <2>2
<1>4. ASSUME NEW u \in Threads, pc'[u] \in {"push_copy", "pop_copy"}
      PROVE  /\ pc'[u] = pc[u]
             /\ reg'[u].pos = reg[u].pos
             /\ reg'[u].n = reg[u].n
  BY <1>4
<1>5. PushApart'
  BY <1>4 DEF IndInv, PushApart, Apart, Threads, Ticket
<1>6. PopApart'
  BY <1>4 DEF IndInv, PopApart, Apart, Threads, Ticket
<1>7. QED
  BY <1>1, <1>2, <1>3, <1>5, <1>6 DEF IndInv

-----------------------------------------------------------------------------
(***************************************************************************)
(* Each action preserves the invariant                                     *)
(***************************************************************************)

\* An idle queue satisfies it.
LEMMA InitIndInv == Init => IndInv
<1> SUFFICES ASSUME Init PROVE IndInv
  OBVIOUS
<1>1. Ticket(Start) = 0
  BY SizeAssumption DEF Ticket, USub
<1>2. NoCall \in Locals /\ NoCall.todo = {}
  BY SizeAssumption DEF NoCall, Call, Locals, Index
<1>3. TypeOK
  BY <1>2, SizeAssumption
  DEF Init, TypeOK, Index, Threads, ProducerPCs, ConsumerPCs, ObserverPCs, NotYet
<1>4. CounterInv
  BY <1>1, SizeAssumption DEF Init, CounterInv
<1>5. \A p \in Producers : PushInv(p)
  BY <1>2 DEF Init, PushInv, Threads
<1>6. \A c \in Consumers : PopInv(c)
  BY <1>2 DEF Init, PopInv, Threads
<1>7. PushApart /\ PopApart
  BY DEF Init, PushApart, PopApart, Threads
<1>8. QED
  BY <1>3, <1>4, <1>5, <1>6, <1>7 DEF IndInv

\* A call that returns keeps the invariant, whatever statistics it updates.
LEMMA ReturnKeeps ==
  ASSUME IndInv, NEW t \in Threads, Return(t),
         UNCHANGED <<head, tail, buffer, popped>>,
         push_count' \in Nat, pop_count' \in Nat,
         push_fail_count' \in 0 .. MaxFails
  PROVE  IndInv'
<1>1. TypeOK'
  BY ReturnStep DEF IndInv, TypeOK
<1>2. PushInv(t)' /\ PopInv(t)'
  BY ReturnStep DEF IndInv, PushInv, PopInv, NoCall, Call
<1>3. QED
  BY <1>1, <1>2, LocalStep, ReturnStep DEF IndInv

LEMMA PushCallKeeps ==
  ASSUME IndInv, NEW p \in Producers, PushCall(p)
  PROVE  IndInv'
<1>1. PICK op \in PushOps, count \in 1 .. Batch :
        reg' = [reg EXCEPT ![p] = Call(op, count, tail)]
  BY DEF PushCall
<1>2. /\ reg' \in [Threads -> Locals]
      /\ reg'[p].pos = tail
      /\ reg'[p].todo = {}
      /\ \A u \in Threads \ {p} : reg'[u] = reg[u]
  BY <1>1, CallType, OpAssumption DEF IndInv, TypeOK, Threads
<1>3. pc'[p] = "push_head" /\ \A u \in Threads \ {p} : pc'[u] = pc[u]
  BY TypeStep, ThreadAssumption DEF IndInv, PushCall, Threads, ProducerPCs
<1>4. TypeOK'
  BY <1>2, TypeStep, ThreadAssumption
  DEF IndInv, TypeOK, PushCall, Threads, ProducerPCs
<1>5. PushInv(p)'
  BY <1>2, <1>3, TicketType DEF IndInv, TypeOK, PushInv, PushCall, Index
<1>6. QED
  BY <1>2, <1>3, <1>4, <1>5, LocalStep, ThreadAssumption DEF PushCall, Threads

LEMMA PushReloadTailKeeps ==
  ASSUME IndInv, NEW p \in Producers, PushReloadTail(p)
  PROVE  IndInv'
<1>2. /\ reg' \in [Threads -> Locals]
      /\ reg'[p].pos = tail
      /\ reg'[p].todo = reg[p].todo
      /\ \A u \in Threads \ {p} : reg'[u] = reg[u]
  BY DEF IndInv, TypeOK, Locals, Threads, PushReloadTail
<1>3. pc'[p] = "push_head" /\ \A u \in Threads \ {p} : pc'[u] = pc[u]
  BY TypeStep, ThreadAssumption DEF IndInv, PushReloadTail, Threads, ProducerPCs
<1>4. TypeOK'
  BY <1>2, TypeStep, ThreadAssumption
  DEF IndInv, TypeOK, PushReloadTail, Threads, ProducerPCs
<1>5. PushInv(p)'
  BY <1>2, <1>3, TicketType DEF IndInv, TypeOK, PushInv, PushReloadTail, Index
<1>6. QED
  BY <1>2, <1>3, <1>4, <1>5, LocalStep, ThreadAssumption DEF PushReloadTail, Threads
\* The full test: a push goes on only if its tail has gone stale or the room it
\* computed is really there.
LEMMA RoomIsRoom ==
  ASSUME NEW op, NEW count \in 0 .. Batch,
         NEW t \in Index, NEW h \in Index,
         Ticket(h) <= Ticket(t), Ticket(t) <= Ticket(h) + Size,
         PushRoom(op, count, t, h) # 0
  PROVE  /\ PushRoom(op, count, t, h) >= 1
         /\ Ticket(t) + PushRoom(op, count, t, h) <= Ticket(h) + Size
<1>1. USub(t, h) = Ticket(t) - Ticket(h) /\ USub(t, h) \in 0 .. Size
  BY Distance, TicketType, SizeAssumption DEF Index
<1>2. USub(Size, USub(t, h)) = Size - USub(t, h)
  BY <1>1, SizeAssumption DEF USub
<1>3. QED
  BY <1>1, <1>2, TicketType, SizeAssumption DEF PushRoom, Index

\* With any two counters the room is at most the count asked for.
LEMMA RoomType ==
  ASSUME NEW op, NEW count \in 0 .. Batch,
         NEW t \in Index, NEW h \in Index
  PROVE  PushRoom(op, count, t, h) \in 0 .. Batch
<1>1. USub(t, h) \in Index /\ Size \in Index
  BY USubType, SizeAssumption DEF Index
<1>2. USub(Size, USub(t, h)) \in Index
  BY <1>1, USubType
<1>3. QED
  BY <1>1, <1>2, SizeAssumption DEF PushRoom, Index

LEMMA PushLoadHeadKeeps ==
  ASSUME IndInv, NEW p \in Producers, PushLoadHead(p)
  PROVE  IndInv'
<1> DEFINE room == PushRoom(reg[p].op, reg[p].n, reg[p].pos, head)
<1>1. CASE room = 0
  <2>1. pc'[p] = "push_fail" /\ \A u \in Threads \ {p} : pc'[u] = pc[u]
    BY <1>1, TypeStep, ThreadAssumption DEF IndInv, PushLoadHead, Threads, ProducerPCs
  <2>2. TypeOK'
    BY <1>1, TypeStep, ThreadAssumption
    DEF IndInv, TypeOK, PushLoadHead, Threads, ProducerPCs
  <2>3. PushInv(p)'
    BY <1>1, <2>1 DEF IndInv, PushInv, PushLoadHead
  <2>4. QED
    BY <1>1, <2>1, <2>2, <2>3, LocalStep, ThreadAssumption DEF PushLoadHead, Threads
<1>2. CASE room # 0
  <2>1. room \in 0 .. Batch
    BY RoomType DEF IndInv, TypeOK, Locals, Threads
  <2> HIDE DEF room
  <2>2. /\ reg' \in [Threads -> Locals]
        /\ reg'[p].pos = reg[p].pos
        /\ reg'[p].n = room
        /\ reg'[p].todo = reg[p].todo
        /\ \A u \in Threads \ {p} : reg'[u] = reg[u]
    BY <1>2, <2>1 DEF IndInv, TypeOK, PushLoadHead, Locals, Threads, room
  <2>3. pc'[p] = "push_cas" /\ \A u \in Threads \ {p} : pc'[u] = pc[u]
    BY <1>2, TypeStep, ThreadAssumption
    DEF IndInv, PushLoadHead, Threads, ProducerPCs, room
  <2>4. TypeOK'
    BY <1>2, <2>2, TypeStep, ThreadAssumption
    DEF IndInv, TypeOK, PushLoadHead, Threads, ProducerPCs, room
  <2>5. /\ room >= 1
        /\ tail = reg[p].pos => Ticket(tail) + room <= Ticket(head) + Size
    <3>1. room >= 1
      BY <1>2, <2>1, SizeAssumption
    <3>2. ASSUME tail = reg[p].pos
          PROVE  Ticket(tail) + room <= Ticket(head) + Size
      BY <1>2, <3>2, RoomIsRoom
      DEF IndInv, TypeOK, CounterInv, Locals, Threads, PushLoadHead, room
    <3>3. QED
      BY <3>1, <3>2
  <2>6. PushInv(p)'
    BY <2>2, <2>3, <2>5 DEF IndInv, PushInv, PushLoadHead, Ticket
  <2>7. QED
    BY <2>2, <2>3, <2>4, <2>6, LocalStep, ThreadAssumption DEF PushLoadHead, Threads
<1>3. QED
  BY <1>1, <1>2

LEMMA PushFailKeeps ==
  ASSUME IndInv, NEW p \in Producers, PushFail(p)
  PROVE  IndInv'
BY ReturnKeeps, SizeAssumption DEF IndInv, TypeOK, PushFail, Threads

LEMMA PushCasFailKeeps ==
  ASSUME IndInv, NEW p \in Producers, PushCasFail(p)
  PROVE  IndInv'
<1>1. CASE reg[p].op = "push"
  <2>1. pc'[p] = "push_tail" /\ \A u \in Threads \ {p} : pc'[u] = pc[u]
    BY <1>1, TypeStep, ThreadAssumption DEF IndInv, PushCasFail, Threads, ProducerPCs
  <2>2. TypeOK'
    BY <1>1, TypeStep, ThreadAssumption
    DEF IndInv, TypeOK, PushCasFail, Threads, ProducerPCs
  <2>3. PushInv(p)'
    BY <1>1, <2>1 DEF IndInv, PushInv, PushCasFail
  <2>4. QED
    BY <1>1, <2>1, <2>2, <2>3, LocalStep, ThreadAssumption DEF PushCasFail, Threads
<1>2. CASE reg[p].op # "push"
  BY <1>2, ReturnKeeps, SizeAssumption DEF IndInv, TypeOK, PushCasFail, Threads
<1>3. QED
  BY <1>1, <1>2
\* The swap that moves tail.  Another push that has loaded the old tail is now
\* behind and will fail; the tickets given out are those after all older ones.
LEMMA PushCasOkKeeps ==
  ASSUME IndInv, NEW p \in Producers, PushCasOk(p)
  PROVE  IndInv'
<1> DEFINE n == reg[p].n
<1>1. /\ n \in 1 .. Batch
      /\ tail = reg[p].pos
      /\ Ticket(tail) + n <= Ticket(head) + Size
      /\ Ticket(tail) + n <= MaxItems
  BY DEF IndInv, TypeOK, Locals, PushInv, PushCasOk, Threads
<1>2. tail' \in Index /\ Ticket(tail') = Ticket(tail) + n
  <2>1. tail' = UAdd(tail, n) /\ tail \in Index /\ n \in 0 .. Batch
    BY <1>1, SizeAssumption DEF IndInv, TypeOK, PushCasOk
  <2>2. Ticket(tail) + n < Modulus
    BY <1>1, <2>1, TicketType, SizeAssumption DEF Index
  <2>3. QED
    BY <2>1, <2>2, UAddType, TicketAdd
<1>3. /\ reg' \in [Threads -> Locals]
      /\ reg'[p].pos = tail
      /\ reg'[p].n = n
      /\ reg'[p].todo = 0 .. n - 1
      /\ \A u \in Threads \ {p} : reg'[u] = reg[u]
  <2>1. 0 .. n - 1 \in SUBSET (0 .. Batch - 1)
    BY <1>1, SizeAssumption
  <2>2. reg' = [reg EXCEPT ![p].todo = 0 .. n - 1]
    BY DEF PushCasOk
  <2> HIDE DEF n
  <2>3. QED
    BY <1>1, <2>1, <2>2 DEF IndInv, TypeOK, Locals, Threads, n
<1>4. pc'[p] = "push_copy" /\ \A u \in Threads \ {p} : pc'[u] = pc[u]
  BY TypeStep, ThreadAssumption DEF IndInv, PushCasOk, Threads, ProducerPCs
<1>5. TypeOK'
  BY <1>2, <1>3, TypeStep, ThreadAssumption
  DEF IndInv, TypeOK, PushCasOk, Threads, ProducerPCs
<1>6. UNCHANGED head
  BY DEF PushCasOk
<1> HIDE DEF n
<1>7. Ticket(tail) \in Nat /\ Ticket(head) \in Nat /\ n \in 1 .. Batch
  BY <1>1, TicketType DEF IndInv, TypeOK, Index
<1>8. CounterInv'
  BY <1>1, <1>2, <1>6, <1>7, SizeAssumption DEF IndInv, CounterInv, Ticket
<1>9. ASSUME NEW q \in Producers PROVE PushInv(q)'
  <2>1. CASE q = p
    BY <1>2, <1>3, <1>4, <2>1, <1>7 DEF PushInv, Ticket
  <2>2. CASE q # p
    <3>1. pc'[q] = pc[q] /\ reg'[q] = reg[q] /\ q \in Threads
      BY <1>3, <1>4, <2>2 DEF Threads
    <3>2. Ticket(reg[q].pos) \in Nat /\ reg[q].n \in Nat
      BY <3>1, TicketType DEF IndInv, TypeOK, Locals, Index
    <3>3. PushInv(q)
      BY DEF IndInv
    <3>4. Ticket(reg[q].pos) <= Ticket(tail) => tail' # reg[q].pos
      BY <1>2, <1>7, <3>2
    <3>5. Ticket(tail)' = Ticket(tail) + n /\ Ticket(head)' = Ticket(head)
      BY <1>2, <1>6 DEF Ticket
    <3>6. QED
      BY <3>1, <3>2, <3>3, <3>4, <3>5, <1>7 DEF PushInv, Ticket
  <2>3. QED
    BY <2>1, <2>2
<1>10. ASSUME NEW c \in Consumers PROVE PopInv(c)'
  <2>1. pc'[c] = pc[c] /\ reg'[c] = reg[c] /\ c \in Threads
    BY <1>3, <1>4, ThreadAssumption DEF Threads
  <2>2. Ticket(reg[c].pos) \in Nat /\ reg[c].n \in Nat
    BY <2>1, TicketType DEF IndInv, TypeOK, Locals, Index
  <2>3. Ticket(tail)' = Ticket(tail) + n /\ Ticket(head)' = Ticket(head)
    BY <1>2, <1>6 DEF Ticket
  <2>4. PopInv(c)
    BY DEF IndInv
  <2>5. QED
    BY <2>1, <2>2, <2>3, <2>4, <1>7 DEF PopInv, Ticket
<1>11. PushApart'
  <2> SUFFICES ASSUME NEW q \in Producers, NEW s \in Producers, q # s,
                      pc'[q] = "push_copy", pc'[s] = "push_copy"
               PROVE  Apart(q, s)'
    BY DEF PushApart
  <2>1. ASSUME NEW u \in Producers \ {p}, pc'[u] = "push_copy"
        PROVE  Ticket(reg'[u].pos) + reg'[u].n <= Ticket(tail)
    BY <1>3, <1>4, <2>1 DEF IndInv, PushInv, Threads
  <2>2. CASE q = p
    BY <1>3, <2>1, <2>2 DEF Apart, Ticket
  <2>3. CASE s = p
    BY <1>3, <2>1, <2>3 DEF Apart, Ticket
  <2>4. CASE q # p /\ s # p
    BY <1>3, <1>4, <2>4 DEF IndInv, PushApart, Apart, Threads, Ticket
  <2>5. QED
    BY <2>2, <2>3, <2>4
<1>12. PopApart'
  BY <1>3, <1>4, ThreadAssumption DEF IndInv, PopApart, Apart, Threads, Ticket
<1>13. QED
  BY <1>5, <1>8, <1>9, <1>10, <1>11, <1>12 DEF IndInv

\* An item written carries the number of a ticket that was given out.
LEMMA PushCopyKeeps ==
  ASSUME IndInv, NEW p \in Producers, PushCopy(p)
  PROVE  IndInv'
<1>1. PICK k \in reg[p].todo :
        /\ buffer' = [buffer EXCEPT ![Slot(UAdd(reg[p].pos, k))] =
                                      Ticket(reg[p].pos) + k + 1]
        /\ reg' = [reg EXCEPT ![p].todo = @ \ {k}]
        /\ Goto(p, IF reg[p].todo = {k} THEN "push_count" ELSE "push_copy")
  BY DEF PushCopy
<1>2. /\ Ticket(reg[p].pos) + reg[p].n <= Ticket(tail)
      /\ reg[p].todo \subseteq 0 .. reg[p].n - 1
      /\ reg[p].n \in 0 .. Batch
      /\ Ticket(reg[p].pos) \in Nat
      /\ Ticket(tail) \in Nat
  BY TicketType DEF IndInv, TypeOK, Locals, PushInv, PushCopy, Threads, Index
<1>3. Ticket(reg[p].pos) + k + 1 \in 0 .. MaxItems
  BY <1>2, SizeAssumption DEF IndInv, CounterInv
<1>4. buffer' \in [0 .. Size - 1 -> 0 .. MaxItems]
  BY <1>1, <1>3 DEF IndInv, TypeOK
<1>5. /\ reg' \in [Threads -> Locals]
      /\ reg'[p].pos = reg[p].pos
      /\ reg'[p].n = reg[p].n
      /\ reg'[p].todo = reg[p].todo \ {k}
      /\ \A u \in Threads \ {p} : reg'[u] = reg[u]
  BY <1>1 DEF IndInv, TypeOK, Locals, Threads
<1>6. /\ pc'[p] = IF reg[p].todo = {k} THEN "push_count" ELSE "push_copy"
      /\ \A u \in Threads \ {p} : pc'[u] = pc[u]
  BY <1>1, TypeStep, ThreadAssumption DEF IndInv, Threads, ProducerPCs
<1>7. TypeOK'
  BY <1>1, <1>4, <1>5, TypeStep, ThreadAssumption
  DEF IndInv, TypeOK, PushCopy, Threads, ProducerPCs
<1>8. PushInv(p)'
  BY <1>2, <1>5, <1>6 DEF PushInv, PushCopy, Ticket
<1>9. QED
  BY <1>5, <1>6, <1>7, <1>8, LocalStep, ThreadAssumption DEF PushCopy, Threads

LEMMA PushCountKeeps ==
  ASSUME IndInv, NEW p \in Producers, PushCount(p)
  PROVE  IndInv'
BY ReturnKeeps DEF IndInv, TypeOK, Locals, PushCount, Threads
LEMMA PopCallKeeps ==
  ASSUME IndInv, NEW c \in Consumers, PopCall(c)
  PROVE  IndInv'
<1>1. PICK op \in PopOps, count \in 1 .. Batch :
        reg' = [reg EXCEPT ![c] = Call(op, count, head)]
  BY DEF PopCall
<1>2. /\ reg' \in [Threads -> Locals]
      /\ reg'[c].pos = head
      /\ reg'[c].todo = {}
      /\ \A u \in Threads \ {c} : reg'[u] = reg[u]
  BY <1>1, CallType, OpAssumption DEF IndInv, TypeOK, Threads
<1>3. pc'[c] = "pop_tail" /\ \A u \in Threads \ {c} : pc'[u] = pc[u]
  BY TypeStep, ThreadAssumption DEF IndInv, PopCall, Threads, ConsumerPCs
<1>4. TypeOK'
  BY <1>2, TypeStep, ThreadAssumption
  DEF IndInv, TypeOK, PopCall, Threads, ConsumerPCs
<1>5. PopInv(c)'
  BY <1>2, <1>3, TicketType DEF IndInv, TypeOK, PopInv, PopCall, Index
<1>6. QED
  BY <1>2, <1>3, <1>4, <1>5, LocalStep, ThreadAssumption DEF PopCall, Threads

LEMMA PopReloadHeadKeeps ==
  ASSUME IndInv, NEW c \in Consumers, PopReloadHead(c)
  PROVE  IndInv'
<1>2. /\ reg' \in [Threads -> Locals]
      /\ reg'[c].pos = head
      /\ reg'[c].todo = reg[c].todo
      /\ \A u \in Threads \ {c} : reg'[u] = reg[u]
  BY DEF IndInv, TypeOK, Locals, Threads, PopReloadHead
<1>3. pc'[c] = "pop_tail" /\ \A u \in Threads \ {c} : pc'[u] = pc[u]
  BY TypeStep, ThreadAssumption DEF IndInv, PopReloadHead, Threads, ConsumerPCs
<1>4. TypeOK'
  BY <1>2, TypeStep, ThreadAssumption
  DEF IndInv, TypeOK, PopReloadHead, Threads, ConsumerPCs
<1>5. PopInv(c)'
  BY <1>2, <1>3, TicketType DEF IndInv, TypeOK, PopInv, PopReloadHead, Index
<1>6. QED
  BY <1>2, <1>3, <1>4, <1>5, LocalStep, ThreadAssumption DEF PopReloadHead, Threads

\* The empty test: what a pop finds available is really there, because head is
\* loaded before tail.
LEMMA AvailableIsThere ==
  ASSUME NEW count \in 0 .. Batch, NEW h \in Index, NEW t \in Index,
         Ticket(h) <= Ticket(t)
  PROVE  /\ PopAvailable(count, h, t) \in 0 .. Batch
         /\ Ticket(h) + PopAvailable(count, h, t) <= Ticket(t)
BY Distance, TicketType, SizeAssumption DEF PopAvailable, Index

LEMMA PopLoadTailKeeps ==
  ASSUME IndInv, NEW c \in Consumers, PopLoadTail(c)
  PROVE  IndInv'
<1> DEFINE avail == PopAvailable(reg[c].n, reg[c].pos, tail)
<1>1. CASE avail = 0
  BY <1>1, ReturnKeeps, SizeAssumption DEF IndInv, TypeOK, PopLoadTail, Threads
<1>2. CASE avail # 0
  <2>1. avail \in 0 .. Batch /\ Ticket(reg[c].pos) + avail <= Ticket(tail)
    <3>1. Ticket(reg[c].pos) <= Ticket(head) /\ Ticket(head) <= Ticket(tail)
      BY DEF IndInv, PopInv, CounterInv, PopLoadTail
    <3>2. reg[c].n \in 0 .. Batch /\ reg[c].pos \in Index
          /\ head \in Index /\ tail \in Index
      BY DEF IndInv, TypeOK, Locals, Threads
    <3>3. Ticket(reg[c].pos) <= Ticket(tail)
      BY <3>1, <3>2, TicketType DEF Index
    <3>4. QED
      BY <3>2, <3>3, AvailableIsThere
  <2>2. avail >= 1
    BY <1>2, <2>1, SizeAssumption
  <2>3. reg' = [reg EXCEPT ![c].n = avail]
    BY <1>2 DEF PopLoadTail
  <2>4. Goto(c, IF reg[c].op = "pop" THEN "pop_read" ELSE "pop_cas")
    BY <1>2 DEF PopLoadTail
  <2> HIDE DEF avail
  <2>5. /\ reg' \in [Threads -> Locals]
        /\ reg'[c].pos = reg[c].pos
        /\ reg'[c].n = avail
        /\ reg'[c].todo = reg[c].todo
        /\ \A u \in Threads \ {c} : reg'[u] = reg[u]
    BY <2>1, <2>3 DEF IndInv, TypeOK, Locals, Threads
  <2>6. /\ pc'[c] = IF reg[c].op = "pop" THEN "pop_read" ELSE "pop_cas"
        /\ \A u \in Threads \ {c} : pc'[u] = pc[u]
    BY <2>4, TypeStep, ThreadAssumption DEF IndInv, Threads, ConsumerPCs
  <2>7. TypeOK'
    BY <2>4, <2>5, TypeStep, ThreadAssumption
    DEF IndInv, TypeOK, PopLoadTail, Threads, ConsumerPCs
  <2>8. PopInv(c)'
    BY <2>1, <2>2, <2>5, <2>6 DEF IndInv, PopInv, PopLoadTail, Ticket
  <2>9. QED
    BY <2>5, <2>6, <2>7, <2>8, LocalStep, ThreadAssumption DEF PopLoadTail, Threads
<1>3. QED
  BY <1>1, <1>2

LEMMA PopReadKeeps ==
  ASSUME IndInv, NEW c \in Consumers, PopRead(c)
  PROVE  IndInv'
<1>1. buffer[Slot(reg[c].pos)] \in 0 .. MaxItems
  BY SlotType DEF IndInv, TypeOK, Locals, Threads
<1>2. /\ reg' \in [Threads -> Locals]
      /\ reg'[c].pos = reg[c].pos
      /\ reg'[c].n = reg[c].n
      /\ reg'[c].todo = reg[c].todo
      /\ \A u \in Threads \ {c} : reg'[u] = reg[u]
  BY <1>1 DEF IndInv, TypeOK, Locals, Threads, PopRead
<1>3. pc'[c] = "pop_cas" /\ \A u \in Threads \ {c} : pc'[u] = pc[u]
  BY TypeStep, ThreadAssumption DEF IndInv, PopRead, Threads, ConsumerPCs
<1>4. TypeOK'
  BY <1>2, TypeStep, ThreadAssumption
  DEF IndInv, TypeOK, PopRead, Threads, ConsumerPCs
<1>5. PopInv(c)'
  BY <1>2, <1>3 DEF IndInv, PopInv, PopRead, Ticket
<1>6. QED
  BY <1>2, <1>3, <1>4, <1>5, LocalStep, ThreadAssumption DEF PopRead, Threads

LEMMA PopCasFailKeeps ==
  ASSUME IndInv, NEW c \in Consumers, PopCasFail(c)
  PROVE  IndInv'
<1>1. CASE reg[c].op = "pop"
  <2>1. pc'[c] = "pop_head" /\ \A u \in Threads \ {c} : pc'[u] = pc[u]
    BY <1>1, TypeStep, ThreadAssumption DEF IndInv, PopCasFail, Threads, ConsumerPCs
  <2>2. TypeOK'
    BY <1>1, TypeStep, ThreadAssumption
    DEF IndInv, TypeOK, PopCasFail, Threads, ConsumerPCs
  <2>3. PopInv(c)'
    BY <1>1, <2>1 DEF IndInv, PopInv, PopCasFail
  <2>4. QED
    BY <1>1, <2>1, <2>2, <2>3, LocalStep, ThreadAssumption DEF PopCasFail, Threads
<1>2. CASE reg[c].op # "pop"
  BY <1>2, ReturnKeeps, SizeAssumption DEF IndInv, TypeOK, PopCasFail, Threads
<1>3. QED
  BY <1>1, <1>2
\* Recording a popped item.
LEMMA PoppedType ==
  ASSUME popped \in [1 .. MaxItems -> NotYet .. MaxItems],
         NEW i, NEW x \in 0 .. MaxItems
  PROVE  [popped EXCEPT ![i] = x] \in [1 .. MaxItems -> NotYet .. MaxItems]
<1>1. x \in NotYet .. MaxItems
  BY SizeAssumption DEF NotYet
<1>2. QED
  BY <1>1

\* The swap that moves head, seen from everybody else: the room a push has
\* computed only grows, what another pop is about to take is still there or its
\* swap fails, and what is copied now was not taken before.
LEMMA PopCasOkKeeps ==
  ASSUME IndInv, NEW c \in Consumers, PopCasOk(c)
  PROVE  IndInv'
<1> DEFINE n == reg[c].n
<1>1. /\ n \in 1 .. Batch
      /\ head = reg[c].pos
      /\ Ticket(head) + n <= Ticket(tail)
      /\ reg[c].todo = {}
      /\ reg[c].item \in 0 .. MaxItems
  <2>1. n \in 0 .. Batch /\ reg[c].item \in 0 .. MaxItems
    BY DEF IndInv, TypeOK, Locals, Threads
  <2>2. head = reg[c].pos /\ pc[c] = "pop_cas" /\ PopInv(c)
    BY DEF IndInv, PopCasOk
  <2>3. QED
    BY <2>1, <2>2, SizeAssumption DEF PopInv
<1>2. /\ Ticket(tail) \in Nat
      /\ Ticket(head) \in Nat
      /\ Ticket(tail) <= MaxItems
  BY TicketType DEF IndInv, TypeOK, CounterInv, Index
<1>3. head' \in Index /\ Ticket(head') = Ticket(head) + n
  <2>1. head' = UAdd(head, n) /\ head \in Index /\ n \in 0 .. Batch
    BY <1>1, SizeAssumption DEF IndInv, TypeOK, PopCasOk
  <2>2. Ticket(head) + n < Modulus
    BY <1>1, <1>2, <2>1, SizeAssumption
  <2>3. QED
    BY <2>1, <2>2, UAddType, TicketAdd
<1>4. /\ reg' \in [Threads -> Locals]
      /\ reg'[c].pos = head
      /\ reg'[c].n = n
      /\ reg'[c].todo = IF reg[c].op = "pop" THEN {} ELSE 0 .. n - 1
      /\ \A u \in Threads \ {c} : reg'[u] = reg[u]
  <2>1. CASE reg[c].op = "pop"
    BY <1>1, <2>1 DEF IndInv, TypeOK, PopCasOk
  <2>2. CASE reg[c].op # "pop"
    <3>1. 0 .. n - 1 \in SUBSET (0 .. Batch - 1)
      BY <1>1, SizeAssumption
    <3>2. reg' = [reg EXCEPT ![c].todo = 0 .. n - 1]
      BY <2>2 DEF PopCasOk
    <3> HIDE DEF n
    <3>3. QED
      BY <1>1, <2>2, <3>1, <3>2 DEF IndInv, TypeOK, Locals, Threads, n
  <2>3. QED
    BY <2>1, <2>2
<1>5. /\ pc'[c] = IF reg[c].op = "pop" THEN "pop_count" ELSE "pop_copy"
      /\ \A u \in Threads \ {c} : pc'[u] = pc[u]
  BY TypeStep, ThreadAssumption DEF IndInv, PopCasOk, Threads, ConsumerPCs
<1>6. TypeOK'
  <2>1. popped' \in [1 .. MaxItems -> NotYet .. MaxItems]
    <3>1. \/ UNCHANGED popped
          \/ popped' = [popped EXCEPT ![Ticket(reg[c].pos) + 1] = reg[c].item]
      BY DEF PopCasOk
    <3>2. popped \in [1 .. MaxItems -> NotYet .. MaxItems]
      BY DEF IndInv, TypeOK
    <3>3. QED
      BY <1>1, <3>1, <3>2, PoppedType
  <2>2. QED
    BY <1>3, <1>4, <2>1, TypeStep, ThreadAssumption
    DEF IndInv, TypeOK, PopCasOk, Threads, ConsumerPCs
<1>7. UNCHANGED tail
  BY DEF PopCasOk
<1> HIDE DEF n
<1>8. Ticket(head)' = Ticket(head) + n /\ Ticket(tail)' = Ticket(tail)
  BY <1>3, <1>7 DEF Ticket
<1>9. CounterInv'
  BY <1>1, <1>2, <1>8, SizeAssumption DEF IndInv, CounterInv
<1>10. ASSUME NEW p \in Producers PROVE PushInv(p)'
  <2>1. pc'[p] = pc[p] /\ reg'[p] = reg[p] /\ p \in Threads
    BY <1>4, <1>5, ThreadAssumption DEF Threads
  <2>2. Ticket(reg[p].pos) \in Nat /\ reg[p].n \in Nat
    BY <2>1, TicketType DEF IndInv, TypeOK, Locals, Index
  <2>3. PushInv(p)
    BY DEF IndInv
  <2>4. QED
    BY <1>1, <1>2, <1>7, <1>8, <2>1, <2>2, <2>3, SizeAssumption DEF PushInv, Ticket
<1>11. ASSUME NEW d \in Consumers PROVE PopInv(d)'
  <2>1. CASE d = c
    BY <1>1, <1>2, <1>4, <1>5, <1>8, <2>1 DEF PopInv, Ticket
  <2>2. CASE d # c
    <3>1. pc'[d] = pc[d] /\ reg'[d] = reg[d] /\ d \in Threads
      BY <1>4, <1>5, <2>2 DEF Threads
    <3>2. Ticket(reg[d].pos) \in Nat /\ reg[d].n \in Nat
      BY <3>1, TicketType DEF IndInv, TypeOK, Locals, Index
    <3>3. PopInv(d)
      BY DEF IndInv
    <3>4. QED
      BY <1>1, <1>2, <1>8, <3>1, <3>2, <3>3, SizeAssumption DEF PopInv, Ticket
  <2>3. QED
    BY <2>1, <2>2
<1>12. PushApart'
  BY <1>4, <1>5, ThreadAssumption DEF IndInv, PushApart, Apart, Threads, Ticket
<1>13. PopApart'
  <2> SUFFICES ASSUME NEW d \in Consumers, NEW s \in Consumers, d # s,
                      pc'[d] = "pop_copy", pc'[s] = "pop_copy"
               PROVE  Apart(d, s)'
    BY DEF PopApart
  <2>1. ASSUME NEW u \in Consumers \ {c}, pc'[u] = "pop_copy"
        PROVE  Ticket(reg'[u].pos) + reg'[u].n <= Ticket(head)
    BY <1>4, <1>5, <2>1 DEF IndInv, PopInv, Threads
  <2>2. CASE d = c
    BY <1>4, <2>1, <2>2 DEF Apart, Ticket
  <2>3. CASE s = c
    BY <1>4, <2>1, <2>3 DEF Apart, Ticket
  <2>4. CASE d # c /\ s # c
    BY <1>4, <1>5, <2>4 DEF IndInv, PopApart, Apart, Threads, Ticket
  <2>5. QED
    BY <2>2, <2>3, <2>4
<1>14. QED
  BY <1>6, <1>9, <1>10, <1>11, <1>12, <1>13 DEF IndInv

LEMMA PopCopyKeeps ==
  ASSUME IndInv, NEW c \in Consumers, PopCopy(c)
  PROVE  IndInv'
<1>1. PICK k \in reg[c].todo :
        /\ popped' = [popped EXCEPT ![Ticket(reg[c].pos) + 1 + k] =
                                      buffer[Slot(UAdd(reg[c].pos, k))]]
        /\ reg' = [reg EXCEPT ![c].todo = @ \ {k}]
        /\ Goto(c, IF reg[c].todo = {k} THEN "pop_count" ELSE "pop_copy")
  BY DEF PopCopy
<1>2. k \in 0 .. Batch /\ reg[c].pos \in Index
  BY SizeAssumption DEF IndInv, TypeOK, Locals, Threads
<1>3. buffer[Slot(UAdd(reg[c].pos, k))] \in 0 .. MaxItems
  BY <1>2, UAddType, SlotType DEF IndInv, TypeOK
<1>4. popped' \in [1 .. MaxItems -> NotYet .. MaxItems]
  BY <1>1, <1>3, PoppedType DEF IndInv, TypeOK
<1>5. /\ reg' \in [Threads -> Locals]
      /\ reg'[c].pos = reg[c].pos
      /\ reg'[c].n = reg[c].n
      /\ reg'[c].todo = reg[c].todo \ {k}
      /\ \A u \in Threads \ {c} : reg'[u] = reg[u]
  BY <1>1 DEF IndInv, TypeOK, Locals, Threads
<1>6. /\ pc'[c] = IF reg[c].todo = {k} THEN "pop_count" ELSE "pop_copy"
      /\ \A u \in Threads \ {c} : pc'[u] = pc[u]
  BY <1>1, TypeStep, ThreadAssumption DEF IndInv, Threads, ConsumerPCs
<1>7. TypeOK'
  BY <1>1, <1>4, <1>5, TypeStep, ThreadAssumption
  DEF IndInv, TypeOK, PopCopy, Threads, ConsumerPCs
<1>8. PopInv(c)'
  BY <1>5, <1>6 DEF IndInv, PopInv, PopCopy, Ticket
<1>9. QED
  BY <1>5, <1>6, <1>7, <1>8, LocalStep, ThreadAssumption DEF PopCopy, Threads

LEMMA PopCountKeeps ==
  ASSUME IndInv, NEW c \in Consumers, PopCount(c)
  PROVE  IndInv'
BY ReturnKeeps DEF IndInv, TypeOK, Locals, PopCount, Threads

LEMMA ProbeLoadHeadKeeps ==
  ASSUME IndInv, NEW o \in Observers, ProbeLoadHead(o)
  PROVE  IndInv'
<1>1. reg' = [reg EXCEPT ![o] = Call("probe", 0, head)]
  BY DEF ProbeLoadHead
<1>2. /\ reg' \in [Threads -> Locals]
      /\ \A u \in Threads \ {o} : reg'[u] = reg[u]
  BY <1>1, CallType, SizeAssumption DEF IndInv, TypeOK, Threads
<1>3. pc'[o] = "probe_tail" /\ \A u \in Threads \ {o} : pc'[u] = pc[u]
  BY TypeStep, ThreadAssumption DEF IndInv, ProbeLoadHead, Threads, ObserverPCs
<1>4. TypeOK'
  BY <1>2, TypeStep, ThreadAssumption
  DEF IndInv, TypeOK, ProbeLoadHead, Threads, ObserverPCs
<1>5. QED
  BY <1>2, <1>3, <1>4, LocalStep, ThreadAssumption DEF ProbeLoadHead, Threads

LEMMA ProbeLoadTailKeeps ==
  ASSUME IndInv, NEW o \in Observers, ProbeLoadTail(o)
  PROVE  IndInv'
BY ReturnKeeps DEF IndInv, TypeOK, ProbeLoadTail, Threads

-----------------------------------------------------------------------------
(***************************************************************************)
(* The theorems                                                            *)
(***************************************************************************)

LEMMA NextKeeps == IndInv /\ [Next]_vars => IndInv'
<1> SUFFICES ASSUME IndInv, [Next]_vars PROVE IndInv'
  OBVIOUS
<1>1. ASSUME NEW p \in Producers, Producer(p) PROVE IndInv'
  BY <1>1, PushCallKeeps, PushReloadTailKeeps, PushLoadHeadKeeps,
     PushFailKeeps, PushCasOkKeeps, PushCasFailKeeps, PushCopyKeeps,
     PushCountKeeps
  DEF Producer
<1>2. ASSUME NEW c \in Consumers, Consumer(c) PROVE IndInv'
  BY <1>2, PopCallKeeps, PopReloadHeadKeeps, PopLoadTailKeeps, PopReadKeeps,
     PopCasOkKeeps, PopCasFailKeeps, PopCopyKeeps, PopCountKeeps
  DEF Consumer
<1>3. ASSUME NEW o \in Observers, ProbeLoadHead(o) \/ ProbeLoadTail(o)
      PROVE  IndInv'
  BY <1>3, ProbeLoadHeadKeeps, ProbeLoadTailKeeps
<1>4. CASE UNCHANGED vars
  BY <1>4 DEF vars, IndInv, TypeOK, CounterInv, PushInv, PopInv, PushApart,
              PopApart, Apart, Ticket
<1>5. QED
  BY <1>1, <1>2, <1>3, <1>4 DEF Next

\* The invariant holds in every behaviour of the queue.
THEOREM Invariance == Spec => []IndInv
BY InitIndInv, NextKeeps, PTL DEF Spec

\* Every variable keeps its type: the counters stay uint32_t values through
\* every wrap, and only tickets that were given out are written or copied.
THEOREM TypeCorrect == Spec => []TypeOK
<1>1. IndInv => TypeOK
  BY DEF IndInv
<1>2. QED
  BY <1>1, Invariance, PTL

\* For any number of producers and consumers the queue never holds fewer than
\* no and never more than RING_QUEUE_SIZE tickets: the full and empty tests of
\* ring_queue_push, ring_queue_pop and their batch forms, made on counters that
\* may be stale, are safe.
THEOREM NeverOverfull == Spec => []OccupancyBounded
<1>1. IndInv => OccupancyBounded
  <2> SUFFICES ASSUME IndInv PROVE OccupancyBounded
    OBVIOUS
  <2>1. USub(tail, head) = Ticket(tail) - Ticket(head)
    BY Distance DEF IndInv, TypeOK, CounterInv
  <2>2. Ticket(tail) - Ticket(head) \in 0 .. Size
    <3>1. /\ Ticket(tail) \in Nat
          /\ Ticket(head) \in Nat
          /\ Ticket(head) <= Ticket(tail)
          /\ Ticket(tail) <= Ticket(head) + Size
      BY TicketType DEF IndInv, TypeOK, CounterInv, Index
    <3>2. QED
      BY <3>1, SizeAssumption
  <2>3. QED
    BY <2>1, <2>2 DEF OccupancyBounded, TQ!Bounded
<1>2. QED
  BY <1>1, Invariance, PTL

\* Under IndInv the tickets that calls work on are apart.
LEMMA OwnedOnceNow == IndInv => TicketsOwnedOnce
<1> SUFFICES ASSUME IndInv PROVE TicketsOwnedOnce
  OBVIOUS
<1>1. ASSUME NEW t \in Threads
      PROVE  /\ Ticket(reg[t].pos) \in Nat
             /\ reg[t].n \in Nat
             /\ reg[t].todo \subseteq Nat
  <2>1. reg[t] \in Locals
    BY DEF IndInv, TypeOK
  <2>2. reg[t].pos \in Index /\ reg[t].n \in 0 .. Batch
        /\ reg[t].todo \in SUBSET (0 .. Batch - 1)
    BY <2>1 DEF Locals
  <2>3. QED
    BY <2>2, TicketType, SizeAssumption DEF Index
<1>2. Ticket(head) \in Nat /\ Ticket(tail) \in Nat
  BY TicketType DEF IndInv, TypeOK, Index
<1>3. ASSUME NEW p \in Producers, NEW i \in Writing(p)
      PROVE  /\ pc[p] = "push_copy"
             /\ i \in Ticket(reg[p].pos) + 1 .. Ticket(reg[p].pos) + reg[p].n
             /\ Ticket(reg[p].pos) + reg[p].n <= Ticket(tail)
  BY <1>1 DEF Writing, IndInv, PushInv, Threads
<1>4. ASSUME NEW c \in Consumers, NEW i \in Reading(c)
      PROVE  /\ pc[c] = "pop_copy"
             /\ i \in Ticket(reg[c].pos) + 1 .. Ticket(reg[c].pos) + reg[c].n
             /\ Ticket(reg[c].pos) + reg[c].n <= Ticket(head)
  BY <1>1 DEF Reading, IndInv, PopInv, Threads
<1>5. ASSUME NEW p \in Producers, NEW q \in Producers, p # q,
             NEW i \in Writing(p), i \in Writing(q)
      PROVE  FALSE
  BY <1>1, <1>3, <1>5 DEF IndInv, PushApart, Apart, Threads
<1>6. ASSUME NEW c \in Consumers, NEW d \in Consumers, c # d,
             NEW i \in Reading(c), i \in Reading(d)
      PROVE  FALSE
  BY <1>1, <1>4, <1>6 DEF IndInv, PopApart, Apart, Threads
<1>7. \A c \in Consumers : Reading(c) \subseteq 1 .. Ticket(head)
  BY <1>1, <1>2, <1>4 DEF Threads
<1>8. \A p \in Producers : Writing(p) \subseteq 1 .. Ticket(tail)
  BY <1>1, <1>2, <1>3 DEF Threads
<1>9. QED
  BY <1>5, <1>6, <1>7, <1>8 DEF TicketsOwnedOnce

\* No two calls ever work on the same ticket: two pushes never write one slot
\* for the same lap, two pops never hand out one item.
THEOREM OneOwner == Spec => []TicketsOwnedOnce
BY OwnedOnceNow, Invariance, PTL

\* A step of the queue gives out tickets, takes tickets back, or does neither.
LEMMA StepRefines ==
  ASSUME IndInv, [Next]_vars
  PROVE  [TQ!Next]_(TQ!vars)
<1>1. /\ Ticket(head) \in Nat
      /\ Ticket(tail) \in Nat
      /\ head \in Index
      /\ tail \in Index
  BY TicketType DEF IndInv, TypeOK, Index
<1>2. ASSUME NEW p \in Producers, PushCasOk(p) PROVE TQ!Next
  <2> DEFINE n == reg[p].n
  <2>1. n \in 1 .. Batch /\ tail' = UAdd(tail, n) /\ UNCHANGED head
    BY <1>2 DEF IndInv, TypeOK, Locals, PushInv, PushCasOk, Threads
  <2>2. Ticket(tail) + n <= MaxItems /\ Ticket(tail) + n <= Ticket(head) + Size
    BY <1>2 DEF IndInv, PushInv, PushCasOk
  <2>3. Ticket(tail)' = Ticket(tail) + n
    BY <1>1, <2>1, <2>2, TicketAdd, SizeAssumption DEF Ticket
  <2>4. Ticket(head)' = Ticket(head)
    BY <2>1 DEF Ticket
  <2>5. Ticket(head) <= Ticket(tail)
    BY DEF IndInv, CounterInv
  <2> HIDE DEF n
  <2>6. n \in 1 .. Size
    BY <1>1, <2>1, <2>2, <2>5, SizeAssumption
  <2>7. TQ!Claim(n)
    BY <1>1, <2>1, <2>2, <2>3, <2>4, SizeAssumption DEF TQ!Claim
  <2>8. QED
    BY <2>6, <2>7 DEF TQ!Next
<1>3. ASSUME NEW c \in Consumers, PopCasOk(c) PROVE TQ!Next
  <2> DEFINE n == reg[c].n
  <2>1. n \in 1 .. Batch /\ head' = UAdd(head, n) /\ UNCHANGED tail
    BY <1>3 DEF IndInv, TypeOK, Locals, PopInv, PopCasOk, Threads
  <2>2. Ticket(head) + n <= Ticket(tail)
    BY <1>3 DEF IndInv, PopInv, PopCasOk
  <2>3. Ticket(tail) <= Ticket(head) + Size /\ Ticket(tail) <= MaxItems
    BY DEF IndInv, CounterInv
  <2>4. Ticket(head) + n < Modulus
    BY <1>1, <2>1, <2>2, <2>3, SizeAssumption
  <2>5. Ticket(head)' = Ticket(head) + n
    BY <1>1, <2>1, <2>4, TicketAdd, SizeAssumption DEF Ticket
  <2>6. Ticket(tail)' = Ticket(tail)
    BY <2>1 DEF Ticket
  <2> HIDE DEF n
  <2>7. n \in 1 .. Size
    BY <1>1, <2>1, <2>2, <2>3, SizeAssumption
  <2>8. TQ!Take(n)
    BY <1>1, <2>1, <2>2, <2>5, <2>6 DEF TQ!Take
  <2>9. QED
    BY <2>7, <2>8 DEF TQ!Next
<1>4. ASSUME UNCHANGED <<head, tail>> PROVE UNCHANGED TQ!vars
  BY <1>4 DEF TQ!vars, Ticket
<1>5. ASSUME NEW p \in Producers, Producer(p) PROVE [TQ!Next]_(TQ!vars)
  BY <1>5, <1>2, <1>4
  DEF Producer, PushCall, PushReloadTail, PushLoadHead, PushFail, PushCasFail,
      PushCopy, PushCount
<1>6. ASSUME NEW c \in Consumers, Consumer(c) PROVE [TQ!Next]_(TQ!vars)
  BY <1>6, <1>3, <1>4
  DEF Consumer, PopCall, PopReloadHead, PopLoadTail, PopRead, PopCasFail,
      PopCopy, PopCount
<1>7. ASSUME NEW o \in Observers, ProbeLoadHead(o) \/ ProbeLoadTail(o)
      PROVE  [TQ!Next]_(TQ!vars)
  BY <1>7, <1>4 DEF ProbeLoadHead, ProbeLoadTail
<1>8. CASE UNCHANGED vars
  BY <1>8, <1>4 DEF vars
<1>9. QED
  BY <1>5, <1>6, <1>7, <1>8 DEF Next

\* The lock-free queue implements the ticket dispenser: seen through its two
\* counters it is a bounded FIFO, for any number of threads and across any wrap.
THEOREM Refinement == Spec => ImplementsTickets
<1>1. Init => TQ!Init
  <2>1. Ticket(Start) = 0
    BY SizeAssumption DEF Ticket, USub
  <2>2. QED
    BY <2>1 DEF Init, TQ!Init
<1>2. IndInv /\ [Next]_vars => [TQ!Next]_(TQ!vars)
  BY StepRefines
<1>3. QED
  BY <1>1, <1>2, Invariance, PTL DEF Spec, ImplementsTickets, TQ!Spec

=============================================================================
