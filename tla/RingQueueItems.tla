--------------------------- MODULE RingQueueItems ---------------------------
(***************************************************************************)
(* Proofs about what RingQueue does with the items: which slot an item is  *)
(* in, what a pop returns, what the full and empty answers mean.  They     *)
(* rest on IndInv of RingQueueProofs and on one fact about slots: two      *)
(* tickets less than Size apart have different slots, wrap or no wrap.     *)
(***************************************************************************)
EXTENDS RingQueueProofs

-----------------------------------------------------------------------------
(***************************************************************************)
(* Slots                                                                   *)
(***************************************************************************)

\* The counter at which the push with ticket i writes.
CounterOf(i) == UAdd(Start, i - 1)

\* Numbers less than s apart have different remainders.
LEMMA ModApart ==
  ASSUME NEW s \in Nat \ {0}, NEW x \in Nat, NEW y \in Nat, x < y, y < x + s
  PROVE  x % s # y % s
<1>1. PICK q \in Int : q = x \div s
  OBVIOUS
<1>2. PICK r \in Int : r = y \div s
  OBVIOUS
<1>3. x = s * q + (x % s) /\ y = s * r + (y % s)
  BY <1>1, <1>2
<1>4. x % s \in Int /\ y % s \in Int
  OBVIOUS
<1>5. SUFFICES ASSUME x % s = y % s PROVE FALSE
  OBVIOUS
<1>6. y - x = s * r - s * q
  BY <1>3, <1>4, <1>5
<1>7. s * r - s * q = s * (r - q)
  OBVIOUS
<1>8. r - q <= 0 => s * (r - q) <= 0
  OBVIOUS
<1>9. r - q >= 1 => s * (r - q) >= s
  OBVIOUS
<1> QED
  BY <1>6, <1>7, <1>8, <1>9

\* A whole number of laps does not change the remainder.
LEMMA ModLap ==
  ASSUME NEW s \in Nat \ {0}, NEW m \in Nat, m % s = 0, NEW x \in Nat
  PROVE  (x + m) % s = x % s
<1>1. PICK k \in Int : k = m \div s
  OBVIOUS
<1>2. m = s * k
  BY <1>1
<1>3. PICK q \in Int : q = x \div s
  OBVIOUS
<1>4. x = s * q + (x % s) /\ x % s \in 0 .. s - 1
  BY <1>3
<1>5. PICK r \in Int : r = (x + m) \div s
  OBVIOUS
<1>6. x + m = s * r + ((x + m) % s) /\ (x + m) % s \in 0 .. s - 1
  BY <1>5
<1>7. ((x + m) % s) - (x % s) = s * (q + k - r)
  BY <1>2, <1>4, <1>6
<1>8. q + k - r <= -1 => s * (q + k - r) <= -s
  OBVIOUS
<1>9. q + k - r >= 1 => s * (q + k - r) >= s
  OBVIOUS
<1>10. q + k - r = 0
  BY <1>4, <1>6, <1>7, <1>8, <1>9
<1> QED
  BY <1>4, <1>6, <1>7, <1>10

\* The slot of ticket i is its distance from Start in the ring, though the counter
\* may have wrapped: Size divides Modulus.
LEMMA SlotOf ==
  ASSUME NEW i \in 1 .. MaxItems
  PROVE  Slot(CounterOf(i)) = (Start + i - 1) % Size
<1>1. CASE Start + (i - 1) < Modulus
  BY <1>1, SizeAssumption DEF Slot, CounterOf, UAdd
<1>2. CASE ~(Start + (i - 1) < Modulus)
  <2>1. PICK x \in Nat : x = Start + (i - 1) - Modulus
    BY <1>2, SizeAssumption
  <2>2. CounterOf(i) = x
    BY <1>2, <2>1 DEF CounterOf, UAdd
  <2>3. (x + Modulus) % Size = x % Size
    BY ModLap, SizeAssumption
  <2>4. x + Modulus = Start + i - 1
    BY <2>1, SizeAssumption
  <2> QED
    BY <2>2, <2>3, <2>4 DEF Slot
<1> QED
  BY <1>1, <1>2

\* Tickets less than Size apart have different slots.
LEMMA SlotsApart ==
  ASSUME NEW i \in 1 .. MaxItems, NEW j \in 1 .. MaxItems, i < j, j < i + Size
  PROVE  Slot(CounterOf(i)) # Slot(CounterOf(j))
<1>1. PICK x \in Nat : x = Start + i - 1
  BY SizeAssumption
<1>2. PICK y \in Nat : y = Start + j - 1
  BY SizeAssumption
<1>3. x < y /\ y < x + Size
  BY <1>1, <1>2, SizeAssumption
<1>4. x % Size # y % Size
  BY <1>3, ModApart, SizeAssumption
<1> QED
  BY <1>1, <1>2, <1>4, SlotOf

\* A call that works k places after its counter works at ticket k + 1 from there.
LEMMA CounterOfTicket ==
  ASSUME NEW x \in Index, NEW k \in 0 .. Batch, Ticket(x) + k < MaxItems
  PROVE  /\ UAdd(x, k) = CounterOf(Ticket(x) + k + 1)
         /\ Ticket(x) + k + 1 \in 1 .. MaxItems
BY SizeAssumption DEF CounterOf, UAdd, Ticket, USub, Index

-----------------------------------------------------------------------------
(***************************************************************************)
(* Steps                                                                   *)
(***************************************************************************)

\* A step belongs to one thread.
StepOf(t) ==
  \/ t \in Producers /\ Producer(t)
  \/ t \in Consumers /\ Consumer(t)
  \/ t \in Observers /\ (ProbeLoadHead(t) \/ ProbeLoadTail(t))

LEMMA OneThread ==
  ASSUME IndInv, NEW t \in Threads, StepOf(t)
  PROVE  \A u \in Threads \ {t} : pc'[u] = pc[u] /\ reg'[u] = reg[u]
<1>1. CASE t \in Producers /\ Producer(t)
  BY <1>1 DEF IndInv, TypeOK, Producer, PushCall, PushReloadTail, PushLoadHead, PushFail,
    PushCasOk, PushCasFail, PushCopy, PushCount, Goto, Return
<1>2. CASE t \in Consumers /\ Consumer(t)
  BY <1>2 DEF IndInv, TypeOK, Consumer, PopCall, PopReloadHead, PopLoadTail, PopRead,
    PopCasOk, PopCasFail, PopCopy, PopCount, Goto, Return
<1>3. CASE t \in Observers /\ (ProbeLoadHead(t) \/ ProbeLoadTail(t))
  BY <1>3 DEF IndInv, TypeOK, ProbeLoadHead, ProbeLoadTail, Goto, Return
<1> QED
  BY <1>1, <1>2, <1>3 DEF StepOf

\* Neither counter goes back.
LEMMA TicketsGrow ==
  ASSUME IndInv, [Next]_vars
  PROVE  /\ Ticket(head) \in Nat /\ Ticket(tail) \in Nat
         /\ Ticket(head)' \in Nat /\ Ticket(tail)' \in Nat
         /\ Ticket(head) <= Ticket(head)'
         /\ Ticket(tail) <= Ticket(tail)'
<1>1. IndInv'
  BY NextKeeps
<1>2. /\ Ticket(head) \in Nat /\ Ticket(tail) \in Nat
      /\ Ticket(head)' \in Nat /\ Ticket(tail)' \in Nat
  BY <1>1, TicketType DEF IndInv, TypeOK, Index
<1>3. [TQ!Next]_(TQ!vars)
  BY StepRefines
<1> QED
  BY <1>2, <1>3, SizeAssumption DEF TQ!Next, TQ!Claim, TQ!Take, TQ!vars

-----------------------------------------------------------------------------
(***************************************************************************)
(* What a call knows of its count and of head                              *)
(***************************************************************************)

\* A push that is not over asks for something; ring_queue_pop takes one item; the
\* head that a probe has read is not ahead of head.
Knows(t) ==
  /\ t \in Producers /\ pc[t] \in {"push_tail", "push_head", "push_cas"} => reg[t].n >= 1
  /\ t \in Consumers /\ reg[t].op = "pop" => reg[t].n = 1
  /\ t \in Observers /\ pc[t] = "probe_tail" => Ticket(reg[t].pos) <= Ticket(head)

CallsInv == IndInv /\ \A t \in Threads : Knows(t)

LEMMA ProducerKnows ==
  ASSUME IndInv, NEW p \in Producers, Knows(p), Producer(p)
  PROVE  Knows(p)'
<1>1. p \notin Consumers /\ p \notin Observers /\ p \in Threads
  BY ThreadAssumption DEF Threads
<1>2. CASE PushCall(p)
  <2>1. PICK op \in PushOps, count \in 1 .. Batch : reg' = [reg EXCEPT ![p] = Call(op, count, tail)]
    BY <1>2 DEF PushCall
  <2>2. reg'[p].n = count
    BY <1>1, <2>1 DEF IndInv, TypeOK, Call
  <2> QED
    BY <1>1, <2>2 DEF Knows
<1>3. CASE PushReloadTail(p) \/ PushFail(p) \/ PushCasFail(p) \/ PushCount(p)
  BY <1>1, <1>3 DEF Knows, IndInv, TypeOK, Locals, PushReloadTail, PushFail, PushCasFail,
    PushCount, Goto, Return
<1>4. CASE PushLoadHead(p)
  <2>1. IndInv' /\ \A t \in Producers : PushInv(t)'
    BY <1>4, NextKeeps DEF Next, Producer, IndInv
  <2>2. pc'[p] \in {"push_fail", "push_cas"}
    BY <1>1, <1>4 DEF IndInv, TypeOK, PushLoadHead, Goto
  <2>3. pc'[p] = "push_cas" => reg'[p].n >= 1
    BY <2>1 DEF PushInv
  <2> QED
    BY <1>1, <2>2, <2>3 DEF Knows
<1>5. CASE PushCasOk(p) \/ PushCopy(p)
  BY <1>1, <1>5 DEF Knows, IndInv, TypeOK, PushCasOk, PushCopy, Goto
<1> QED
  BY <1>2, <1>3, <1>4, <1>5 DEF Producer

LEMMA ConsumerKnows ==
  ASSUME IndInv, NEW c \in Consumers, Knows(c), Consumer(c)
  PROVE  Knows(c)'
<1>1. c \notin Producers /\ c \notin Observers /\ c \in Threads
  BY ThreadAssumption DEF Threads
<1>2. reg[c].op = "pop" => reg[c].n = 1
  BY DEF Knows
<1>3. SUFFICES reg'[c].op = "pop" => reg'[c].n = 1
  BY <1>1 DEF Knows
<1>4. CASE PopCall(c)
  <2>1. PICK op \in PopOps, count \in 1 .. Batch :
          /\ op = "pop" => count = 1
          /\ reg' = [reg EXCEPT ![c] = Call(op, count, head)]
    BY <1>4 DEF PopCall
  <2>2. reg'[c].op = op /\ reg'[c].n = count
    BY <1>1, <2>1 DEF IndInv, TypeOK, Call
  <2> QED
    BY <2>1, <2>2
<1>5. CASE PopLoadTail(c)
  <2> DEFINE avail == PopAvailable(reg[c].n, reg[c].pos, tail)
  <2>1. avail = 0 \/ reg[c].op = "pop" => avail \in {0, 1}
    <3>1. reg[c].pos \in Index /\ tail \in Index
      BY <1>1 DEF IndInv, TypeOK, Locals
    <3>2. USub(tail, reg[c].pos) \in Nat
      BY <3>1, USubType DEF Index
    <3> QED
      BY <1>2, <3>2 DEF PopAvailable
  <2> HIDE DEF avail
  <2>2. CASE avail = 0
    BY <1>1, <1>5, <2>2 DEF IndInv, TypeOK, PopLoadTail, Return, NoCall, Call, avail
  <2>3. CASE avail # 0
    <3>1. reg' = [reg EXCEPT ![c].n = avail]
      BY <1>5, <2>3 DEF PopLoadTail, avail
    <3>2. reg'[c].op = reg[c].op /\ reg'[c].n = avail
      BY <1>1, <3>1 DEF IndInv, TypeOK, Locals
    <3> QED
      BY <2>1, <2>3, <3>2
  <2> QED
    BY <2>2, <2>3
<1>6. CASE PopReloadHead(c) \/ PopRead(c) \/ PopCasOk(c) \/ PopCopy(c)
  BY <1>1, <1>2, <1>6 DEF IndInv, TypeOK, Locals, PopReloadHead, PopRead, PopCasOk, PopCopy
<1>7. CASE PopCasFail(c) \/ PopCount(c)
  BY <1>1, <1>2, <1>7 DEF IndInv, TypeOK, Locals, PopCasFail, PopCount, Return, NoCall, Call
<1> QED
  BY <1>4, <1>5, <1>6, <1>7 DEF Consumer

LEMMA ObserverKnows ==
  ASSUME IndInv, NEW o \in Observers, ProbeLoadHead(o) \/ ProbeLoadTail(o)
  PROVE  Knows(o)'
<1>1. o \notin Producers /\ o \notin Consumers /\ o \in Threads
  BY ThreadAssumption DEF Threads
<1>2. CASE ProbeLoadHead(o)
  <2>1. reg'[o].pos = head /\ UNCHANGED head
    BY <1>1, <1>2 DEF IndInv, TypeOK, ProbeLoadHead, Call
  <2>2. Ticket(head) \in Nat
    BY TicketType DEF IndInv, TypeOK, Index
  <2> QED
    BY <1>1, <2>1, <2>2 DEF Knows, Ticket
<1>3. CASE ProbeLoadTail(o)
  BY <1>1, <1>3 DEF IndInv, TypeOK, Knows, ProbeLoadTail, Return
<1> QED
  BY <1>2, <1>3

LEMMA CallsInit == Init => CallsInv
<1> SUFFICES ASSUME Init PROVE \A t \in Threads : Knows(t)
  BY InitIndInv DEF CallsInv
<1> QED
  BY DEF Init, Knows, NoCall, Call

LEMMA CallsKeep == CallsInv /\ [Next]_vars => CallsInv'
<1> SUFFICES ASSUME CallsInv, [Next]_vars PROVE CallsInv'
  OBVIOUS
<1>1. IndInv'
  BY NextKeeps DEF CallsInv
<1>2. CASE UNCHANGED vars
  BY <1>1, <1>2 DEF CallsInv, Knows, vars, Ticket
<1>3. ASSUME NEW t \in Threads, StepOf(t) PROVE \A u \in Threads : Knows(u)'
  <2>1. Knows(t)'
    BY <1>3, ProducerKnows, ConsumerKnows, ObserverKnows DEF CallsInv, StepOf
  <2>2. ASSUME NEW u \in Threads \ {t} PROVE Knows(u)'
    <3>1. pc'[u] = pc[u] /\ reg'[u] = reg[u] /\ Knows(u)
      BY <1>3, OneThread DEF CallsInv
    <3>2. Ticket(reg[u].pos) \in Nat
      <4>1. reg[u].pos \in Index
        BY DEF CallsInv, IndInv, TypeOK, Locals
      <4> QED
        BY <4>1, TicketType DEF Index
    <3>3. Ticket(reg[u].pos)' = Ticket(reg[u].pos)
      BY <3>1 DEF Ticket
    <3> QED
      BY <3>1, <3>2, <3>3, TicketsGrow DEF Knows, CallsInv
  <2> QED
    BY <2>1, <2>2
<1> QED
  BY <1>1, <1>2, <1>3 DEF CallsInv, Next, StepOf, Threads

\* What calls know holds together with IndInv.
THEOREM CallsInvariance == Spec => []CallsInv
BY CallsInit, CallsKeep, PTL DEF Spec

\* ring_queue_empty, ring_queue_full and ring_queue_size err in one direction only,
\* for any number of threads (ring_queue.c:23-51): head, loaded first, can only be
\* too old.
THEOREM ProbesSafe == Spec => ProbesErrOneWay
<1> DEFINE Safe(o) ==
      pc[o] = "probe_tail" /\ pc'[o] = "idle"
        => LET h == reg[o].pos IN
           /\ AnswerEmpty(h, tail) => tail = head
           /\ ~AnswerFull(h, tail) => USub(tail, head) < Size
           /\ AnswerSize(h, tail) >= USub(tail, head)
<1>1. CallsInv => \A o \in Observers : Safe(o)
  <2> SUFFICES ASSUME CallsInv, NEW o \in Observers, pc[o] = "probe_tail"
               PROVE  LET h == reg[o].pos IN
                      /\ AnswerEmpty(h, tail) => tail = head
                      /\ ~AnswerFull(h, tail) => USub(tail, head) < Size
                      /\ AnswerSize(h, tail) >= USub(tail, head)
    OBVIOUS
  <2> DEFINE h == reg[o].pos
  <2>1. h \in Index /\ head \in Index /\ tail \in Index
    BY DEF CallsInv, IndInv, TypeOK, Locals, Threads
  <2> HIDE DEF h
  <2>2. /\ Ticket(h) \in Nat /\ Ticket(head) \in Nat /\ Ticket(tail) \in Nat
        /\ Ticket(h) <= Ticket(head) /\ Ticket(head) <= Ticket(tail)
    BY <2>1, TicketType DEF CallsInv, IndInv, CounterInv, Knows, Threads, Index, h
  <2>3. USub(tail, h) = Ticket(tail) - Ticket(h) /\ USub(tail, head) = Ticket(tail) - Ticket(head)
    BY <2>1, <2>2, Distance
  <2>4. h = tail => tail = head
    BY <2>1, <2>2, TicketInjective
  <2> QED
    BY <2>2, <2>3, <2>4, SizeAssumption DEF AnswerEmpty, AnswerFull, AnswerSize, h
<1>2. CallsInv => [\A o \in Observers : Safe(o)]_vars
  BY <1>1
<1> QED
  BY <1>2, CallsInvariance, PTL DEF ProbesErrOneWay

-----------------------------------------------------------------------------
(***************************************************************************)
(* Every ticket is delivered once                                          *)
(***************************************************************************)

\* Where a pop's swap takes head.
LEMMA PopCasMoves ==
  ASSUME IndInv, NEW c \in Consumers, PopCasOk(c)
  PROVE  /\ reg[c].n \in 1 .. Batch
         /\ head = reg[c].pos
         /\ Ticket(head) \in Nat
         /\ Ticket(head)' = Ticket(head) + reg[c].n
         /\ Ticket(head) + reg[c].n <= Ticket(tail)
         /\ Ticket(tail) \in Nat /\ Ticket(tail) <= MaxItems
<1>1. /\ reg[c].n \in 0 .. Batch /\ head \in Index /\ tail \in Index
      /\ head = reg[c].pos /\ pc[c] = "pop_cas" /\ PopInv(c)
      /\ head' = UAdd(head, reg[c].n)
  BY DEF IndInv, TypeOK, Locals, Threads, PopCasOk
<1>2. Ticket(head) \in Nat /\ Ticket(tail) \in Nat /\ Ticket(tail) <= MaxItems
  BY <1>1, TicketType DEF IndInv, CounterInv, Index
<1>3. reg[c].n >= 1 /\ Ticket(head) + reg[c].n <= Ticket(tail)
  BY <1>1 DEF PopInv
<1>4. Ticket(head) + reg[c].n < Modulus
  BY <1>1, <1>2, <1>3, SizeAssumption
<1>5. Ticket(UAdd(head, reg[c].n)) = Ticket(head) + reg[c].n
  BY <1>1, <1>4, TicketAdd
<1>6. Ticket(head)' = Ticket(head) + reg[c].n
  BY <1>1, <1>5 DEF Ticket
<1> QED
  BY <1>1, <1>2, <1>3, <1>6, SizeAssumption

\* Only the swap of a batch pop and its copies change what is being read.
LEMMA ReadingKept ==
  ASSUME IndInv, IndInv', NEW t \in Threads, StepOf(t), NEW c \in Consumers,
         c = t => pc[c] # "pop_copy" /\ pc'[c] # "pop_copy"
  PROVE  Reading(c)' = Reading(c)
<1>1. CASE c = t
  <2>1. reg[c].todo = {} /\ reg'[c].todo = {}
    BY <1>1 DEF IndInv, PopInv
  <2> QED
    BY <2>1 DEF Reading
<1>2. CASE c # t
  <2>1. reg'[c] = reg[c]
    BY <1>2, OneThread DEF Threads
  <2> QED
    BY <2>1 DEF Reading, Ticket
<1> QED
  BY <1>1, <1>2

LEMMA DeliveredInit == Init => DeliveredExactly
<1> SUFFICES ASSUME Init, NEW i \in 1 .. MaxItems PROVE popped[i] = NotYet /\ ~(i <= Ticket(head))
  BY DEF DeliveredExactly
<1>1. Ticket(head) = 0
  BY SizeAssumption DEF Init, Ticket, USub
<1> QED
  BY <1>1 DEF Init

\* The swap of a pop passes its tickets and delivers the item of ring_queue_pop.
LEMMA DeliveredPopCas ==
  ASSUME CallsInv, IndInv', DeliveredExactly, NEW c \in Consumers, PopCasOk(c)
  PROVE  DeliveredExactly'
<1> DEFINE n == reg[c].n
           h == Ticket(head)
<1>1. /\ n \in 1 .. Batch /\ head = reg[c].pos /\ h \in Nat
      /\ Ticket(head)' = h + n /\ h + n <= MaxItems
  BY PopCasMoves, SizeAssumption DEF CallsInv
<1>2. reg[c].todo = {}
  BY DEF CallsInv, IndInv, PopInv, PopCasOk
<1>3. Reading(c) = {} /\ c \in Threads /\ StepOf(c)
  BY <1>2 DEF Reading, StepOf, Threads, Consumer
<1>4. \A d \in Consumers \ {c} : Reading(d)' = Reading(d)
  BY <1>3, ReadingKept DEF CallsInv
<1>5. \A d \in Consumers : \A i \in Reading(d) : i \in 1 .. h
  <2>1. TicketsOwnedOnce
    BY OwnedOnceNow DEF CallsInv
  <2> QED
    BY <2>1 DEF TicketsOwnedOnce
<1>6. popped \in [1 .. MaxItems -> NotYet .. MaxItems]
  BY DEF CallsInv, IndInv, TypeOK
<1>7. CASE reg[c].op = "pop"
  <2>1. n = 1
    BY <1>3, <1>7 DEF CallsInv, Knows
  <2>2. popped' = [popped EXCEPT ![h + 1] = reg[c].item] /\ reg' = reg
    BY <1>1, <1>7 DEF PopCasOk
  <2>3. reg[c].item \in Nat
    BY <1>3 DEF CallsInv, IndInv, TypeOK, Locals
  <2>4. Reading(c)' = {}
    BY <1>2, <2>2 DEF Reading
  <2> HIDE DEF n, h
  <2>5. ASSUME NEW i \in 1 .. MaxItems
        PROVE  popped'[i] # NotYet <=> i <= h + 1 /\ \A d \in Consumers : i \notin Reading(d)
    <3>1. CASE i = h + 1
      BY <1>1, <1>5, <1>6, <2>2, <2>3, <3>1, SizeAssumption DEF NotYet
    <3>2. CASE i # h + 1
      <4>1. popped'[i] = popped[i]
        BY <1>6, <2>2, <3>2
      <4>2. i <= h + 1 <=> i <= h
        BY <1>1, <3>2
      <4> QED
        BY <4>1, <4>2 DEF DeliveredExactly, h
    <3> QED
      BY <3>1, <3>2
  <2> QED
    BY <1>1, <1>3, <1>4, <2>1, <2>4, <2>5 DEF DeliveredExactly, h
<1>8. CASE reg[c].op = "pop_batch"
  <2>1. UNCHANGED popped /\ reg' = [reg EXCEPT ![c].todo = 0 .. n - 1]
    BY <1>8 DEF PopCasOk
  <2>2. reg'[c].todo = 0 .. n - 1 /\ reg'[c].pos = head
    BY <1>1, <1>3, <2>1 DEF CallsInv, IndInv, TypeOK, Locals
  <2>3. Reading(c)' = h + 1 .. h + n
    <3>1. Ticket(reg[c].pos)' = h
      BY <2>2 DEF Ticket
    <3>2. Reading(c)' = {h + k + 1 : k \in 0 .. n - 1}
      BY <2>2, <3>1 DEF Reading
    <3> HIDE DEF n, h
    <3>3. \A i \in h + 1 .. h + n : i - h - 1 \in 0 .. n - 1 /\ i = h + (i - h - 1) + 1
      BY <1>1
    <3>4. \A k \in 0 .. n - 1 : h + k + 1 \in h + 1 .. h + n
      BY <1>1
    <3> QED
      BY <3>2, <3>3, <3>4
  <2> HIDE DEF n, h
  <2>4. ASSUME NEW i \in 1 .. MaxItems
        PROVE  popped'[i] # NotYet <=> i <= h + n /\ \A d \in Consumers : i \notin Reading(d)'
    <3>1. CASE i \in h + 1 .. h + n
      <4>1. popped[i] = NotYet
        BY <1>1, <3>1 DEF DeliveredExactly, h
      <4> QED
        BY <2>1, <2>3, <3>1, <4>1
    <3>2. CASE i \notin h + 1 .. h + n
      <4>1. i <= h + n <=> i <= h
        BY <1>1, <3>2
      <4>2. i \notin Reading(c) /\ i \notin Reading(c)'
        BY <1>3, <2>3, <3>2
      <4> QED
        BY <1>4, <2>1, <4>1, <4>2 DEF DeliveredExactly, h
    <3> QED
      BY <3>1, <3>2
  <2> QED
    BY <1>1, <2>4 DEF DeliveredExactly
<1> QED
  BY <1>7, <1>8 DEF PopCasOk

\* What a batch pop copies next.
LEMMA PopCopyMoves ==
  ASSUME IndInv, NEW c \in Consumers, PopCopy(c)
  PROVE  \E k \in reg[c].todo :
           /\ k \in 0 .. Batch
           /\ Ticket(reg[c].pos) \in Nat
           /\ Ticket(reg[c].pos) + k + 1 \in 1 .. Ticket(head)
           /\ Ticket(reg[c].pos) + k < MaxItems
           /\ buffer[Slot(UAdd(reg[c].pos, k))] \in 0 .. MaxItems
           /\ popped' = [popped EXCEPT ![Ticket(reg[c].pos) + 1 + k] =
                                         buffer[Slot(UAdd(reg[c].pos, k))]]
           /\ reg' = [reg EXCEPT ![c].todo = @ \ {k}]
           /\ UNCHANGED <<head, tail, buffer>>
<1>1. PICK k \in reg[c].todo :
        /\ popped' = [popped EXCEPT ![Ticket(reg[c].pos) + 1 + k] =
                                      buffer[Slot(UAdd(reg[c].pos, k))]]
        /\ reg' = [reg EXCEPT ![c].todo = @ \ {k}]
        /\ UNCHANGED <<head, tail, buffer>>
  BY DEF PopCopy
<1>2. pc[c] = "pop_copy" /\ PopInv(c) /\ reg[c] \in Locals
  BY DEF IndInv, TypeOK, Threads, PopCopy
<1>3. /\ k \in 0 .. reg[c].n - 1 /\ reg[c].n \in 0 .. Batch
      /\ Ticket(reg[c].pos) + reg[c].n <= Ticket(head)
      /\ reg[c].pos \in Index
  BY <1>1, <1>2 DEF PopInv, Locals
<1>4. /\ Ticket(reg[c].pos) \in Nat /\ Ticket(head) \in Nat /\ Ticket(tail) \in Nat
      /\ Ticket(head) <= Ticket(tail) /\ Ticket(tail) <= MaxItems
  BY <1>3, TicketType DEF IndInv, TypeOK, CounterInv, Index
<1>5. k \in 0 .. Batch /\ Ticket(reg[c].pos) + k + 1 \in 1 .. Ticket(head)
      /\ Ticket(reg[c].pos) + k < MaxItems
  BY <1>3, <1>4, SizeAssumption
<1>6. buffer[Slot(UAdd(reg[c].pos, k))] \in 0 .. MaxItems
  BY <1>3, <1>5, UAddType, SlotType DEF IndInv, TypeOK
<1> QED
  BY <1>1, <1>4, <1>5, <1>6

\* A copy delivers one ticket that head has passed.
LEMMA DeliveredPopCopy ==
  ASSUME IndInv, IndInv', DeliveredExactly, NEW c \in Consumers, PopCopy(c)
  PROVE  DeliveredExactly'
<1>1. PICK k \in reg[c].todo :
        /\ Ticket(reg[c].pos) \in Nat
        /\ Ticket(reg[c].pos) + k + 1 \in 1 .. Ticket(head)
        /\ k \in 0 .. Batch
        /\ buffer[Slot(UAdd(reg[c].pos, k))] \in 0 .. MaxItems
        /\ popped' = [popped EXCEPT ![Ticket(reg[c].pos) + 1 + k] =
                                      buffer[Slot(UAdd(reg[c].pos, k))]]
        /\ reg' = [reg EXCEPT ![c].todo = @ \ {k}]
        /\ UNCHANGED head
  BY PopCopyMoves
<1>2. PICK j \in Nat : j = Ticket(reg[c].pos) + k + 1
  BY <1>1
<1>3. PICK x \in 0 .. MaxItems : x = buffer[Slot(UAdd(reg[c].pos, k))]
  BY <1>1
<1>4. popped' = [popped EXCEPT ![j] = x] /\ Ticket(head)' = Ticket(head) /\ j \in 1 .. Ticket(head)
  <2>1. Ticket(reg[c].pos) + 1 + k = j
    BY <1>1, <1>2
  <2>2. popped' = [popped EXCEPT ![j] = x]
    BY <1>1, <1>3, <2>1
  <2> QED
    BY <1>1, <1>2, <2>2 DEF Ticket
<1>5. popped \in [1 .. MaxItems -> NotYet .. MaxItems]
  BY DEF IndInv, TypeOK
<1>6. Reading(c)' = Reading(c) \ {j} /\ j \in Reading(c)
  <2>1. reg'[c].todo = reg[c].todo \ {k} /\ reg'[c].pos = reg[c].pos
    BY <1>1 DEF IndInv, TypeOK, Locals, Threads
  <2>2. Ticket(reg[c].pos)' = Ticket(reg[c].pos)
    BY <2>1 DEF Ticket
  <2>3. reg[c].todo \subseteq Int
    BY SizeAssumption DEF IndInv, TypeOK, Locals, Threads
  <2>4. Reading(c)' = {Ticket(reg[c].pos) + l + 1 : l \in reg[c].todo \ {k}}
    BY <2>1, <2>2 DEF Reading
  <2>5. \A l \in reg[c].todo : Ticket(reg[c].pos) + l + 1 = j <=> l = k
    BY <1>1, <1>2, <2>3
  <2> QED
    BY <1>1, <1>2, <2>4, <2>5 DEF Reading
<1>7. \A d \in Consumers \ {c} : Reading(d)' = Reading(d) /\ j \notin Reading(d)
  <2>1. StepOf(c) /\ c \in Threads
    BY DEF StepOf, Consumer, Threads
  <2>2. TicketsOwnedOnce
    BY OwnedOnceNow
  <2> QED
    BY <1>6, <2>1, <2>2, ReadingKept DEF TicketsOwnedOnce
<1>8. ASSUME NEW i \in 1 .. MaxItems
      PROVE  popped'[i] # NotYet <=> i <= Ticket(head) /\ \A d \in Consumers : i \notin Reading(d)'
  <2>1. CASE i = j
    <3>1. popped'[i] = x /\ x # NotYet
      BY <1>4, <1>5, <2>1 DEF NotYet
    <3>2. \A d \in Consumers : i \notin Reading(d)'
      BY <1>6, <1>7, <2>1
    <3>3. i <= Ticket(head)
      BY <1>4, <2>1
    <3> QED
      BY <3>1, <3>2, <3>3
  <2>2. CASE i # j
    <3>1. popped'[i] = popped[i]
      BY <1>4, <1>5, <2>2
    <3>2. \A d \in Consumers : i \in Reading(d)' <=> i \in Reading(d)
      BY <1>6, <1>7, <2>2
    <3> QED
      BY <3>1, <3>2 DEF DeliveredExactly
  <2> QED
    BY <2>1, <2>2
<1> QED
  BY <1>4, <1>8 DEF DeliveredExactly

LEMMA DeliveredKeep ==
  ASSUME CallsInv, DeliveredExactly, [Next]_vars
  PROVE  DeliveredExactly'
<1>1. IndInv /\ IndInv'
  BY NextKeeps DEF CallsInv
<1>2. CASE UNCHANGED vars
  BY <1>2 DEF vars, DeliveredExactly, Reading, Ticket
<1>3. ASSUME NEW t \in Threads, StepOf(t) PROVE DeliveredExactly'
  <2>1. CASE t \in Consumers /\ PopCasOk(t)
    BY <1>1, <2>1, DeliveredPopCas
  <2>2. CASE t \in Consumers /\ PopCopy(t)
    BY <1>1, <2>2, DeliveredPopCopy
  <2>3. CASE ~(t \in Consumers /\ (PopCasOk(t) \/ PopCopy(t)))
    <3>1. UNCHANGED <<head, popped>>
      BY <1>3, <2>3 DEF StepOf, Producer, PushCall, PushReloadTail, PushLoadHead, PushFail,
        PushCasOk, PushCasFail, PushCopy, PushCount, Consumer, PopCall, PopReloadHead,
        PopLoadTail, PopRead, PopCasFail, PopCount, ProbeLoadHead, ProbeLoadTail
    <3>2. t \in Consumers => pc[t] # "pop_copy" /\ pc'[t] # "pop_copy"
      BY <1>1, <1>3, <2>3, ThreadAssumption DEF IndInv, TypeOK, StepOf, Consumer, PopCall,
        PopReloadHead, PopLoadTail, PopRead, PopCasFail, PopCount, Goto, Return
    <3>3. \A c \in Consumers : Reading(c)' = Reading(c)
      BY <1>1, <1>3, <3>2, ReadingKept
    <3> QED
      BY <3>1, <3>3 DEF DeliveredExactly, Ticket
  <2> QED
    BY <2>1, <2>2, <2>3
<1> QED
  BY <1>2, <1>3 DEF Next, StepOf, Threads

\* Pops deliver a ticket when head has passed it and its copy is done, none of them
\* twice and none that was not claimed, for any number of consumers
\* (ring_queue.c:85-109, 159-203).
THEOREM TicketsDelivered == Spec => []DeliveredExactly
<1>1. Init => DeliveredExactly
  BY DeliveredInit
<1>2. CallsInv /\ DeliveredExactly /\ [Next]_vars => DeliveredExactly'
  BY DeliveredKeep
<1> QED
  BY <1>1, <1>2, CallsInvariance, PTL DEF Spec

-----------------------------------------------------------------------------
(***************************************************************************)
(* ring_queue_pop never returns an item of a later lap                     *)
(***************************************************************************)

\* What lies in a slot was pushed for that slot, and its ticket was given out.
SlotsInv ==
  \A s \in 0 .. Size - 1 :
    buffer[s] # 0 => buffer[s] <= Ticket(tail) /\ Slot(CounterOf(buffer[s])) = s

\* While head has not moved, the item that ring_queue_pop has read is not newer
\* than the ticket it is about to take.
ReadInv(c) ==
  pc[c] = "pop_cas" /\ reg[c].op = "pop" /\ head = reg[c].pos
    => reg[c].item <= Ticket(head) + 1

ItemsInv == CallsInv /\ SlotsInv /\ \A c \in Consumers : ReadInv(c)

\* The slot of a ticket of this lap holds nothing newer.
LEMMA NothingNewer ==
  ASSUME IndInv, SlotsInv, NEW i \in 1 .. MaxItems, Ticket(tail) < i + Size
  PROVE  buffer[Slot(CounterOf(i))] <= i
<1>1. CounterOf(i) \in Index
  BY SizeAssumption DEF CounterOf, UAdd, Index
<1>2. PICK s \in 0 .. Size - 1 : s = Slot(CounterOf(i))
  BY <1>1, SlotType
<1>3. PICK b \in 0 .. MaxItems : b = buffer[s]
  BY DEF IndInv, TypeOK
<1>4. Ticket(tail) \in Nat
  BY TicketType DEF IndInv, TypeOK, Index
<1>5. b # 0 => b <= Ticket(tail) /\ Slot(CounterOf(b)) = s
  BY <1>3 DEF SlotsInv
<1>6. ASSUME b > i PROVE FALSE
  <2>1. b \in 1 .. MaxItems /\ i < b /\ b < i + Size
    BY <1>4, <1>5, <1>6, SizeAssumption
  <2>2. Slot(CounterOf(i)) # Slot(CounterOf(b))
    BY <2>1, SlotsApart
  <2> QED
    BY <1>2, <1>5, <2>1, <2>2
<1> QED
  BY <1>2, <1>3, <1>6, SizeAssumption

\* What a push writes, and where.
LEMMA PushCopyMoves ==
  ASSUME IndInv, NEW p \in Producers, PushCopy(p)
  PROVE  \E k \in reg[p].todo :
           /\ k \in 0 .. reg[p].n - 1
           /\ Ticket(reg[p].pos) \in Nat
           /\ Ticket(reg[p].pos) + k + 1 \in 1 .. Ticket(tail)
           /\ Ticket(reg[p].pos) + k + 1 \in 1 .. MaxItems
           /\ buffer' = [buffer EXCEPT ![Slot(CounterOf(Ticket(reg[p].pos) + k + 1))] =
                                         Ticket(reg[p].pos) + k + 1]
           /\ Slot(CounterOf(Ticket(reg[p].pos) + k + 1)) \in 0 .. Size - 1
           /\ reg' = [reg EXCEPT ![p].todo = @ \ {k}]
           /\ UNCHANGED <<head, tail>>
<1>1. PICK k \in reg[p].todo :
        /\ buffer' = [buffer EXCEPT ![Slot(UAdd(reg[p].pos, k))] = Ticket(reg[p].pos) + k + 1]
        /\ reg' = [reg EXCEPT ![p].todo = @ \ {k}]
        /\ UNCHANGED <<head, tail>>
  BY DEF PushCopy
<1>2. pc[p] = "push_copy" /\ PushInv(p) /\ reg[p] \in Locals
  BY DEF IndInv, TypeOK, Threads, PushCopy
<1>3. /\ k \in 0 .. reg[p].n - 1 /\ reg[p].n \in 0 .. Batch
      /\ Ticket(reg[p].pos) + reg[p].n <= Ticket(tail)
      /\ reg[p].pos \in Index
  BY <1>1, <1>2 DEF PushInv, Locals
<1>4. Ticket(reg[p].pos) \in Nat /\ Ticket(tail) \in Nat /\ Ticket(tail) <= MaxItems
  BY <1>3, TicketType DEF IndInv, TypeOK, CounterInv, Index
<1>5. /\ k \in 0 .. Batch /\ Ticket(reg[p].pos) + k + 1 \in 1 .. Ticket(tail)
      /\ Ticket(reg[p].pos) + k < MaxItems
  BY <1>3, <1>4, SizeAssumption
<1>6. /\ UAdd(reg[p].pos, k) = CounterOf(Ticket(reg[p].pos) + k + 1)
      /\ Ticket(reg[p].pos) + k + 1 \in 1 .. MaxItems
  BY <1>3, <1>5, CounterOfTicket
<1>7. Slot(UAdd(reg[p].pos, k)) \in 0 .. Size - 1
  BY <1>3, <1>5, UAddType, SlotType
<1> QED
  BY <1>1, <1>3, <1>4, <1>5, <1>6, <1>7

\* Only a push's copy writes to slots.
LEMMA OnlyCopiesWrite ==
  ASSUME NEW t \in Threads, StepOf(t), ~(t \in Producers /\ PushCopy(t))
  PROVE  UNCHANGED buffer
BY DEF StepOf, Producer, PushCall, PushReloadTail, PushLoadHead, PushFail, PushCasOk,
  PushCasFail, PushCount, Consumer, PopCall, PopReloadHead, PopLoadTail, PopRead, PopCasOk,
  PopCasFail, PopCopy, PopCount, ProbeLoadHead, ProbeLoadTail

LEMMA SlotsKeep ==
  ASSUME IndInv, SlotsInv, NEW t \in Threads, StepOf(t),
         Ticket(tail) <= Ticket(tail)', Ticket(tail) \in Nat, Ticket(tail)' \in Nat
  PROVE  SlotsInv'
<1>1. CASE t \in Producers /\ PushCopy(t)
  <2>1. PICK k \in reg[t].todo :
          /\ Ticket(reg[t].pos) + k + 1 \in 1 .. Ticket(tail)
          /\ buffer' = [buffer EXCEPT ![Slot(CounterOf(Ticket(reg[t].pos) + k + 1))] =
                                        Ticket(reg[t].pos) + k + 1]
    BY <1>1, PushCopyMoves
  <2>2. PICK j \in 1 .. Ticket(tail) : j = Ticket(reg[t].pos) + k + 1
    BY <2>1
  <2>3. buffer' = [buffer EXCEPT ![Slot(CounterOf(j))] = j]
    BY <2>1, <2>2
  <2>4. ASSUME NEW s \in 0 .. Size - 1, buffer'[s] # 0
        PROVE  buffer'[s] <= Ticket(tail)' /\ Slot(CounterOf(buffer'[s])) = s
    <3>1. CASE s = Slot(CounterOf(j))
      BY <2>3, <3>1 DEF IndInv, TypeOK
    <3>2. CASE s # Slot(CounterOf(j))
      <4>1. buffer'[s] = buffer[s] /\ buffer[s] \in 0 .. MaxItems
        BY <2>3, <3>2 DEF IndInv, TypeOK
      <4>2. buffer[s] <= Ticket(tail) /\ Slot(CounterOf(buffer[s])) = s
        BY <2>4, <4>1 DEF SlotsInv
      <4> QED
        BY <4>1, <4>2, SizeAssumption
    <3> QED
      BY <3>1, <3>2
  <2> QED
    BY <2>4 DEF SlotsInv, Slot, CounterOf, UAdd
<1>2. CASE ~(t \in Producers /\ PushCopy(t))
  <2>1. buffer' = buffer
    BY <1>2, OnlyCopiesWrite
  <2>2. \A s \in 0 .. Size - 1 : buffer[s] \in 0 .. MaxItems
    BY DEF IndInv, TypeOK
  <2>3. ASSUME NEW s \in 0 .. Size - 1, buffer[s] # 0
        PROVE  buffer[s] <= Ticket(tail)' /\ Slot(CounterOf(buffer[s])) = s
    <3>1. buffer[s] <= Ticket(tail) /\ Slot(CounterOf(buffer[s])) = s
      BY <2>3 DEF SlotsInv
    <3> QED
      BY <2>2, <3>1, SizeAssumption
  <2> QED
    BY <2>1, <2>3 DEF SlotsInv, Slot, CounterOf, UAdd
<1> QED
  BY <1>1, <1>2

\* The read of ring_queue_pop, made before its swap.
LEMMA ReadHolds ==
  ASSUME IndInv, SlotsInv, NEW c \in Consumers, PopRead(c)
  PROVE  ReadInv(c)'
<1>1. reg'[c].pos = reg[c].pos /\ UNCHANGED head
  BY DEF IndInv, TypeOK, Locals, Threads, PopRead
<1>2. SUFFICES ASSUME head = reg[c].pos PROVE reg'[c].item <= Ticket(head) + 1
  BY <1>1 DEF ReadInv, Ticket
<1>3. pc[c] = "pop_read" /\ PopInv(c) /\ reg[c] \in Locals
  BY DEF IndInv, TypeOK, Threads, PopRead
<1>4. /\ Ticket(head) \in Nat /\ Ticket(tail) \in Nat /\ head \in Index
      /\ Ticket(head) + 1 <= Ticket(tail) /\ Ticket(tail) <= MaxItems
      /\ Ticket(tail) <= Ticket(head) + Size
  BY <1>2, <1>3, TicketType DEF PopInv, Locals, IndInv, TypeOK, CounterInv, Index
<1>5. PICK i \in 1 .. MaxItems : i = Ticket(head) + 1
  BY <1>4, SizeAssumption
<1>6. CounterOf(i) = head
  <2>1. UAdd(head, 0) = CounterOf(Ticket(head) + 0 + 1)
    BY <1>4, CounterOfTicket, SizeAssumption
  <2>2. UAdd(head, 0) = head
    BY <1>4, SizeAssumption DEF UAdd, Index
  <2> QED
    BY <1>4, <1>5, <2>1, <2>2
<1>7. buffer[Slot(CounterOf(i))] <= i
  BY <1>4, <1>5, NothingNewer, SizeAssumption
<1>8. reg'[c].item = buffer[Slot(head)]
  BY <1>2 DEF IndInv, TypeOK, Locals, Threads, PopRead
<1>9. reg'[c].item <= i
  BY <1>6, <1>7, <1>8
<1> QED
  BY <1>5, <1>9

\* Steps of anybody else: head may pass the pop, which then fails its swap.
LEMMA ReadStays ==
  ASSUME IndInv, IndInv', NEW c \in Consumers, ReadInv(c),
         pc'[c] = pc[c], reg'[c] = reg[c], Ticket(head) <= Ticket(head)'
  PROVE  ReadInv(c)'
<1> SUFFICES ASSUME pc[c] = "pop_cas", reg[c].op = "pop", head' = reg[c].pos
             PROVE  reg[c].item <= Ticket(head)' + 1
  BY DEF ReadInv
<1>1. /\ Ticket(head) \in Nat /\ head \in Index /\ head' \in Index
      /\ reg[c].item \in 0 .. MaxItems
  BY TicketType DEF IndInv, TypeOK, Index, Locals, Threads
<1>2. Ticket(reg[c].pos) <= Ticket(head)
  BY DEF IndInv, PopInv
<1>3. Ticket(head') = Ticket(head) /\ Ticket(head)' = Ticket(head')
  <2>1. Ticket(head)' = Ticket(head')
    BY DEF Ticket
  <2>2. Ticket(head') <= Ticket(head) /\ Ticket(head') \in Nat
    BY <1>1, <1>2, TicketType DEF Index
  <2> QED
    BY <1>1, <2>1, <2>2
<1>4. head = reg[c].pos
  BY <1>1, <1>3, TicketInjective
<1> QED
  BY <1>1, <1>3, <1>4 DEF ReadInv

LEMMA ItemsInit == Init => ItemsInv
<1>1. Init => SlotsInv
  BY DEF Init, SlotsInv
<1>2. Init => \A c \in Consumers : ReadInv(c)
  BY DEF Init, ReadInv, Threads
<1> QED
  BY <1>1, <1>2, CallsInit DEF ItemsInv

LEMMA ItemsKeep == ItemsInv /\ [Next]_vars => ItemsInv'
<1> SUFFICES ASSUME ItemsInv, [Next]_vars PROVE ItemsInv'
  OBVIOUS
<1>1. IndInv /\ IndInv' /\ CallsInv'
  BY NextKeeps, CallsKeep DEF ItemsInv, CallsInv
<1>2. CASE UNCHANGED vars
  BY <1>1, <1>2 DEF vars, ItemsInv, SlotsInv, ReadInv, Ticket, Slot, CounterOf, UAdd
<1>3. ASSUME NEW t \in Threads, StepOf(t) PROVE SlotsInv' /\ \A c \in Consumers : ReadInv(c)'
  <2>1. SlotsInv'
    BY <1>1, <1>3, SlotsKeep, TicketsGrow DEF ItemsInv
  <2>2. ASSUME NEW c \in Consumers PROVE ReadInv(c)'
    <3>1. CASE c # t
      BY <1>1, <1>3, <3>1, ReadStays, OneThread, TicketsGrow DEF ItemsInv, Threads
    <3>2. CASE c = t /\ PopRead(c)
      <4>1. SlotsInv /\ PopRead(c)
        BY <3>2 DEF ItemsInv
      <4> QED
        BY <1>1, <4>1, ReadHolds
    <3>3. CASE c = t /\ PopLoadTail(c)
      <4>1. reg'[c].op = "pop" => pc'[c] # "pop_cas"
        BY <1>1, <3>3 DEF IndInv, TypeOK, Locals, Threads, PopLoadTail, Goto, Return
      <4> QED
        BY <4>1 DEF ReadInv
    <3>4. CASE c = t /\ ~PopRead(c) /\ ~PopLoadTail(c)
      <4>1. pc'[c] # "pop_cas"
        BY <1>1, <1>3, <3>4, ThreadAssumption DEF IndInv, TypeOK, StepOf, Consumer, PopCall,
          PopReloadHead, PopCasOk, PopCasFail, PopCopy, PopCount, Goto, Return, Threads
      <4> QED
        BY <4>1 DEF ReadInv
    <3> QED
      BY <3>1, <3>2, <3>3, <3>4
  <2> QED
    BY <2>1, <2>2
<1> QED
  BY <1>1, <1>2, <1>3 DEF ItemsInv, Next, StepOf, Threads

\* ItemsInv holds in every behaviour.
THEOREM ItemsInvariance == Spec => []ItemsInv
BY ItemsInit, ItemsKeep, PTL DEF Spec

\* ring_queue_pop, which reads before it advances head (ring_queue.c:99-106), never
\* returns an item of a later lap; only a copy of ring_queue_pop_batch may.
THEOREM PopNotLapped == Spec => OnlyBatchLapped
<1> DEFINE Kept ==
      \A i \in 1 .. MaxItems :
        popped[i] <= i /\ popped'[i] > i => \E c \in Consumers : i \in Reading(c)
<1>1. ItemsInv /\ [Next]_vars => Kept
  <2> SUFFICES ASSUME ItemsInv, [Next]_vars, NEW i \in 1 .. MaxItems,
                      popped[i] <= i, popped'[i] > i
               PROVE  \E c \in Consumers : i \in Reading(c)
    OBVIOUS
  <2>1. IndInv /\ popped \in [1 .. MaxItems -> NotYet .. MaxItems]
    BY DEF ItemsInv, CallsInv, IndInv, TypeOK
  <2>2. popped[i] \in Int /\ popped' # popped
    <3>1. popped[i] \in Int
      BY <2>1, SizeAssumption DEF NotYet
    <3> QED
      BY <3>1
  <2>3. ASSUME NEW c \in Consumers, PopCasOk(c) PROVE FALSE
    <3>1. popped' = [popped EXCEPT ![Ticket(reg[c].pos) + 1] = reg[c].item] /\ reg[c].op = "pop"
      BY <2>2, <2>3 DEF PopCasOk
    <3>2. i = Ticket(reg[c].pos) + 1 /\ popped'[i] = reg[c].item
      BY <2>1, <2>2, <3>1
    <3>3. ReadInv(c) /\ head = reg[c].pos /\ pc[c] = "pop_cas"
      BY <2>3 DEF ItemsInv, PopCasOk
    <3>4. reg[c].item \in Int
      BY <2>1 DEF IndInv, TypeOK, Locals, Threads
    <3> QED
      BY <3>1, <3>2, <3>3, <3>4 DEF ReadInv
  <2>4. ASSUME NEW c \in Consumers, PopCopy(c) PROVE i \in Reading(c)
    <3>1. PICK k \in reg[c].todo :
            /\ k \in 0 .. Batch
            /\ Ticket(reg[c].pos) \in Nat
            /\ popped' = [popped EXCEPT ![Ticket(reg[c].pos) + 1 + k] =
                                          buffer[Slot(UAdd(reg[c].pos, k))]]
      BY <2>1, <2>4, PopCopyMoves
    <3>2. i = Ticket(reg[c].pos) + 1 + k
      BY <2>1, <2>2, <3>1
    <3>3. i = Ticket(reg[c].pos) + k + 1
      BY <3>1, <3>2
    <3> QED
      BY <3>1, <3>3 DEF Reading
  <2>5. \E c \in Consumers : PopCasOk(c) \/ PopCopy(c)
    BY <2>2 DEF vars, Next, Producer, PushCall, PushReloadTail, PushLoadHead, PushFail,
      PushCasOk, PushCasFail, PushCopy, PushCount, Consumer, PopCall, PopReloadHead,
      PopLoadTail, PopRead, PopCasFail, PopCount, ProbeLoadHead, ProbeLoadTail
  <2> QED
    BY <2>3, <2>4, <2>5
<1>2. ItemsInv /\ [Next]_vars => [Kept]_vars
  BY <1>1
<1> QED
  BY <1>2, ItemsInvariance, PTL DEF Spec, OnlyBatchLapped

-----------------------------------------------------------------------------
(***************************************************************************)
(* One producer: the accept thread (server.c:84)                           *)
(***************************************************************************)

OneProducer == \A p, q \in Producers : p = q

\* Nobody but the producer moves tail: it is where its call has found or put it.
SoleInv(p) ==
  /\ pc[p] \in {"push_head", "push_cas"} => reg[p].pos = tail
  /\ pc[p] = "push_copy" =>
       Ticket(tail) = Ticket(reg[p].pos) + reg[p].n /\ reg[p].n <= Size

SoleProducerInv == CallsInv /\ \A p \in Producers : SoleInv(p)

\* Where a push's swap takes tail.
LEMMA PushCasMoves ==
  ASSUME IndInv, NEW p \in Producers, PushCasOk(p)
  PROVE  /\ reg[p].n \in 1 .. Batch
         /\ tail = reg[p].pos
         /\ reg[p].todo = {}
         /\ Ticket(head) \in Nat /\ Ticket(tail) \in Nat
         /\ Ticket(tail)' = Ticket(tail) + reg[p].n
         /\ Ticket(head) <= Ticket(tail)
         /\ Ticket(tail) + reg[p].n <= Ticket(head) + Size
         /\ pc'[p] = "push_copy"
         /\ reg'[p].pos = reg[p].pos /\ reg'[p].n = reg[p].n
         /\ reg'[p].todo = 0 .. reg[p].n - 1
<1>1. /\ reg[p].n \in 0 .. Batch /\ head \in Index /\ tail \in Index
      /\ tail = reg[p].pos /\ pc[p] = "push_cas" /\ PushInv(p)
      /\ tail' = UAdd(tail, reg[p].n)
      /\ Ticket(tail) + reg[p].n <= MaxItems
  BY DEF IndInv, TypeOK, Locals, Threads, PushCasOk
<1>2. Ticket(head) \in Nat /\ Ticket(tail) \in Nat /\ Ticket(head) <= Ticket(tail)
  BY <1>1, TicketType DEF IndInv, CounterInv, Index
<1>3. reg[p].n >= 1 /\ Ticket(tail) + reg[p].n <= Ticket(head) + Size /\ reg[p].todo = {}
  BY <1>1 DEF PushInv
<1>4. Ticket(UAdd(tail, reg[p].n)) = Ticket(tail) + reg[p].n
  BY <1>1, <1>2, TicketAdd, SizeAssumption
<1>5. Ticket(tail)' = Ticket(tail) + reg[p].n
  BY <1>1, <1>4 DEF Ticket
<1>6. reg' = [reg EXCEPT ![p].todo = 0 .. reg[p].n - 1] /\ pc' = [pc EXCEPT ![p] = "push_copy"]
  BY DEF PushCasOk, Goto
<1>7. /\ pc'[p] = "push_copy"
      /\ reg'[p].pos = reg[p].pos /\ reg'[p].n = reg[p].n
      /\ reg'[p].todo = 0 .. reg[p].n - 1
  BY <1>6 DEF IndInv, TypeOK, Locals, Threads
<1> QED
  BY <1>1, <1>2, <1>3, <1>5, <1>7

LEMMA SoleProducerStep ==
  ASSUME IndInv, NEW p \in Producers, SoleInv(p), Producer(p)
  PROVE  SoleInv(p)'
<1>1. p \in Threads
  BY DEF Threads
<1>2. CASE PushCall(p) \/ PushReloadTail(p)
  <2>1. /\ reg'[p].pos = tail /\ tail' = tail
        /\ pc'[p] = "push_head"
    BY <1>1, <1>2 DEF IndInv, TypeOK, Locals, PushCall, PushReloadTail, Call, Goto
  <2> QED
    BY <2>1 DEF SoleInv
<1>3. CASE PushLoadHead(p)
  <2>1. /\ reg'[p].pos = reg[p].pos /\ tail' = tail /\ pc[p] = "push_head"
        /\ pc'[p] \in {"push_fail", "push_cas"}
    BY <1>1, <1>3 DEF IndInv, TypeOK, Locals, PushLoadHead, Goto
  <2> QED
    BY <2>1 DEF SoleInv
<1>4. CASE PushCasOk(p)
  <2>1. /\ reg[p].n \in 1 .. Batch
        /\ tail = reg[p].pos
        /\ Ticket(head) \in Nat /\ Ticket(tail) \in Nat
        /\ Ticket(tail)' = Ticket(tail) + reg[p].n
        /\ Ticket(head) <= Ticket(tail)
        /\ Ticket(tail) + reg[p].n <= Ticket(head) + Size
        /\ pc'[p] = "push_copy"
        /\ reg'[p].pos = reg[p].pos /\ reg'[p].n = reg[p].n
    BY <1>4, PushCasMoves
  <2>2. reg[p].n <= Size
    BY <2>1, SizeAssumption
  <2>3. Ticket(reg[p].pos)' = Ticket(tail)
    BY <2>1 DEF Ticket
  <2> QED
    BY <2>1, <2>2, <2>3 DEF SoleInv
<1>5. CASE PushCopy(p)
  <2>1. /\ reg'[p].pos = reg[p].pos /\ reg'[p].n = reg[p].n /\ tail' = tail
        /\ pc[p] = "push_copy" /\ pc'[p] \in {"push_copy", "push_count"}
    BY <1>1, <1>5 DEF IndInv, TypeOK, Locals, PushCopy, Goto
  <2> QED
    BY <2>1 DEF SoleInv, Ticket
<1>6. CASE PushFail(p) \/ PushCasFail(p) \/ PushCount(p)
  <2>1. pc'[p] \in {"idle", "push_tail"}
    BY <1>1, <1>6 DEF IndInv, TypeOK, PushFail, PushCasFail, PushCount, Goto, Return
  <2> QED
    BY <2>1 DEF SoleInv
<1> QED
  BY <1>2, <1>3, <1>4, <1>5, <1>6 DEF Producer

LEMMA SoleInit == Init => SoleProducerInv
<1>1. Init => \A p \in Producers : SoleInv(p)
  BY DEF Init, SoleInv, Threads
<1> QED
  BY <1>1, CallsInit DEF SoleProducerInv

LEMMA SoleKeep ==
  ASSUME OneProducer, SoleProducerInv, [Next]_vars
  PROVE  SoleProducerInv'
<1>1. IndInv /\ CallsInv'
  BY CallsKeep DEF SoleProducerInv, CallsInv
<1>2. CASE UNCHANGED vars
  BY <1>1, <1>2 DEF vars, SoleProducerInv, SoleInv, Ticket
<1>3. ASSUME NEW t \in Threads, StepOf(t), NEW p \in Producers PROVE SoleInv(p)'
  <2>1. CASE p = t
    <3>1. Producer(p)
      BY <1>3, <2>1, ThreadAssumption DEF StepOf
    <3> QED
      BY <1>1, <3>1, SoleProducerStep DEF SoleProducerInv
  <2>2. CASE p # t
    <3>1. t \notin Producers
      BY <2>2 DEF OneProducer
    <3>2. UNCHANGED tail
      BY <1>3, <3>1 DEF StepOf, Consumer, PopCall, PopReloadHead, PopLoadTail, PopRead,
        PopCasOk, PopCasFail, PopCopy, PopCount, ProbeLoadHead, ProbeLoadTail
    <3>3. pc'[p] = pc[p] /\ reg'[p] = reg[p]
      BY <1>1, <1>3, <2>2, OneThread DEF Threads
    <3> QED
      BY <3>2, <3>3 DEF SoleProducerInv, SoleInv, Ticket
  <2> QED
    BY <2>1, <2>2
<1> QED
  BY <1>1, <1>2, <1>3 DEF SoleProducerInv, Next, StepOf, Threads

LEMMA SoleInvariance ==
  ASSUME OneProducer
  PROVE  Spec => []SoleProducerInv
<1>1. SoleProducerInv /\ [Next]_vars => SoleProducerInv'
  BY SoleKeep
<1> QED
  BY <1>1, SoleInit, PTL DEF Spec

\* A push of the only producer fails when the queue is full and at no other time
\* (ring_queue.c:64-67, 121-130): reactor_add_connection then closes the socket, so a
\* refusal with room left would lose a client.
THEOREM FailsWhenFull ==
  ASSUME OneProducer
  PROVE  Spec => FailOnlyWhenFull
<1> DEFINE Full == \A p \in Producers :
                     pc[p] = "push_head" /\ pc'[p] = "push_fail" => USub(tail, head) = Size
<1>1. SoleProducerInv /\ [Next]_vars => Full
  <2> SUFFICES ASSUME SoleProducerInv, [Next]_vars, NEW p \in Producers,
                      pc[p] = "push_head", pc'[p] = "push_fail"
               PROVE  USub(tail, head) = Size
    OBVIOUS
  <2>1. IndInv /\ p \in Threads
    BY DEF SoleProducerInv, CallsInv, Threads
  <2>2. PICK t \in Threads : StepOf(t)
    BY DEF Next, vars, StepOf, Threads
  <2>3. t = p
    BY <2>1, <2>2, OneThread
  <2>4. Producer(p)
    BY <2>2, <2>3, ThreadAssumption DEF StepOf
  <2>5. PushRoom(reg[p].op, reg[p].n, reg[p].pos, head) = 0
    BY <2>1, <2>4 DEF IndInv, TypeOK, Producer, PushCall, PushReloadTail, PushLoadHead, PushFail,
      PushCasOk, PushCasFail, PushCopy, PushCount, Goto, Return
  <2>6. /\ reg[p].pos = tail /\ head \in Index /\ tail \in Index
        /\ reg[p].n >= 1 /\ reg[p].n \in 0 .. Batch
    BY <2>1 DEF SoleProducerInv, SoleInv, CallsInv, Knows, IndInv, TypeOK, Locals
  <2>7. USub(tail, head) \in 0 .. Size
    <3>1. /\ Ticket(head) \in Nat /\ Ticket(tail) \in Nat
          /\ Ticket(head) <= Ticket(tail) /\ Ticket(tail) <= Ticket(head) + Size
      BY <2>1, <2>6, TicketType DEF IndInv, CounterInv, Index
    <3> QED
      BY <2>6, <3>1, Distance, SizeAssumption
  <2>8. USub(Size, USub(tail, head)) = Size - USub(tail, head)
    BY <2>7, SizeAssumption DEF USub
  <2> QED
    BY <2>5, <2>6, <2>7, <2>8, SizeAssumption DEF PushRoom
<1>2. SoleProducerInv /\ [Next]_vars => [Full]_vars
  BY <1>1
<1> QED
  BY <1>2, SoleInvariance, PTL DEF Spec, FailOnlyWhenFull

\* Ticket i is published: its item lies in its slot.
Published(i) == buffer[Slot(CounterOf(i))] = i

\* Only a push's swap and its copies change what is being written.
LEMMA WritingKept ==
  ASSUME IndInv, IndInv', NEW t \in Threads, StepOf(t), NEW p \in Producers,
         p = t => pc[p] # "push_copy" /\ pc'[p] # "push_copy"
  PROVE  Writing(p)' = Writing(p)
<1>1. CASE p = t
  <2>1. reg[p].todo = {} /\ reg'[p].todo = {}
    BY <1>1 DEF IndInv, PushInv
  <2> QED
    BY <2>1 DEF Writing
<1>2. CASE p # t
  <2>1. reg'[p] = reg[p]
    BY <1>2, OneThread DEF Threads
  <2> QED
    BY <2>1 DEF Writing, Ticket
<1> QED
  BY <1>1, <1>2

\* The swap claims tickets that are all still to be written.
LEMMA PublishedPushCas ==
  ASSUME OneProducer, IndInv, PublishedIntact, NEW p \in Producers, PushCasOk(p)
  PROVE  PublishedIntact'
<1>1. /\ reg[p].n \in 1 .. Batch
      /\ tail = reg[p].pos
      /\ reg[p].todo = {}
      /\ Ticket(head) \in Nat /\ Ticket(tail) \in Nat
      /\ Ticket(tail)' = Ticket(tail) + reg[p].n
      /\ reg'[p].pos = reg[p].pos /\ reg'[p].n = reg[p].n
      /\ reg'[p].todo = 0 .. reg[p].n - 1
  BY PushCasMoves
<1>2. UNCHANGED <<head, buffer>>
  BY DEF PushCasOk
<1>3. Writing(p)' = {Ticket(tail) + k + 1 : k \in 0 .. reg[p].n - 1}
  <2>1. Ticket(reg[p].pos)' = Ticket(tail)
    BY <1>1 DEF Ticket
  <2> QED
    BY <1>1, <2>1 DEF Writing
<1>4. SUFFICES ASSUME NEW i \in Ticket(head) + 1 .. Ticket(tail) + reg[p].n, i \notin Writing(p)'
               PROVE  Published(i)
  BY <1>1, <1>2 DEF PublishedIntact, Outstanding, Published, CounterOf, Ticket
<1>5. i <= Ticket(tail)
  <2>1. ASSUME i > Ticket(tail) PROVE FALSE
    <3>1. i - Ticket(tail) - 1 \in 0 .. reg[p].n - 1 /\ i = Ticket(tail) + (i - Ticket(tail) - 1) + 1
      BY <1>1, <2>1
    <3> QED
      BY <1>3, <1>4, <3>1
  <2> QED
    BY <1>1, <2>1
<1>6. i \in Outstanding
  BY <1>1, <1>5 DEF Outstanding
<1>7. \A q \in Producers : i \notin Writing(q)
  BY <1>1 DEF Writing, OneProducer
<1> QED
  BY <1>6, <1>7 DEF PublishedIntact, Published, CounterOf

\* A copy writes one ticket and no slot of another ticket that is outstanding: the
\* producer is less than a lap ahead of all of them.
LEMMA PublishedPushCopy ==
  ASSUME OneProducer, IndInv, PublishedIntact, NEW p \in Producers, SoleInv(p), PushCopy(p)
  PROVE  PublishedIntact'
<1>1. PICK k \in reg[p].todo :
        /\ k \in 0 .. reg[p].n - 1
        /\ Ticket(reg[p].pos) \in Nat
        /\ Ticket(reg[p].pos) + k + 1 \in 1 .. Ticket(tail)
        /\ Ticket(reg[p].pos) + k + 1 \in 1 .. MaxItems
        /\ buffer' = [buffer EXCEPT ![Slot(CounterOf(Ticket(reg[p].pos) + k + 1))] =
                                      Ticket(reg[p].pos) + k + 1]
        /\ Slot(CounterOf(Ticket(reg[p].pos) + k + 1)) \in 0 .. Size - 1
        /\ reg' = [reg EXCEPT ![p].todo = @ \ {k}]
        /\ UNCHANGED <<head, tail>>
  BY PushCopyMoves
<1>2. PICK j \in 1 .. MaxItems : j = Ticket(reg[p].pos) + k + 1
  BY <1>1
<1>3. buffer' = [buffer EXCEPT ![Slot(CounterOf(j))] = j] /\ Slot(CounterOf(j)) \in DOMAIN buffer
  BY <1>1, <1>2 DEF IndInv, TypeOK
<1>4. /\ Ticket(head) \in Nat /\ Ticket(tail) \in Nat /\ Ticket(tail) <= MaxItems
      /\ Ticket(tail) <= Ticket(head) + Size
      /\ reg[p].n \in 0 .. Size
      /\ Ticket(tail) = Ticket(reg[p].pos) + reg[p].n
  BY TicketType, SizeAssumption DEF IndInv, TypeOK, CounterInv, Index, SoleInv, PushCopy, Locals, Threads
<1>5. Writing(p) = Writing(p)' \cup {j}
  <2>1. reg'[p].todo = reg[p].todo \ {k} /\ reg'[p].pos = reg[p].pos
    BY <1>1 DEF IndInv, TypeOK, Locals, Threads
  <2>2. Ticket(reg[p].pos)' = Ticket(reg[p].pos)
    BY <2>1 DEF Ticket
  <2>3. Writing(p)' = {Ticket(reg[p].pos) + l + 1 : l \in reg[p].todo \ {k}}
    BY <2>1, <2>2 DEF Writing
  <2> QED
    BY <1>1, <1>2, <2>3 DEF Writing
<1>6. SUFFICES ASSUME NEW i \in Ticket(head) + 1 .. Ticket(tail), i \notin Writing(p)'
               PROVE  Published(i)'
  BY <1>1 DEF PublishedIntact, Outstanding, Published, CounterOf, Ticket
<1>7. CASE i = j
  BY <1>3, <1>7 DEF Published, CounterOf, Slot, UAdd
<1>8. CASE i # j
  <2>1. i \in Outstanding /\ \A q \in Producers : i \notin Writing(q)
    BY <1>5, <1>6, <1>8 DEF Outstanding, OneProducer
  <2>2. buffer[Slot(CounterOf(i))] = i
    BY <2>1 DEF PublishedIntact, CounterOf
  <2>3. i \in 1 .. MaxItems /\ i < j + Size /\ j < i + Size
    BY <1>1, <1>2, <1>4, <1>6, SizeAssumption
  <2>4. Slot(CounterOf(i)) # Slot(CounterOf(j))
    <3>1. CASE i < j
      BY <2>3, <3>1, SlotsApart
    <3>2. CASE j < i
      BY <2>3, <3>2, SlotsApart
    <3> QED
      BY <1>8, <2>3, <3>1, <3>2
  <2>5. buffer'[Slot(CounterOf(i))] = buffer[Slot(CounterOf(i))]
    BY <1>3, <2>4
  <2> QED
    BY <2>2, <2>5 DEF Published, CounterOf, Slot, UAdd
<1> QED
  BY <1>7, <1>8

LEMMA PublishedKeep ==
  ASSUME OneProducer, SoleProducerInv, PublishedIntact, [Next]_vars
  PROVE  PublishedIntact'
<1>1. IndInv /\ IndInv'
  BY NextKeeps DEF SoleProducerInv, CallsInv
<1>2. CASE UNCHANGED vars
  BY <1>2 DEF vars, PublishedIntact, Outstanding, Writing, Ticket, Slot, UAdd
<1>3. ASSUME NEW t \in Threads, StepOf(t) PROVE PublishedIntact'
  <2>1. CASE t \in Producers /\ PushCasOk(t)
    BY <1>1, <2>1, PublishedPushCas
  <2>2. CASE t \in Producers /\ PushCopy(t)
    BY <1>1, <2>2, PublishedPushCopy DEF SoleProducerInv
  <2>3. CASE ~(t \in Producers /\ (PushCasOk(t) \/ PushCopy(t)))
    <3>1. buffer' = buffer /\ tail' = tail
      BY <1>3, <2>3 DEF StepOf, Producer, PushCall, PushReloadTail, PushLoadHead, PushFail,
        PushCasFail, PushCount, Consumer, PopCall, PopReloadHead, PopLoadTail, PopRead,
        PopCasOk, PopCasFail, PopCopy, PopCount, ProbeLoadHead, ProbeLoadTail
    <3>2. t \in Producers => pc[t] # "push_copy" /\ pc'[t] # "push_copy"
      BY <1>1, <1>3, <2>3, ThreadAssumption DEF IndInv, TypeOK, StepOf, Producer, PushCall,
        PushReloadTail, PushLoadHead, PushFail, PushCasFail, PushCount, Goto, Return
    <3>3. \A p \in Producers : Writing(p)' = Writing(p)
      BY <1>1, <1>3, <3>2, WritingKept
    <3>4. Ticket(tail)' = Ticket(tail)
      BY <3>1 DEF Ticket
    <3>5. Outstanding' \subseteq Outstanding
      BY <1>1, <3>4, TicketsGrow, <1>3 DEF Outstanding
    <3>6. \A i : Slot(UAdd(Start, i - 1))' = Slot(UAdd(Start, i - 1))
      BY DEF Slot, UAdd
    <3> QED
      BY <3>1, <3>3, <3>5, <3>6 DEF PublishedIntact
  <2> QED
    BY <2>1, <2>2, <2>3
<1> QED
  BY <1>2, <1>3 DEF Next, StepOf, Threads

\* With one producer a connection in the queue is never overwritten before it is popped,
\* neither by the wrap of the counters nor by the next lap (ring_queue.c:69-74, 138-149).
THEOREM ItemsIntact ==
  ASSUME OneProducer
  PROVE  Spec => []PublishedIntact
<1>1. Init => PublishedIntact
  <2>1. Init => Outstanding = {}
    BY SizeAssumption DEF Init, Outstanding, Ticket, USub
  <2> QED
    BY <2>1 DEF PublishedIntact
<1>2. SoleProducerInv /\ PublishedIntact /\ [Next]_vars => PublishedIntact'
  BY PublishedKeep
<1> QED
  BY <1>1, <1>2, SoleInvariance, PTL DEF Spec

=============================================================================
