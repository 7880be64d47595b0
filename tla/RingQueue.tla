----------------------------- MODULE RingQueue -----------------------------
(***************************************************************************)
(* The lock-free ring queue of src/codes/network/reactor/ring_queue.c,     *)
(* one step per atomic operation and per copied slot, called by any number *)
(* of threads.                                                             *)
(*                                                                         *)
(* head and tail are the two uint32_t counters of ring_queue_t: they run   *)
(* through 0 .. Modulus-1 and wrap, a slot is counter & RING_QUEUE_MASK.   *)
(* An observed behaviour starts with both counters at Start: zero after    *)
(* ring_queue_init, any other value after that many pushes and pops.       *)
(*                                                                         *)
(* An item is named by the ticket its push takes: the push that advances   *)
(* the counter from Start+i-1 to Start+i writes item i.  Items are opaque  *)
(* to the queue, so the name loses nothing; item 0 stands for whatever the *)
(* slots held before (memset to 0 by ring_queue_init).                     *)
(***************************************************************************)
EXTENDS Integers, FiniteSets

CONSTANTS
  Producers,      \* threads that call ring_queue_push / ring_queue_push_batch
  Consumers,      \* threads that call ring_queue_pop / ring_queue_pop_batch
  Observers,      \* threads that call ring_queue_empty / _full / _size
  PushOps,        \* the push operations in use, from {"push", "push_batch"}
  PopOps,         \* the pop operations in use, from {"pop", "pop_batch"}
  Size,           \* RING_QUEUE_SIZE
  Modulus,        \* 2^32, the range of an atomic_uint
  Start,          \* value of head and tail when the observation starts
  Batch,          \* largest count passed to a batch operation (BATCH_SIZE)
  MaxItems,       \* bound: pushes that succeed in an observed behaviour
  MaxFails        \* bound: pushes that report a full queue

Threads == Producers \cup Consumers \cup Observers

ASSUME ThreadAssumption ==
  /\ Producers \cap Consumers = {}
  /\ Producers \cap Observers = {}
  /\ Consumers \cap Observers = {}

ASSUME OpAssumption ==
  /\ PushOps \subseteq {"push", "push_batch"}
  /\ PopOps \subseteq {"pop", "pop_batch"}

\* The capacity divides the range of the counters (both are powers of two).
\* MaxItems < Modulus: no thread sleeps between its load of a counter and its
\* compare-and-swap while 2^32 pushes go by.
ASSUME SizeAssumption ==
  /\ Size \in Nat \ {0}
  /\ Modulus \in Nat \ {0}
  /\ Size < Modulus
  /\ Modulus % Size = 0
  /\ Start \in 0 .. Modulus - 1
  /\ Batch \in Nat \ {0}
  /\ Batch < Modulus
  /\ MaxItems \in Nat
  /\ MaxItems < Modulus
  /\ MaxFails \in Nat

Index == 0 .. Modulus - 1

\* Mutant of UAdd: the counter does not wrap.
UAddNoWrap(x, n) == x + n

\* uint32_t addition and subtraction of values below 2^32.
UAdd(x, n) == IF x + n < Modulus THEN x + n ELSE x + n - Modulus
USub(x, y) == IF x >= y THEN x - y ELSE x - y + Modulus

\* counter & RING_QUEUE_MASK
Slot(x) == x % Size

\* The number of tickets given out when a counter has the value x.
Ticket(x) == USub(x, Start)

VARIABLES
  head, tail,                 \* read and write position
  buffer,                     \* the slots
  push_count, pop_count,      \* statistics of ring_queue_t
  push_fail_count,
  pc,                         \* what each thread executes next
  reg,                        \* the local variables of its current call
  popped                      \* history: the item each ticket's pop returned

vars == <<head, tail, buffer, push_count, pop_count, push_fail_count,
          pc, reg, popped>>

NotYet == -1                  \* no pop has returned for this ticket

\* The locals of a call that are still read: op the operation, n its count
\* argument and then actual_count (1 for the single-element operations), pos
\* the loaded counter the call will compare-and-swap (tail for a push, head for
\* a pop or a probe), todo the offsets still to be copied, item the value read
\* by ring_queue_pop.  A thread between calls has none.
Call(op, n, pos) ==
  [op |-> op, n |-> n, pos |-> pos, todo |-> {}, item |-> 0]

NoCall == Call("none", 0, Start)

Locals == [op   : {"none", "push", "push_batch", "pop", "pop_batch", "probe"},
           n    : 0 .. Batch,
           pos  : Index,
           todo : SUBSET (0 .. Batch - 1),
           item : 0 .. MaxItems]

ProducerPCs == {"idle", "push_tail", "push_head", "push_fail", "push_cas",
                "push_copy", "push_count"}
ConsumerPCs == {"idle", "pop_head", "pop_tail", "pop_read", "pop_cas",
                "pop_copy", "pop_count"}
ObserverPCs == {"idle", "probe_tail"}

\* Types and bounds: counters within their width, batches within theirs
\* (ring_queue.h, ring_queue.c:112-126).
TypeOK ==
  /\ head \in Index
  /\ tail \in Index
  /\ buffer \in [0 .. Size - 1 -> 0 .. MaxItems]
  /\ push_count \in Nat
  /\ pop_count \in Nat
  /\ push_fail_count \in 0 .. MaxFails
  /\ pc \in [Threads -> ProducerPCs \cup ConsumerPCs \cup ObserverPCs]
  /\ \A p \in Producers : pc[p] \in ProducerPCs
  /\ \A c \in Consumers : pc[c] \in ConsumerPCs
  /\ \A o \in Observers : pc[o] \in ObserverPCs
  /\ reg \in [Threads -> Locals]
  /\ popped \in [1 .. MaxItems -> NotYet .. MaxItems]

-----------------------------------------------------------------------------
\* ring_queue_init, and any later moment at which the queue is empty and idle.
Init ==
  /\ head = Start
  /\ tail = Start
  /\ buffer = [s \in 0 .. Size - 1 |-> 0]
  /\ push_count = 0
  /\ pop_count = 0
  /\ push_fail_count = 0
  /\ pc = [t \in Threads |-> "idle"]
  /\ reg = [t \in Threads |-> NoCall]
  /\ popped = [i \in 1 .. MaxItems |-> NotYet]

Goto(t, where) == pc' = [pc EXCEPT ![t] = where]

\* The call returns: its locals are gone.
Return(t) ==
  /\ pc' = [pc EXCEPT ![t] = "idle"]
  /\ reg' = [reg EXCEPT ![t] = NoCall]

-----------------------------------------------------------------------------
(***************************************************************************)
(* ring_queue_push and ring_queue_push_batch                               *)
(***************************************************************************)

\* Mutant of PushRoom: one slot too many, ">" for ">=".
PushRoomOneMore(op, count, t, h) ==
  IF op = "push"
  THEN IF USub(t, h) > Size THEN 0 ELSE 1
  ELSE LET free == USub(Size + 1, USub(t, h))
       IN  IF count < free THEN count ELSE free

\* Mutant of PushRoom: one slot kept free, as rings without free-running
\* counters do.
PushRoomOneLess(op, count, t, h) ==
  IF op = "push"
  THEN IF USub(t, h) >= Size - 1 THEN 0 ELSE 1
  ELSE LET free == USub(Size - 1, USub(t, h))
       IN  IF count < free THEN count ELSE free

\* How many slots a push may claim after it has read tail t and then head h:
\* the full test of ring_queue_push, the free space of ring_queue_push_batch.
PushRoom(op, count, t, h) ==
  IF op = "push"
  THEN IF USub(t, h) >= Size THEN 0 ELSE 1
  ELSE LET free == USub(Size, USub(t, h))
       IN  IF count < free THEN count ELSE free

\* A call begins with the load of tail.
PushCall(p) ==
  /\ pc[p] = "idle"
  /\ \E op \in PushOps, count \in 1 .. Batch :
       /\ op = "push" => count = 1
       /\ reg' = [reg EXCEPT ![p] = Call(op, count, tail)]
  /\ Goto(p, "push_head")
  /\ UNCHANGED <<head, tail, buffer, push_count, pop_count, push_fail_count, popped>>

\* The next round of the loop of ring_queue_push loads tail again.
PushReloadTail(p) ==
  /\ pc[p] = "push_tail"
  /\ reg' = [reg EXCEPT ![p].pos = tail]
  /\ Goto(p, "push_head")
  /\ UNCHANGED <<head, tail, buffer, push_count, pop_count, push_fail_count, popped>>

PushLoadHead(p) ==
  LET room == PushRoom(reg[p].op, reg[p].n, reg[p].pos, head)
  IN  /\ pc[p] = "push_head"
      /\ \/ /\ room = 0
            /\ Goto(p, "push_fail")
            /\ UNCHANGED reg
         \/ /\ room # 0
            /\ Goto(p, "push_cas")
            /\ reg' = [reg EXCEPT ![p].n = room]
      /\ UNCHANGED <<head, tail, buffer, push_count, pop_count, push_fail_count, popped>>

PushFail(p) ==
  /\ pc[p] = "push_fail"
  /\ push_fail_count < MaxFails
  /\ push_fail_count' = push_fail_count + 1
  /\ Return(p)
  /\ UNCHANGED <<head, tail, buffer, push_count, pop_count, popped>>

\* Mutant of PushCasOk: a plain store of tail + n in place of the swap.
PushStore(p) ==
  /\ pc[p] = "push_cas"
  /\ Ticket(reg[p].pos) + reg[p].n <= MaxItems
  /\ tail' = UAdd(reg[p].pos, reg[p].n)
  /\ reg' = [reg EXCEPT ![p].todo = 0 .. reg[p].n - 1]
  /\ Goto(p, "push_copy")
  /\ UNCHANGED <<head, buffer, push_count, pop_count, push_fail_count, popped>>

PushCasOk(p) ==
  /\ pc[p] = "push_cas"
  /\ tail = reg[p].pos
  /\ Ticket(tail) + reg[p].n <= MaxItems
  /\ tail' = UAdd(reg[p].pos, reg[p].n)
  /\ reg' = [reg EXCEPT ![p].todo = 0 .. reg[p].n - 1]
  /\ Goto(p, "push_copy")
  /\ UNCHANGED <<head, buffer, push_count, pop_count, push_fail_count, popped>>

\* The weak compare-and-swap may also fail although tail has not moved.
\* ring_queue_push loads both counters again, ring_queue_push_batch returns 0.
PushCasFail(p) ==
  /\ pc[p] = "push_cas"
  /\ \/ /\ reg[p].op = "push"
        /\ Goto(p, "push_tail")
        /\ UNCHANGED reg
     \/ /\ reg[p].op = "push_batch"
        /\ Return(p)
  /\ UNCHANGED <<head, tail, buffer, push_count, pop_count, push_fail_count, popped>>

\* One element of the memcpy (in any order), or the single store of a push.
PushCopy(p) ==
  /\ pc[p] = "push_copy"
  /\ \E k \in reg[p].todo :
       /\ buffer' = [buffer EXCEPT ![Slot(UAdd(reg[p].pos, k))] =
                                     Ticket(reg[p].pos) + k + 1]
       /\ reg' = [reg EXCEPT ![p].todo = @ \ {k}]
       /\ Goto(p, IF reg[p].todo = {k} THEN "push_count" ELSE "push_copy")
  /\ UNCHANGED <<head, tail, push_count, pop_count, push_fail_count, popped>>

PushCount(p) ==
  /\ pc[p] = "push_count"
  /\ push_count' = push_count + reg[p].n
  /\ Return(p)
  /\ UNCHANGED <<head, tail, buffer, pop_count, push_fail_count, popped>>

Producer(p) ==
  \/ PushCall(p) \/ PushReloadTail(p) \/ PushLoadHead(p) \/ PushFail(p)
  \/ PushCasOk(p) \/ PushCasFail(p) \/ PushCopy(p) \/ PushCount(p)

-----------------------------------------------------------------------------
(***************************************************************************)
(* ring_queue_pop and ring_queue_pop_batch                                 *)
(***************************************************************************)

\* Mutant of PopAvailable: the empty test compares the counters as numbers.
PopAvailableNoWrap(count, h, t) ==
  IF h >= t THEN 0 ELSE IF count < t - h THEN count ELSE t - h

\* Mutant of PopAvailable: the count asked for is not cut to the queue's size.
PopAvailableUncut(count, h, t) == IF h = t THEN 0 ELSE count

\* How many items a pop may take after it has read head h and then tail t.
PopAvailable(count, h, t) ==
  LET size == USub(t, h) IN IF count < size THEN count ELSE size

\* A call begins with the load of head.
PopCall(c) ==
  /\ pc[c] = "idle"
  /\ \E op \in PopOps, count \in 1 .. Batch :
       /\ op = "pop" => count = 1
       /\ reg' = [reg EXCEPT ![c] = Call(op, count, head)]
  /\ Goto(c, "pop_tail")
  /\ UNCHANGED <<head, tail, buffer, push_count, pop_count, push_fail_count, popped>>

\* The next round of the loop of ring_queue_pop loads head again.
PopReloadHead(c) ==
  /\ pc[c] = "pop_head"
  /\ reg' = [reg EXCEPT ![c].pos = head]
  /\ Goto(c, "pop_tail")
  /\ UNCHANGED <<head, tail, buffer, push_count, pop_count, push_fail_count, popped>>

\* The queue is empty: return, else go on to the read (pop) or the swap.
PopLoadTail(c) ==
  LET avail == PopAvailable(reg[c].n, reg[c].pos, tail)
  IN  /\ pc[c] = "pop_tail"
      /\ \/ /\ avail = 0
            /\ Return(c)
         \/ /\ avail # 0
            /\ reg' = [reg EXCEPT ![c].n = avail]
            /\ Goto(c, IF reg[c].op = "pop" THEN "pop_read" ELSE "pop_cas")
      /\ UNCHANGED <<head, tail, buffer, push_count, pop_count, push_fail_count, popped>>

\* ring_queue_pop reads the slot before it advances head.
PopRead(c) ==
  /\ pc[c] = "pop_read"
  /\ reg' = [reg EXCEPT ![c].item = buffer[Slot(reg[c].pos)]]
  /\ Goto(c, "pop_cas")
  /\ UNCHANGED <<head, tail, buffer, push_count, pop_count, push_fail_count, popped>>

\* Mutant of PopCasOk: a plain store of head + n in place of the swap.
PopStore(c) ==
  /\ pc[c] = "pop_cas"
  /\ head' = UAdd(reg[c].pos, reg[c].n)
  /\ \/ /\ reg[c].op = "pop"
        /\ popped' = [popped EXCEPT ![Ticket(reg[c].pos) + 1] = reg[c].item]
        /\ Goto(c, "pop_count")
        /\ UNCHANGED reg
     \/ /\ reg[c].op = "pop_batch"
        /\ reg' = [reg EXCEPT ![c].todo = 0 .. reg[c].n - 1]
        /\ Goto(c, "pop_copy")
        /\ UNCHANGED popped
  /\ UNCHANGED <<tail, buffer, push_count, pop_count, push_fail_count>>

PopCasOk(c) ==
  /\ pc[c] = "pop_cas"
  /\ head = reg[c].pos
  /\ head' = UAdd(reg[c].pos, reg[c].n)
  /\ \/ /\ reg[c].op = "pop"
        /\ popped' = [popped EXCEPT ![Ticket(reg[c].pos) + 1] = reg[c].item]
        /\ Goto(c, "pop_count")
        /\ UNCHANGED reg
     \/ /\ reg[c].op = "pop_batch"
        /\ reg' = [reg EXCEPT ![c].todo = 0 .. reg[c].n - 1]
        /\ Goto(c, "pop_copy")
        /\ UNCHANGED popped
  /\ UNCHANGED <<tail, buffer, push_count, pop_count, push_fail_count>>

PopCasFail(c) ==
  /\ pc[c] = "pop_cas"
  /\ \/ /\ reg[c].op = "pop"
        /\ Goto(c, "pop_head")
        /\ UNCHANGED reg
     \/ /\ reg[c].op = "pop_batch"
        /\ Return(c)
  /\ UNCHANGED <<head, tail, buffer, push_count, pop_count, push_fail_count, popped>>

\* ring_queue_pop_batch copies the slots after it has advanced head.
PopCopy(c) ==
  /\ pc[c] = "pop_copy"
  /\ \E k \in reg[c].todo :
       /\ popped' = [popped EXCEPT ![Ticket(reg[c].pos) + 1 + k] =
                                     buffer[Slot(UAdd(reg[c].pos, k))]]
       /\ reg' = [reg EXCEPT ![c].todo = @ \ {k}]
       /\ Goto(c, IF reg[c].todo = {k} THEN "pop_count" ELSE "pop_copy")
  /\ UNCHANGED <<head, tail, buffer, push_count, pop_count, push_fail_count>>

PopCount(c) ==
  /\ pc[c] = "pop_count"
  /\ pop_count' = pop_count + reg[c].n
  /\ Return(c)
  /\ UNCHANGED <<head, tail, buffer, push_count, push_fail_count, popped>>

Consumer(c) ==
  \/ PopCall(c) \/ PopReloadHead(c) \/ PopLoadTail(c) \/ PopRead(c)
  \/ PopCasOk(c) \/ PopCasFail(c) \/ PopCopy(c) \/ PopCount(c)

-----------------------------------------------------------------------------
(***************************************************************************)
(* ring_queue_empty, ring_queue_full, ring_queue_size: each loads head,    *)
(* then tail, and answers from the two values.                             *)
(***************************************************************************)

AnswerEmpty(h, t) == h = t
\* Mutant of AnswerFull: ">" for ">=".
AnswerFullLate(h, t) == USub(t, h) > Size

AnswerFull(h, t) == USub(t, h) >= Size
AnswerSize(h, t) == USub(t, h)

ProbeLoadHead(o) ==
  /\ pc[o] = "idle"
  /\ reg' = [reg EXCEPT ![o] = Call("probe", 0, head)]
  /\ Goto(o, "probe_tail")
  /\ UNCHANGED <<head, tail, buffer, push_count, pop_count, push_fail_count, popped>>

\* The tail is loaded and the answers follow from reg[o].pos and tail.
ProbeLoadTail(o) ==
  /\ pc[o] = "probe_tail"
  /\ Return(o)
  /\ UNCHANGED <<head, tail, buffer, push_count, pop_count, push_fail_count, popped>>

-----------------------------------------------------------------------------
Next ==
  \/ \E p \in Producers : Producer(p)
  \/ \E c \in Consumers : Consumer(c)
  \/ \E o \in Observers : ProbeLoadHead(o) \/ ProbeLoadTail(o)

Spec == Init /\ [][Next]_vars

\* A consumer that keeps calling pop (the reactor loop does, every 10 ms at
\* the latest) and whose compare-and-swap does not fail for ever when it could
\* succeed.
FairSpec ==
  /\ Spec
  /\ \A c \in Consumers : WF_vars(Consumer(c)) /\ SF_vars(PopCasOk(c))

-----------------------------------------------------------------------------
(***************************************************************************)
(* Properties                                                              *)
(***************************************************************************)

\* Tickets pushed and not yet popped; tickets a push has claimed but not yet
\* written; tickets a batch pop has taken but not yet copied out.
Outstanding == Ticket(head) + 1 .. Ticket(tail)
Writing(p) == {Ticket(reg[p].pos) + k + 1 : k \in reg[p].todo}
Reading(c) == {Ticket(reg[c].pos) + k + 1 : k \in reg[c].todo}

TQ == INSTANCE TicketQueue
        WITH claimed <- Ticket(tail), taken <- Ticket(head)

\* Whatever the interleaving of the stale loads of head and tail (ring_queue.c
\* lines 60-61, 91-92, 118-119, 165-166) and of the wrap of the counters, the
\* queue hands out consecutive tickets in order and never holds more than Size.
ImplementsTickets == TQ!Spec

\* tail - head never leaves 0 .. RING_QUEUE_SIZE, although a push tests it with
\* a head and a tail read at different times.
OccupancyBounded ==
  /\ USub(tail, head) = Ticket(tail) - Ticket(head)
  /\ TQ!Bounded

\* Two threads never work on the same ticket: no item is overwritten by a
\* second push with the same ticket, none is handed to two consumers, and a
\* consumer only copies tickets that head has passed.
TicketsOwnedOnce ==
  /\ \A p, q \in Producers : p # q => Writing(p) \cap Writing(q) = {}
  /\ \A c, d \in Consumers : c # d => Reading(c) \cap Reading(d) = {}
  /\ \A c \in Consumers : Reading(c) \subseteq 1 .. Ticket(head)
  /\ \A p \in Producers : Writing(p) \subseteq 1 .. Ticket(tail)

\* A ticket is delivered exactly when head has passed it and its copy is done:
\* pops lose no ticket and invent none.
DeliveredExactly ==
  \A i \in 1 .. MaxItems :
    popped[i] # NotYet <=> /\ i <= Ticket(head)
                           /\ \A c \in Consumers : i \notin Reading(c)

\* With one producer (the accept thread) an item that is published and not yet
\* popped sits in its slot untouched: neither a wrap of the counters nor the
\* next lap of the producer disturbs it.
PublishedIntact ==
  \A i \in Outstanding :
    (\A p \in Producers : i \notin Writing(p))
      => buffer[Slot(UAdd(Start, i - 1))] = i

\* A pop never returns an item of a later lap than its own, except that
\* ring_queue_pop_batch may: it copies a slot after it has released it.
\* ring_queue_pop reads first, and its swap fails if the slot was reused.
OnlyBatchLapped ==
  [][\A i \in 1 .. MaxItems :
       popped[i] <= i /\ popped'[i] > i
         => \E c \in Consumers : i \in Reading(c)]_vars

\* The item a pop returns is the item pushed at that position.
PopReturnsPushed == \A i \in 1 .. MaxItems : popped[i] \in {NotYet, i}

\* A push that reports "queue full" does so when the queue is full.
FailOnlyWhenFull ==
  [][\A p \in Producers :
       pc[p] = "push_head" /\ pc'[p] = "push_fail"
         => USub(tail, head) = Size]_vars

\* ring_queue_empty says TRUE only of an empty queue, ring_queue_full says FALSE
\* only of a queue with room, ring_queue_size never reports too few: the answer
\* may be stale in the other direction only, since head is loaded first.
ProbesErrOneWay ==
  [][\A o \in Observers :
       pc[o] = "probe_tail" /\ pc'[o] = "idle"
         => LET h == reg[o].pos IN
            /\ AnswerEmpty(h, tail) => tail = head
            /\ ~AnswerFull(h, tail) => USub(tail, head) < Size
            /\ AnswerSize(h, tail) >= USub(tail, head)]_vars

\* Every ticket a push has claimed is eventually taken by a consumer, even if
\* producers stop at any point of a call.
EveryTicketTaken ==
  \A i \in 1 .. MaxItems : (Ticket(tail) >= i) ~> (Ticket(head) >= i)

=============================================================================
