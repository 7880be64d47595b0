--------------------------- MODULE ProactorProofs ---------------------------
(***************************************************************************)
(* Proofs about Proactor for every number of clients, workers and          *)
(* connections, all sizes and every set of faults.                         *)
(*                                                                         *)
(* An operation is counted where it is: on the stack, with a worker, in    *)
(* the AIO context or with the dispatcher.  It carries the number of a     *)
(* descriptor and a pointer to a block, which may by then belong to        *)
(* another client; Fits says when they do not.                             *)
(*                                                                         *)
(* The last part follows the data: a unit is in the socket, carried by the *)
(* one operation of its client, or echoed, and FlowInv orders the three.   *)
(***************************************************************************)
EXTENDS Proactor, ListProofs

-----------------------------------------------------------------------------
(***************************************************************************)
(* Counting in a sequence                                                  *)
(***************************************************************************)

Places(s, A) == {i \in DOMAIN s : s[i] \in A}
Occurs(s, A) == Cardinality(Places(s, A))

LEMMA OccursType ==
  ASSUME NEW S, NEW s \in Seq(S), NEW A
  PROVE  /\ IsFiniteSet(Places(s, A))
         /\ Occurs(s, A) \in Nat
         /\ Occurs(s, A) = 0 <=> \A i \in DOMAIN s : s[i] \notin A
<1>1. Len(s) \in Nat /\ DOMAIN s = 1 .. Len(s)
  BY LenProperties
<1>2. IsFiniteSet(1 .. Len(s))
  BY <1>1, FS_Interval
<1>3. Places(s, A) \in SUBSET (1 .. Len(s))
  BY <1>1 DEF Places
<1>4. IsFiniteSet(Places(s, A))
  BY <1>2, <1>3, FS_Subset
<1>5. Occurs(s, A) \in Nat /\ (Occurs(s, A) = 0 <=> Places(s, A) = {})
  BY <1>4, FS_CardinalityType, FS_EmptySet DEF Occurs
<1> QED
  BY <1>4, <1>5 DEF Places

\* A set and its members moved by n.
LEMMA ShiftedSet ==
  ASSUME NEW P \in SUBSET Nat, IsFiniteSet(P), NEW n \in Nat
  PROVE  /\ IsFiniteSet({i + n : i \in P})
         /\ Cardinality({i + n : i \in P}) = Cardinality(P)
<1> DEFINE Q == {i + n : i \in P}
           f == [i \in P |-> i + n]
<1>1. f \in Bijection(P, Q)
  <2>1. f \in [P -> Q]
    OBVIOUS
  <2>2. \A i, j \in P : f[i] = f[j] => i = j
    OBVIOUS
  <2>3. \A q \in Q : \E i \in P : f[i] = q
    OBVIOUS
  <2> QED
    BY <2>1, <2>2, <2>3 DEF Bijection, Injection, Surjection, IsInjective
<1> HIDE DEF f, Q
<1>2. ExistsBijection(P, Q)
  BY <1>1 DEF ExistsBijection
<1> QED
  BY <1>2, FS_SameCardinalityBij, FS_Surjection, <1>1, FS_Bijection DEF Q

\* What occurs in a concatenation.
LEMMA OccursCat ==
  ASSUME NEW S, NEW s \in Seq(S), NEW t \in Seq(S), NEW A
  PROVE  Occurs(s \o t, A) = Occurs(s, A) + Occurs(t, A)
<1> DEFINE n == Len(s)
           Q == {i + n : i \in Places(t, A)}
<1>1. /\ n \in Nat /\ Len(t) \in Nat
      /\ DOMAIN s = 1 .. n /\ DOMAIN t = 1 .. Len(t)
      /\ DOMAIN (s \o t) = 1 .. n + Len(t)
      /\ \A i \in 1 .. n + Len(t) : (s \o t)[i] = IF i <= n THEN s[i] ELSE t[i - n]
  BY LenProperties, ConcatProperties
<1>2. /\ IsFiniteSet(Places(s, A)) /\ IsFiniteSet(Places(t, A))
      /\ Places(t, A) \in SUBSET Nat
  <2>1. IsFiniteSet(Places(s, A)) /\ IsFiniteSet(Places(t, A))
    BY OccursType
  <2> QED
    BY <1>1, <2>1 DEF Places
<1>3. IsFiniteSet(Q) /\ Cardinality(Q) = Occurs(t, A)
  BY <1>1, <1>2, ShiftedSet DEF Occurs
<1>4. Places(s \o t, A) = Places(s, A) \cup Q
  <2>1. ASSUME NEW i \in Places(s \o t, A)
        PROVE  i \in Places(s, A) \cup Q
    <3>1. i \in 1 .. n + Len(t) /\ (IF i <= n THEN s[i] ELSE t[i - n]) \in A
      BY <1>1 DEF Places
    <3>2. CASE i <= n
      BY <1>1, <3>1, <3>2 DEF Places
    <3>3. CASE ~(i <= n)
      <4>1. i - n \in Places(t, A)
        BY <1>1, <3>1, <3>3 DEF Places
      <4>2. i = (i - n) + n
        BY <1>1, <3>1
      <4> QED
        BY <4>1, <4>2
    <3> QED
      BY <3>2, <3>3
  <2>2. ASSUME NEW i \in Places(s, A)
        PROVE  i \in Places(s \o t, A)
    <3>1. i \in 1 .. n + Len(t) /\ i <= n /\ s[i] \in A
      BY <1>1 DEF Places
    <3> QED
      BY <1>1, <3>1 DEF Places
  <2>3. ASSUME NEW i \in Q
        PROVE  i \in Places(s \o t, A)
    <3>1. PICK j \in Places(t, A) : i = j + n
      OBVIOUS
    <3>2. j \in 1 .. Len(t) /\ t[j] \in A
      BY <1>1 DEF Places
    <3>3. i \in 1 .. n + Len(t) /\ ~(i <= n) /\ i - n = j
      BY <1>1, <3>1, <3>2
    <3> QED
      BY <1>1, <3>2, <3>3 DEF Places
  <2> QED
    BY <2>1, <2>2, <2>3
<1>5. Disjoint(Places(s, A), Q)
  BY <1>1 DEF Places, Disjoint
<1> QED
  BY <1>2, <1>3, <1>4, <1>5, DisjointUnion DEF Occurs

\* One element occurs once or not at all.
LEMMA OccursOne ==
  ASSUME NEW x, NEW A
  PROVE  Occurs(<<x>>, A) = IF x \in A THEN 1 ELSE 0
<1>1. Places(<<x>>, A) = IF x \in A THEN {1} ELSE {}
  BY DEF Places
<1> QED
  BY <1>1, FS_EmptySet, FS_Singleton DEF Occurs

LEMMA OccursNone == \A A : Occurs(<<>>, A) = 0
<1>1. \A A : Places(<<>>, A) = {}
  BY DEF Places
<1> QED
  BY <1>1, FS_EmptySet DEF Occurs

LEMMA OccursAppend ==
  ASSUME NEW S, NEW s \in Seq(S), NEW x \in S, NEW A
  PROVE  /\ Append(s, x) \in Seq(S)
         /\ Range(Append(s, x)) = Range(s) \cup {x}
         /\ Occurs(Append(s, x), A) = Occurs(s, A) + IF x \in A THEN 1 ELSE 0
<1>1. <<x>> \in Seq(S) /\ Append(s, x) = s \o <<x>>
  BY AppendIsConcat
<1>2. Occurs(s \o <<x>>, A) = Occurs(s, A) + Occurs(<<x>>, A)
  BY <1>1, OccursCat
<1>3. Range(s \o <<x>>) = Range(s) \cup Range(<<x>>) /\ Append(s, x) \in Seq(S)
  BY <1>1, RangeCat, AppendProperties
<1> QED
  BY <1>1, <1>2, <1>3, OccursOne, RangeOne

LEMMA OccursPush ==
  ASSUME NEW S, NEW s \in Seq(S), NEW x \in S, NEW A
  PROVE  /\ <<x>> \o s \in Seq(S)
         /\ Range(<<x>> \o s) = Range(s) \cup {x}
         /\ Occurs(<<x>> \o s, A) = Occurs(s, A) + IF x \in A THEN 1 ELSE 0
<1>1. <<x>> \in Seq(S)
  OBVIOUS
<1>2. Occurs(<<x>> \o s, A) = Occurs(<<x>>, A) + Occurs(s, A)
  BY <1>1, OccursCat
<1>3. Occurs(<<x>>, A) \in Nat /\ Occurs(s, A) \in Nat
  BY <1>1, OccursType
<1>4. Occurs(<<x>> \o s, A) = Occurs(s, A) + Occurs(<<x>>, A)
  BY <1>2, <1>3
<1>5. <<x>> \o s \in Seq(S) /\ Range(<<x>> \o s) = Range(<<x>>) \cup Range(s)
  BY <1>1, RangeCat, ConcatProperties
<1> QED
  BY <1>4, <1>5, OccursOne, RangeOne

LEMMA OccursPop ==
  ASSUME NEW S, NEW s \in Seq(S), s # <<>>, NEW A
  PROVE  /\ Head(s) \in S
         /\ Tail(s) \in Seq(S)
         /\ Range(s) = Range(Tail(s)) \cup {Head(s)}
         /\ Occurs(s, A) = Occurs(Tail(s), A) + IF Head(s) \in A THEN 1 ELSE 0
<1>1. Head(s) \in S /\ Tail(s) \in Seq(S)
  BY EmptySeq, HeadTailProperties
<1>2. s = <<Head(s)>> \o Tail(s)
  BY <1>1, EmptySeq, SubSeqFull, SubSeqRecursiveFirst, TailIsSubSeq, HeadTailProperties
<1>3. PICK h \in S, t \in Seq(S) : h = Head(s) /\ t = Tail(s)
  BY <1>1
<1>4. s = <<h>> \o t
  BY <1>2, <1>3
<1>5. /\ Range(<<h>> \o t) = Range(t) \cup {h}
      /\ Occurs(<<h>> \o t, A) = Occurs(t, A) + IF h \in A THEN 1 ELSE 0
  BY OccursPush
<1> QED
  BY <1>3, <1>4, <1>5

\* What io_getevents takes; it leaves Drop(s, m).
Front(s, m) == SubSeq(s, 1, Smaller(m, Len(s)))

LEMMA OccursCut ==
  ASSUME NEW S, NEW s \in Seq(S), NEW m \in Nat \ {0}, NEW A
  PROVE  /\ Front(s, m) \in Seq(S) /\ Len(Front(s, m)) <= m /\ Drop(s, m) \in Seq(S)
         /\ Range(s) = Range(Front(s, m)) \cup Range(Drop(s, m))
         /\ Occurs(s, A) = Occurs(Front(s, m), A) + Occurs(Drop(s, m), A)
<1> DEFINE n == Smaller(m, Len(s))
           front == Front(s, m)
           rest == Drop(s, m)
<1>1. Len(s) \in Nat /\ \A k \in 1 .. Len(s) : s[k] \in S
  BY LenProperties, ElementOfSeq
<1>2. n \in 0 .. Len(s) /\ n <= m
  BY <1>1 DEF Smaller
<1>3. front \in Seq(S) /\ Len(front) = n
  BY <1>1, <1>2, SubSeqProperties DEF Front
<1>4. rest = SubSeq(s, n + 1, Len(s))
  <2>1. CASE m < Len(s)
    BY <2>1 DEF Drop, Smaller
  <2>2. CASE ~(m < Len(s))
    <3>1. n = Len(s)
      BY <2>2 DEF Smaller
    <3>2. SubSeq(s, n + 1, Len(s)) = <<>> /\ SubSeq(s, m + 1, Len(s)) = <<>>
      BY <1>1, <2>2, <3>1
    <3> QED
      BY <3>2 DEF Drop
  <2> QED
    BY <2>1, <2>2
<1> HIDE DEF n, front, rest
<1>5. rest \in Seq(S)
  BY <1>1, <1>2, <1>4, SubSeqProperties
<1>6. SubSeq(s, 1, n) \o SubSeq(s, n + 1, Len(s)) = SubSeq(s, 1, Len(s))
  <2>1. 1 \in 1 .. Len(s) + 1 /\ n \in 1 - 1 .. Len(s) /\ Len(s) \in n .. Len(s)
    BY <1>1, <1>2
  <2> QED
    BY <2>1, ConcatAdjacentSubSeq
<1>7. s = front \o rest
  BY <1>4, <1>6, SubSeqFull DEF n, front, Front
<1>8. /\ Range(front \o rest) = Range(front) \cup Range(rest)
      /\ Occurs(front \o rest, A) = Occurs(front, A) + Occurs(rest, A)
  BY <1>3, <1>5, OccursCat, RangeCat
<1> QED
  BY <1>2, <1>3, <1>5, <1>7, <1>8 DEF front, rest

-----------------------------------------------------------------------------
(***************************************************************************)
(* The operations under way                                                *)
(***************************************************************************)

Outcomes == [op : Operations, res : Error .. BufSize]

Mine(c) == {op \in Operations : op.client = c}
MineDone(c) == {k \in Outcomes : k.op.client = c}
Holders(W, c) == {w \in Workers : W[w] # NoOp /\ W[w].client = c}

\* InFlight and UnderWay of any stack p, workers W, AIO context k and batch e.
Flying(p, W, k, e) ==
  Range(p)
  \cup {W[w] : w \in {v \in Workers : W[v] # NoOp}}
  \cup {x.op : x \in Range(k) \cup Range(e)}

Count(p, W, k, e, c) ==
  Occurs(p, Mine(c)) + Cardinality(Holders(W, c))
  + Occurs(k, MineDone(c)) + Occurs(e, MineDone(c))

WorkerType == [Workers -> Operations \cup {NoOp}]

\* Types of what holds operations.
QueueInv ==
  /\ pending_ops \in Seq(Operations)
  /\ worker \in WorkerType
  /\ completions \in Seq(Outcomes)
  /\ events \in Seq(Outcomes)
  /\ Len(events) <= MaxEvents

LEMMA NoOpIsNone == NoOp \notin Operations
BY DEF NoOp, Operations

\* The workers with an operation of client c.
LEMMA HoldersType ==
  ASSUME NEW W \in WorkerType, NEW c
  PROVE  /\ IsFiniteSet(Holders(W, c))
         /\ Cardinality(Holders(W, c)) \in Nat
         /\ Cardinality(Holders(W, c)) = 0 <=> Holders(W, c) = {}
<1>1. IsFiniteSet(Holders(W, c))
  BY ProactorAssumption, FS_Subset DEF Holders
<1> QED
  BY <1>1, FS_CardinalityType, FS_EmptySet

\* A worker takes an operation.
LEMMA HoldersTake ==
  ASSUME NEW W \in WorkerType, NEW w \in Workers, W[w] = NoOp, NEW op \in Operations, NEW c
  PROVE  /\ [W EXCEPT ![w] = op] \in WorkerType
         /\ Cardinality(Holders([W EXCEPT ![w] = op], c))
              = Cardinality(Holders(W, c)) + IF op.client = c THEN 1 ELSE 0
<1> DEFINE V == [W EXCEPT ![w] = op]
<1>1. V \in WorkerType /\ V[w] = op /\ \A v \in Workers \ {w} : V[v] = W[v]
  BY DEF WorkerType
<1> HIDE DEF V
<1>2. w \notin Holders(W, c) /\ op # NoOp
  BY NoOpIsNone DEF Holders
<1>3. CASE op.client = c
  <2>1. Holders(V, c) = Holders(W, c) \cup {w}
    BY <1>1, <1>2, <1>3 DEF Holders
  <2> QED
    BY <1>1, <1>2, <1>3, <2>1, HoldersType, FS_AddElement DEF V
<1>4. CASE op.client # c
  <2>1. Holders(V, c) = Holders(W, c)
    BY <1>1, <1>2, <1>4 DEF Holders
  <2> QED
    BY <1>1, <1>4, <2>1, HoldersType DEF V
<1> QED
  BY <1>3, <1>4

\* A worker parts with its operation.
LEMMA HoldersLeave ==
  ASSUME NEW W \in WorkerType, NEW w \in Workers, W[w] # NoOp, NEW c
  PROVE  /\ W[w] \in Operations
         /\ [W EXCEPT ![w] = NoOp] \in WorkerType
         /\ Cardinality(Holders(W, c))
              = Cardinality(Holders([W EXCEPT ![w] = NoOp], c)) + IF W[w].client = c THEN 1 ELSE 0
<1>1. PICK op \in Operations : op = W[w]
  BY DEF WorkerType
<1>2. PICK V \in WorkerType : V = [W EXCEPT ![w] = NoOp]
  BY DEF WorkerType
<1>3. V[w] = NoOp
  BY <1>2 DEF WorkerType
<1>4. Cardinality(Holders([V EXCEPT ![w] = op], c))
        = Cardinality(Holders(V, c)) + IF op.client = c THEN 1 ELSE 0
  BY <1>3, HoldersTake
<1>5. W = [V EXCEPT ![w] = op]
  BY <1>1, <1>2 DEF WorkerType
<1> QED
  BY <1>1, <1>2, <1>4, <1>5

\* UnderWay counts; it is 0 for a client without an operation.
LEMMA CountType ==
  ASSUME NEW p \in Seq(Operations), NEW W \in WorkerType,
         NEW k \in Seq(Outcomes), NEW e \in Seq(Outcomes), NEW c
  PROVE  /\ Count(p, W, k, e, c) \in Nat
         /\ Occurs(p, Mine(c)) \in Nat
         /\ Cardinality(Holders(W, c)) \in Nat
         /\ Occurs(k, MineDone(c)) \in Nat
         /\ Occurs(e, MineDone(c)) \in Nat
         /\ Count(p, W, k, e, c) = 0 <=> \A op \in Flying(p, W, k, e) : op.client # c
<1>1. /\ Occurs(p, Mine(c)) \in Nat
      /\ Cardinality(Holders(W, c)) \in Nat
      /\ Occurs(k, MineDone(c)) \in Nat
      /\ Occurs(e, MineDone(c)) \in Nat
  BY OccursType, HoldersType
<1>2. Count(p, W, k, e, c) = 0 <=> /\ Occurs(p, Mine(c)) = 0
                                  /\ Cardinality(Holders(W, c)) = 0
                                  /\ Occurs(k, MineDone(c)) = 0
                                  /\ Occurs(e, MineDone(c)) = 0
  BY <1>1 DEF Count
<1>3. Occurs(p, Mine(c)) = 0 <=> \A i \in DOMAIN p : p[i].client # c
  <2>1. \A i \in DOMAIN p : p[i] \in Operations
    BY LenProperties, ElementOfSeq
  <2> QED
    BY <2>1, OccursType DEF Mine
<1>4. Cardinality(Holders(W, c)) = 0
        <=> \A op \in {W[w] : w \in {v \in Workers : W[v] # NoOp}} : op.client # c
  <2>1. Cardinality(Holders(W, c)) = 0 <=> Holders(W, c) = {}
    BY HoldersType
  <2> QED
    BY <2>1 DEF Holders
<1>5. ASSUME NEW s \in Seq(Outcomes)
      PROVE  Occurs(s, MineDone(c)) = 0 <=> \A i \in DOMAIN s : s[i].op.client # c
  <2>1. \A i \in DOMAIN s : s[i] \in Outcomes
    BY LenProperties, ElementOfSeq
  <2> QED
    BY <2>1, OccursType DEF MineDone
<1>6. Count(p, W, k, e, c) \in Nat
  BY <1>1 DEF Count
<1>7. /\ Occurs(k, MineDone(c)) = 0 <=> \A x \in Range(k) : x.op.client # c
      /\ Occurs(e, MineDone(c)) = 0 <=> \A x \in Range(e) : x.op.client # c
      /\ Occurs(p, Mine(c)) = 0 <=> \A op \in Range(p) : op.client # c
  BY <1>3, <1>5 DEF Range
<1> QED
  BY <1>1, <1>2, <1>4, <1>6, <1>7 DEF Flying

\* They are what Proactor says.
LEMMA CountIs ==
  ASSUME NEW p \in Seq(Operations), NEW W \in WorkerType,
         NEW k \in Seq(Outcomes), NEW e \in Seq(Outcomes), NEW c
  PROVE  /\ Occurs(p, Mine(c)) = Cardinality({i \in DOMAIN p : p[i].client = c})
         /\ Occurs(k, MineDone(c)) = Cardinality({i \in DOMAIN k : k[i].op.client = c})
         /\ Occurs(e, MineDone(c)) = Cardinality({i \in DOMAIN e : e[i].op.client = c})
<1>1. Places(p, Mine(c)) = {i \in DOMAIN p : p[i].client = c}
  <2>1. \A i \in DOMAIN p : p[i] \in Operations
    BY LenProperties, ElementOfSeq
  <2> QED
    BY <2>1 DEF Places, Mine
<1>2. ASSUME NEW s \in Seq(Outcomes)
      PROVE  Places(s, MineDone(c)) = {i \in DOMAIN s : s[i].op.client = c}
  <2>1. \A i \in DOMAIN s : s[i] \in Outcomes
    BY LenProperties, ElementOfSeq
  <2> QED
    BY <2>1 DEF Places, MineDone
<1> QED
  BY <1>1, <1>2 DEF Occurs

LEMMA UnderWayIs ==
  ASSUME QueueInv
  PROVE  /\ InFlight = Flying(pending_ops, worker, completions, events)
         /\ \A c \in Clients : UnderWay(c) = Count(pending_ops, worker, completions, events, c)
BY CountIs DEF InFlight, Flying, Range, UnderWay, Count, Holders, QueueInv

LEMMA UnderWayIsNext ==
  ASSUME QueueInv'
  PROVE  /\ InFlight' = Flying(pending_ops', worker', completions', events')
         /\ \A c \in Clients : UnderWay(c)' = Count(pending_ops', worker', completions', events', c)
BY CountIs DEF InFlight, Flying, Range, UnderWay, Count, Holders, QueueInv

One(op, c) == IF op # NoOp /\ op.client = c THEN 1 ELSE 0

\* What a step does to the operations under way: out leaves, in is new; either may
\* be NoOp.
Changes(out, in) ==
  /\ QueueInv'
  /\ out # NoOp => out \in InFlight
  /\ InFlight' \subseteq InFlight \cup {in}
  /\ \A c \in Clients : UnderWay(c)' + One(out, c) = UnderWay(c) + One(in, c)

\* What the moves share: the counts before and after decide.
LEMMA ChangesByCount ==
  ASSUME QueueInv, QueueInv', NEW out, NEW in,
         out # NoOp => out \in Flying(pending_ops, worker, completions, events),
         Flying(pending_ops', worker', completions', events')
           \subseteq Flying(pending_ops, worker, completions, events) \cup {in},
         \A c \in Clients :
           Count(pending_ops', worker', completions', events', c) + One(out, c)
             = Count(pending_ops, worker, completions, events, c) + One(in, c)
  PROVE  Changes(out, in)
BY UnderWayIs, UnderWayIsNext DEF Changes

LEMMA CountTypes ==
  ASSUME QueueInv, QueueInv', NEW c
  PROVE  /\ Occurs(pending_ops, Mine(c)) \in Nat /\ Occurs(pending_ops', Mine(c)) \in Nat
         /\ Cardinality(Holders(worker, c)) \in Nat
         /\ Cardinality(Holders(worker', c)) \in Nat
         /\ Occurs(completions, MineDone(c)) \in Nat
         /\ Occurs(completions', MineDone(c)) \in Nat
         /\ Occurs(events, MineDone(c)) \in Nat /\ Occurs(events', MineDone(c)) \in Nat
BY CountType DEF QueueInv

\* No queue is touched.
LEMMA QueuesRest ==
  ASSUME QueueInv, UNCHANGED <<pending_ops, worker, completions, events>>
  PROVE  Changes(NoOp, NoOp)
BY DEF Changes, QueueInv, InFlight, UnderWay, One

\* proactor_submit_operation, and the end of the completion that led to it.
LEMMA Submitted ==
  ASSUME QueueInv, NEW op \in Operations, pending_ops' = <<op>> \o pending_ops,
         UNCHANGED <<worker, completions, events>>
  PROVE  Changes(NoOp, op)
<1>1. QueueInv'
  BY OccursPush DEF QueueInv
<1>2. Range(pending_ops') = Range(pending_ops) \cup {op}
  BY OccursPush DEF QueueInv
<1>3. ASSUME NEW c \in Clients
      PROVE  Count(pending_ops', worker', completions', events', c) + One(NoOp, c)
               = Count(pending_ops, worker, completions, events, c) + One(op, c)
  <2>1. Occurs(pending_ops', Mine(c)) = Occurs(pending_ops, Mine(c)) + One(op, c)
    BY OccursPush, NoOpIsNone DEF QueueInv, Mine, One
  <2>2. PICK m \in {0, 1} : m = One(op, c)
    BY DEF One
  <2>3. PICK a \in Nat, h \in Nat, k \in Nat, b \in Nat :
          /\ a = Occurs(pending_ops, Mine(c)) /\ h = Cardinality(Holders(worker, c))
          /\ k = Occurs(completions, MineDone(c)) /\ b = Occurs(events, MineDone(c))
    BY <1>1, CountTypes
  <2>4. /\ Count(pending_ops, worker, completions, events, c) = a + h + k + b
        /\ Count(pending_ops', worker', completions', events', c) = a + m + h + k + b
    BY <2>1, <2>2, <2>3 DEF Count
  <2>5. One(op, c) = m /\ One(NoOp, c) = 0
    BY <2>2 DEF One
  <2> QED
    BY <2>4, <2>5
<1> QED
  BY <1>1, <1>2, <1>3, ChangesByCount DEF Flying

\* TakeOperation: from the stack to a worker.
LEMMA Taken ==
  ASSUME QueueInv, NEW w \in Workers, worker[w] = NoOp, pending_ops # <<>>,
         worker' = [worker EXCEPT ![w] = Head(pending_ops)],
         pending_ops' = Tail(pending_ops),
         UNCHANGED <<completions, events>>
  PROVE  Changes(NoOp, NoOp)
<1>1. PICK op \in Operations : op = Head(pending_ops)
  BY OccursPop DEF QueueInv
<1>2. /\ pending_ops' \in Seq(Operations)
      /\ Range(pending_ops) = Range(pending_ops') \cup {op}
  BY <1>1, OccursPop DEF QueueInv
<1>3. worker' = [worker EXCEPT ![w] = op] /\ worker' \in WorkerType
  BY <1>1, HoldersTake DEF QueueInv
<1>4. QueueInv'
  BY <1>2, <1>3 DEF QueueInv
<1>5. ASSUME NEW c \in Clients
      PROVE  Count(pending_ops', worker', completions', events', c) + One(NoOp, c)
               = Count(pending_ops, worker, completions, events, c) + One(NoOp, c)
  <2>1. Occurs(pending_ops, Mine(c)) = Occurs(pending_ops', Mine(c)) + One(op, c)
    BY <1>1, OccursPop, NoOpIsNone DEF QueueInv, Mine, One
  <2>2. PICK h \in Nat, g \in Nat :
          h = Cardinality(Holders(worker, c)) /\ g = Cardinality(Holders(worker', c))
    BY <1>4, CountTypes
  <2>3. g = h + One(op, c)
    <3>1. Cardinality(Holders([worker EXCEPT ![w] = op], c))
            = Cardinality(Holders(worker, c)) + IF op.client = c THEN 1 ELSE 0
      BY HoldersTake DEF QueueInv
    <3> QED
      BY <1>3, <2>2, <3>1, NoOpIsNone DEF One
  <2>4. PICK m \in {0, 1} : m = One(op, c)
    BY DEF One
  <2>5. PICK a \in Nat, k \in Nat, b \in Nat :
          /\ a = Occurs(pending_ops', Mine(c)) /\ k = Occurs(completions, MineDone(c))
          /\ b = Occurs(events, MineDone(c))
    BY <1>4, CountTypes
  <2>6. /\ Count(pending_ops, worker, completions, events, c) = a + m + h + k + b
        /\ Count(pending_ops', worker', completions', events', c) = a + g + k + b
    BY <2>1, <2>2, <2>4, <2>5 DEF Count
  <2>7. g = h + m /\ One(NoOp, c) = 0
    BY <2>3, <2>4 DEF One
  <2> QED
    BY <2>6, <2>7
<1>6. Flying(pending_ops', worker', completions', events')
        \subseteq Flying(pending_ops, worker, completions, events) \cup {NoOp}
  <2>1. \A v \in Workers : worker'[v] = op \/ worker'[v] = worker[v]
    BY <1>3 DEF QueueInv, WorkerType
  <2> QED
    BY <1>2, <2>1 DEF Flying
<1> QED
  BY <1>4, <1>5, <1>6, ChangesByCount

\* Completed: from a worker to the AIO context.
LEMMA Parted ==
  ASSUME QueueInv, NEW w \in Workers, worker[w] # NoOp, NEW res \in Error .. BufSize,
         completions' = Append(completions, Completion(worker[w], res)),
         worker' = [worker EXCEPT ![w] = NoOp],
         UNCHANGED <<pending_ops, events>>
  PROVE  Changes(NoOp, NoOp)
<1>1. PICK op \in Operations : op = worker[w]
  BY DEF QueueInv, WorkerType
<1>2. PICK x \in Outcomes : x = Completion(op, res)
  BY DEF Outcomes, Completion
<1>3. /\ completions' \in Seq(Outcomes)
      /\ Range(completions') = Range(completions) \cup {x}
  BY <1>1, <1>2, OccursAppend DEF QueueInv
<1>4. worker' \in WorkerType
  BY HoldersLeave DEF QueueInv
<1>5. QueueInv'
  BY <1>3, <1>4 DEF QueueInv
<1>6. ASSUME NEW c \in Clients
      PROVE  Count(pending_ops', worker', completions', events', c) + One(NoOp, c)
               = Count(pending_ops, worker, completions, events, c) + One(NoOp, c)
  <2>1. x \in MineDone(c) <=> op.client = c
    BY <1>2 DEF MineDone, Outcomes, Completion
  <2>2. Occurs(completions', MineDone(c)) = Occurs(completions, MineDone(c)) + One(op, c)
    BY <1>1, <1>2, <2>1, OccursAppend, NoOpIsNone DEF QueueInv, One
  <2>3. PICK h \in Nat, g \in Nat :
          h = Cardinality(Holders(worker, c)) /\ g = Cardinality(Holders(worker', c))
    BY <1>5, CountTypes
  <2>4. h = g + One(op, c)
    BY <1>1, <2>3, HoldersLeave DEF QueueInv, One
  <2>5. One(op, c) \in {0, 1} /\ One(NoOp, c) = 0
    BY DEF One
  <2>6. PICK k \in Nat, l \in Nat :
          k = Occurs(completions, MineDone(c)) /\ l = Occurs(completions', MineDone(c))
    BY <1>5, CountTypes
  <2>7. g + l = h + k
    BY <2>2, <2>4, <2>5, <2>6
  <2>8. PICK a \in Nat, b \in Nat :
          a = Occurs(pending_ops, Mine(c)) /\ b = Occurs(events, MineDone(c))
    BY <1>5, CountTypes
  <2>9. /\ Count(pending_ops, worker, completions, events, c) = a + h + k + b
        /\ Count(pending_ops', worker', completions', events', c) = a + g + l + b
    BY <2>3, <2>6, <2>8 DEF Count
  <2> QED
    BY <2>5, <2>7, <2>9
<1>7. Flying(pending_ops', worker', completions', events')
        \subseteq Flying(pending_ops, worker, completions, events) \cup {NoOp}
  <2>1. \A v \in Workers : worker'[v] = NoOp \/ worker'[v] = worker[v]
    BY DEF QueueInv, WorkerType
  <2>2. x.op = worker[w]
    BY <1>1, <1>2 DEF Completion
  <2> QED
    BY <1>3, <2>1, <2>2 DEF Flying
<1> QED
  BY <1>5, <1>6, <1>7, ChangesByCount

\* SubmitFails: a worker frees its operation.
LEMMA Freed ==
  ASSUME QueueInv, NEW w \in Workers, worker[w] # NoOp,
         worker' = [worker EXCEPT ![w] = NoOp],
         UNCHANGED <<pending_ops, completions, events>>
  PROVE  Changes(worker[w], NoOp)
<1>1. PICK op \in Operations : op = worker[w]
  BY DEF QueueInv, WorkerType
<1>2. QueueInv'
  BY HoldersLeave DEF QueueInv
<1>3. ASSUME NEW c \in Clients
      PROVE  Count(pending_ops', worker', completions', events', c) + One(op, c)
               = Count(pending_ops, worker, completions, events, c) + One(NoOp, c)
  <2>1. PICK h \in Nat, g \in Nat :
          h = Cardinality(Holders(worker, c)) /\ g = Cardinality(Holders(worker', c))
    BY <1>2, CountTypes
  <2>2. h = g + One(op, c)
    BY <1>1, <2>1, HoldersLeave DEF QueueInv, One
  <2>3. PICK m \in {0, 1} : m = One(op, c)
    BY DEF One
  <2>4. PICK a \in Nat, k \in Nat, b \in Nat :
          /\ a = Occurs(pending_ops, Mine(c)) /\ k = Occurs(completions, MineDone(c))
          /\ b = Occurs(events, MineDone(c))
    BY <1>2, CountTypes
  <2>5. /\ Count(pending_ops, worker, completions, events, c) = a + h + k + b
        /\ Count(pending_ops', worker', completions', events', c) = a + g + k + b
    BY <2>1, <2>4 DEF Count
  <2>6. h = g + m /\ One(op, c) = m /\ One(NoOp, c) = 0
    BY <2>2, <2>3 DEF One
  <2> QED
    BY <2>5, <2>6
<1>4. Flying(pending_ops', worker', completions', events')
        \subseteq Flying(pending_ops, worker, completions, events) \cup {NoOp}
  <2>1. \A v \in Workers : worker'[v] = NoOp \/ worker'[v] = worker[v]
    BY DEF QueueInv, WorkerType
  <2> QED
    BY <2>1 DEF Flying
<1>5. op \in Flying(pending_ops, worker, completions, events)
  BY <1>1 DEF Flying
<1>6. Changes(op, NoOp)
  BY <1>2, <1>3, <1>4, <1>5, UnderWayIs, UnderWayIsNext DEF Changes
<1> QED
  BY <1>1, <1>6

\* SubmitAgain: a worker puts its operation back on the stack.
LEMMA PutBack ==
  ASSUME QueueInv, NEW w \in Workers, worker[w] # NoOp,
         pending_ops' = <<worker[w]>> \o pending_ops,
         worker' = [worker EXCEPT ![w] = NoOp],
         UNCHANGED <<completions, events>>
  PROVE  Changes(NoOp, NoOp)
<1>1. PICK op \in Operations : op = worker[w]
  BY DEF QueueInv, WorkerType
<1>2. /\ pending_ops' \in Seq(Operations)
      /\ Range(pending_ops') = Range(pending_ops) \cup {op}
  BY <1>1, OccursPush DEF QueueInv
<1>3. QueueInv'
  BY <1>2, HoldersLeave DEF QueueInv
<1>4. ASSUME NEW c \in Clients
      PROVE  Count(pending_ops', worker', completions', events', c) + One(NoOp, c)
               = Count(pending_ops, worker, completions, events, c) + One(NoOp, c)
  <2>1. PICK h \in Nat, g \in Nat :
          h = Cardinality(Holders(worker, c)) /\ g = Cardinality(Holders(worker', c))
    BY <1>3, CountTypes
  <2>2. h = g + One(op, c)
    BY <1>1, <2>1, HoldersLeave DEF QueueInv, One
  <2>3. PICK m \in {0, 1} : m = One(op, c)
    BY DEF One
  <2>4. Occurs(pending_ops', Mine(c)) = Occurs(pending_ops, Mine(c)) + One(op, c)
    BY <1>1, OccursPush, NoOpIsNone DEF QueueInv, Mine, One
  <2>5. PICK a \in Nat, k \in Nat, b \in Nat :
          /\ a = Occurs(pending_ops, Mine(c)) /\ k = Occurs(completions, MineDone(c))
          /\ b = Occurs(events, MineDone(c))
    BY <1>3, CountTypes
  <2>6. /\ Count(pending_ops, worker, completions, events, c) = a + h + k + b
        /\ Count(pending_ops', worker', completions', events', c) = a + m + g + k + b
    BY <2>1, <2>3, <2>4, <2>5 DEF Count
  <2>7. h = g + m /\ One(NoOp, c) = 0
    BY <2>2, <2>3 DEF One
  <2> QED
    BY <2>6, <2>7
<1>5. Flying(pending_ops', worker', completions', events')
        \subseteq Flying(pending_ops, worker, completions, events) \cup {NoOp}
  <2>1. \A v \in Workers : worker'[v] = NoOp \/ worker'[v] = worker[v]
    BY DEF QueueInv, WorkerType
  <2> QED
    BY <1>1, <1>2, <2>1 DEF Flying
<1> QED
  BY <1>3, <1>4, <1>5, ChangesByCount

\* io_getevents: from the AIO context to the dispatcher.
LEMMA Reaped ==
  ASSUME QueueInv, events = <<>>, events' = Front(completions, MaxEvents),
         completions' = Drop(completions, MaxEvents),
         UNCHANGED <<pending_ops, worker>>
  PROVE  Changes(NoOp, NoOp)
<1>1. MaxEvents \in Nat \ {0}
  BY ProactorAssumption
<1>2. /\ events' \in Seq(Outcomes) /\ Len(events') <= MaxEvents /\ completions' \in Seq(Outcomes)
      /\ Range(completions) = Range(events') \cup Range(completions')
  BY <1>1, OccursCut DEF QueueInv
<1>3. QueueInv'
  BY <1>2 DEF QueueInv
<1>4. ASSUME NEW c \in Clients
      PROVE  Count(pending_ops', worker', completions', events', c) + One(NoOp, c)
               = Count(pending_ops, worker, completions, events, c) + One(NoOp, c)
  <2>1. Occurs(completions, MineDone(c))
          = Occurs(events', MineDone(c)) + Occurs(completions', MineDone(c))
    BY <1>1, OccursCut DEF QueueInv
  <2>2. Occurs(events, MineDone(c)) = 0
    BY OccursNone
  <2>3. PICK a \in Nat, h \in Nat, k \in Nat, b \in Nat :
          /\ a = Occurs(pending_ops, Mine(c)) /\ h = Cardinality(Holders(worker, c))
          /\ k = Occurs(completions', MineDone(c)) /\ b = Occurs(events', MineDone(c))
    BY <1>3, CountTypes
  <2>4. /\ Count(pending_ops, worker, completions, events, c) = a + h + (b + k)
        /\ Count(pending_ops', worker', completions', events', c) = a + h + k + b
    BY <2>1, <2>2, <2>3 DEF Count
  <2>5. One(NoOp, c) = 0
    BY DEF One
  <2> QED
    BY <2>4, <2>5
<1> QED
  BY <1>2, <1>3, <1>4, ChangesByCount DEF Flying

\* The dispatcher handles a completion and frees its operation.
LEMMA Handled ==
  ASSUME QueueInv, events # <<>>, events' = Tail(events),
         UNCHANGED <<pending_ops, worker, completions>>
  PROVE  Changes(Head(events).op, NoOp)
<1>1. PICK x \in Outcomes : x = Head(events)
  BY OccursPop DEF QueueInv
<1>2. x.op \in Operations /\ Head(events).op = x.op
  BY <1>1 DEF Outcomes
<1>3. /\ events' \in Seq(Outcomes) /\ Len(events') <= MaxEvents
      /\ Range(events) = Range(events') \cup {x}
  <2>1. Len(Tail(events)) = Len(events) - 1 /\ Len(events) \in Nat
    BY HeadTailProperties, LenProperties DEF QueueInv
  <2>2. MaxEvents \in Nat
    BY ProactorAssumption
  <2> QED
    BY <1>1, <2>1, <2>2, OccursPop DEF QueueInv
<1>4. QueueInv'
  BY <1>3 DEF QueueInv
<1>5. ASSUME NEW c \in Clients
      PROVE  Count(pending_ops', worker', completions', events', c) + One(Head(events).op, c)
               = Count(pending_ops, worker, completions, events, c) + One(NoOp, c)
  <2>1. x \in MineDone(c) <=> x.op.client = c
    BY DEF MineDone
  <2>2. Occurs(events, MineDone(c)) = Occurs(events', MineDone(c)) + One(x.op, c)
    BY <1>1, <1>2, <2>1, OccursPop, NoOpIsNone DEF QueueInv, One
  <2>3. PICK m \in {0, 1} : m = One(x.op, c)
    BY DEF One
  <2>4. PICK a \in Nat, h \in Nat, k \in Nat, b \in Nat :
          /\ a = Occurs(pending_ops, Mine(c)) /\ h = Cardinality(Holders(worker, c))
          /\ k = Occurs(completions, MineDone(c)) /\ b = Occurs(events', MineDone(c))
    BY <1>4, CountTypes
  <2>5. /\ Count(pending_ops, worker, completions, events, c) = a + h + k + (b + m)
        /\ Count(pending_ops', worker', completions', events', c) = a + h + k + b
    BY <2>2, <2>3, <2>4 DEF Count
  <2>6. One(Head(events).op, c) = m /\ One(NoOp, c) = 0
    BY <1>2, <2>3 DEF One
  <2> QED
    BY <2>5, <2>6
<1>6. /\ Head(events).op \in Flying(pending_ops, worker, completions, events)
      /\ Flying(pending_ops', worker', completions', events')
           \subseteq Flying(pending_ops, worker, completions, events) \cup {NoOp}
  BY <1>1, <1>2, <1>3 DEF Flying
<1> QED
  BY <1>4, <1>5, <1>6, ChangesByCount

\* The dispatcher handles a completion and submits the next operation.
LEMMA Replaced ==
  ASSUME QueueInv, events # <<>>, events' = Tail(events),
         NEW op \in Operations, pending_ops' = <<op>> \o pending_ops,
         UNCHANGED <<worker, completions>>
  PROVE  Changes(Head(events).op, op)
<1>1. PICK x \in Outcomes : x = Head(events)
  BY OccursPop DEF QueueInv
<1>2. x.op \in Operations /\ Head(events).op = x.op
  BY <1>1 DEF Outcomes
<1>3. /\ events' \in Seq(Outcomes) /\ Len(events') <= MaxEvents
      /\ Range(events) = Range(events') \cup {x}
  <2>1. Len(Tail(events)) = Len(events) - 1 /\ Len(events) \in Nat
    BY HeadTailProperties, LenProperties DEF QueueInv
  <2>2. MaxEvents \in Nat
    BY ProactorAssumption
  <2> QED
    BY <1>1, <2>1, <2>2, OccursPop DEF QueueInv
<1>4. /\ pending_ops' \in Seq(Operations)
      /\ Range(pending_ops') = Range(pending_ops) \cup {op}
  BY OccursPush DEF QueueInv
<1>5. QueueInv'
  BY <1>3, <1>4 DEF QueueInv
<1>6. ASSUME NEW c \in Clients
      PROVE  Count(pending_ops', worker', completions', events', c) + One(Head(events).op, c)
               = Count(pending_ops, worker, completions, events, c) + One(op, c)
  <2>1. x \in MineDone(c) <=> x.op.client = c
    BY DEF MineDone
  <2>2. Occurs(events, MineDone(c)) = Occurs(events', MineDone(c)) + One(x.op, c)
    BY <1>1, <1>2, <2>1, OccursPop, NoOpIsNone DEF QueueInv, One
  <2>3. PICK m \in {0, 1}, n \in {0, 1} : m = One(x.op, c) /\ n = One(op, c)
    BY DEF One
  <2>4. Occurs(pending_ops', Mine(c)) = Occurs(pending_ops, Mine(c)) + One(op, c)
    BY OccursPush, NoOpIsNone DEF QueueInv, Mine, One
  <2>5. PICK a \in Nat, h \in Nat, k \in Nat, b \in Nat :
          /\ a = Occurs(pending_ops, Mine(c)) /\ h = Cardinality(Holders(worker, c))
          /\ k = Occurs(completions, MineDone(c)) /\ b = Occurs(events', MineDone(c))
    BY <1>5, CountTypes
  <2>6. /\ Count(pending_ops, worker, completions, events, c) = a + h + k + (b + m)
        /\ Count(pending_ops', worker', completions', events', c) = a + n + h + k + b
    BY <2>2, <2>3, <2>4, <2>5 DEF Count
  <2>7. One(Head(events).op, c) = m
    BY <1>2, <2>3
  <2> QED
    BY <2>3, <2>6, <2>7
<1>7. /\ Head(events).op \in Flying(pending_ops, worker, completions, events)
      /\ Flying(pending_ops', worker', completions', events')
           \subseteq Flying(pending_ops, worker, completions, events) \cup {op}
  BY <1>1, <1>2, <1>3, <1>4 DEF Flying
<1> QED
  BY <1>5, <1>6, <1>7, ChangesByCount

\* The operations under way are operations, and they are counted in Nat; a client
\* has none exactly when none of them is its own.
LEMMA FlightType ==
  ASSUME QueueInv
  PROVE  InFlight \subseteq Operations /\ \A c \in Clients : UnderWay(c) \in Nat
<1>1. \A c \in Clients : Count(pending_ops, worker, completions, events, c) \in Nat
  BY CountType DEF QueueInv
<1>2. Range(pending_ops) \subseteq Operations
  BY LenProperties, ElementOfSeq DEF QueueInv, Range
<1>3. Range(completions) \subseteq Outcomes /\ Range(events) \subseteq Outcomes
  BY LenProperties, ElementOfSeq DEF QueueInv, Range
<1>4. {worker[w] : w \in {v \in Workers : worker[v] # NoOp}} \subseteq Operations
  BY DEF QueueInv, WorkerType
<1>5. Flying(pending_ops, worker, completions, events) \subseteq Operations
  BY <1>2, <1>3, <1>4 DEF Flying, Outcomes
<1> QED
  BY <1>1, <1>5, UnderWayIs

LEMMA FlightTypeNext ==
  ASSUME QueueInv'
  PROVE  InFlight' \subseteq Operations /\ \A c \in Clients : UnderWay(c)' \in Nat
<1>1. \A c \in Clients : Count(pending_ops', worker', completions', events', c) \in Nat
  BY CountType DEF QueueInv
<1>2. Range(pending_ops') \subseteq Operations
  BY LenProperties, ElementOfSeq DEF QueueInv, Range
<1>3. Range(completions') \subseteq Outcomes /\ Range(events') \subseteq Outcomes
  BY LenProperties, ElementOfSeq DEF QueueInv, Range
<1>4. {worker'[w] : w \in {v \in Workers : worker'[v] # NoOp}} \subseteq Operations
  BY DEF QueueInv, WorkerType
<1>5. Flying(pending_ops', worker', completions', events') \subseteq Operations
  BY <1>2, <1>3, <1>4 DEF Flying, Outcomes
<1> QED
  BY <1>1, <1>5, UnderWayIsNext

LEMMA NoneUnderWay ==
  ASSUME QueueInv, NEW c \in Clients
  PROVE  UnderWay(c) = 0 <=> \A op \in InFlight : op.client # c
<1>1. Count(pending_ops, worker, completions, events, c) = 0
        <=> \A op \in Flying(pending_ops, worker, completions, events) : op.client # c
  BY CountType DEF QueueInv
<1> QED
  BY <1>1, UnderWayIs

LEMMA NoneUnderWayNext ==
  ASSUME QueueInv', NEW c \in Clients
  PROVE  UnderWay(c)' = 0 <=> \A op \in InFlight' : op.client # c
<1>1. Count(pending_ops', worker', completions', events', c) = 0
        <=> \A op \in Flying(pending_ops', worker', completions', events') : op.client # c
  BY CountType DEF QueueInv
<1> QED
  BY <1>1, UnderWayIsNext

\* A client that gains what it loses has as many operations as before.
LEMMA SameCount ==
  ASSUME QueueInv, NEW out, NEW in, Changes(out, in), NEW c \in Clients,
         One(out, c) = One(in, c)
  PROVE  UnderWay(c)' = UnderWay(c)
<1>1. UnderWay(c) \in Nat /\ UnderWay(c)' \in Nat
  BY FlightType, FlightTypeNext DEF Changes
<1>2. UnderWay(c)' + One(out, c) = UnderWay(c) + One(in, c)
  BY DEF Changes
<1>3. PICK m \in {0, 1} : m = One(out, c) /\ m = One(in, c)
  BY DEF One
<1>4. UnderWay(c)' + m = UnderWay(c) + m
  BY <1>2, <1>3
<1> QED
  BY <1>1, <1>4

-----------------------------------------------------------------------------
(***************************************************************************)
(* The connections and the chain of operations of each                     *)
(***************************************************************************)

\* A client is waiting, connected or closed, and has one descriptor and one block.
TableInv ==
  /\ connections \in [Fds -> Blocks \cup {NoBlock}]
  /\ file \in [Fds -> Clients \cup {None}]
  /\ \A fd \in Fds : connections[fd] # NoBlock <=> file[fd] # None
  /\ \A fd, other \in Fds :
       connections[fd] = connections[other] /\ connections[fd] # NoBlock => fd = other
  /\ \A fd, other \in Fds : file[fd] = file[other] /\ file[fd] # None => fd = other
  /\ watched \subseteq {fd \in Fds : file[fd] # None}
  /\ closed \subseteq Clients
  /\ \A fd \in Fds : file[fd] \notin closed
  /\ backlog \in Seq(Clients) /\ IsInjective(backlog)
  /\ \A c \in Range(backlog) : c \notin closed /\ \A fd \in Fds : file[fd] # c

\* The descriptor and the block of an operation are still its client's, and no
\* other client's, unless the history says that the connection was disturbed.
Fits(op) ==
  /\ op.client \notin disturbed =>
       file[op.fd] = op.client /\ connections[op.fd] = op.block
  /\ \A fd \in Fds :
       /\ op.fd = fd \/ op.block = connections[fd]
       /\ file[fd] # None /\ file[fd] \notin disturbed
       => op.client = file[fd]

OpsFit == \A op \in InFlight : Fits(op)

\* OneOperation, and that an orphan has none.
OneChain ==
  \A c \in Clients \ disturbed : UnderWay(c) = IF c \in Open \ orphaned THEN 1 ELSE 0

ChainInv ==
  /\ OpsFit
  /\ OneChain
  /\ disturbed \subseteq Clients
  /\ orphaned \subseteq Clients

\* Only a client that has been accepted becomes an orphan.
OrphanInv == orphaned \subseteq Open \cup closed

\* No client has the name None, and Open are the clients behind a descriptor.
LEMMA OpenIs ==
  ASSUME NEW c \in Clients
  PROVE  /\ c # None
         /\ c \in Open <=> \E fd \in Fds : file[fd] = c
         /\ c \in Open' <=> \E fd \in Fds : file'[fd] = c
BY ProactorAssumption DEF Open

\* The operations move between the queues.
LEMMA ChainRests ==
  ASSUME QueueInv, TableInv, ChainInv, NEW out, NEW in, Changes(out, in),
         \A c \in Clients : One(out, c) = One(in, c),
         in \in InFlight \cup {NoOp},
         UNCHANGED <<connections, file, orphaned, disturbed>>
  PROVE  ChainInv'
<1>1. \A c \in Clients : UnderWay(c)' = UnderWay(c)
  BY SameCount
<1>2. InFlight' \subseteq InFlight
  BY FlightTypeNext, NoOpIsNone DEF Changes
<1>3. OpsFit'
  BY <1>2 DEF ChainInv, OpsFit, Fits
<1>4. Open' = Open
  BY DEF Open
<1>5. OneChain'
  BY <1>1, <1>4 DEF ChainInv, OneChain
<1> QED
  BY <1>3, <1>5 DEF ChainInv

\* An operation is freed whose client is disturbed or becomes an orphan.
LEMMA ChainLoses ==
  ASSUME QueueInv, TableInv, ChainInv, NEW out \in Operations, Changes(out, NoOp),
         UNCHANGED <<connections, file, disturbed>>,
         orphaned \subseteq orphaned', orphaned' \subseteq Clients,
         orphaned' \subseteq orphaned \cup disturbed \cup {out.client},
         out.client \in disturbed \cup orphaned'
  PROVE  ChainInv'
<1>1. \A c \in Clients \ (disturbed \cup {out.client}) : UnderWay(c)' = UnderWay(c)
  <2> SUFFICES ASSUME NEW c \in Clients \ (disturbed \cup {out.client})
               PROVE  UnderWay(c)' = UnderWay(c)
    OBVIOUS
  <2>1. One(out, c) = One(NoOp, c)
    BY DEF One
  <2> QED
    BY <2>1, SameCount
<1>2. InFlight' \subseteq InFlight
  BY FlightTypeNext, NoOpIsNone DEF Changes
<1>3. OpsFit'
  BY <1>2 DEF ChainInv, OpsFit, Fits
<1>4. Open' = Open
  BY DEF Open
<1>5. out.client \notin disturbed => UnderWay(out.client)' = 0
  <2> SUFFICES ASSUME out.client \notin disturbed
               PROVE  UnderWay(out.client)' = 0
    OBVIOUS
  <2>1. PICK c \in Clients : c = out.client
    BY DEF Operations
  <2>2. UnderWay(c)' + 1 = UnderWay(c) + 0
    BY <2>1, NoOpIsNone DEF Changes, One
  <2>3. UnderWay(c) \in {0, 1}
    BY <2>1 DEF ChainInv, OneChain
  <2>4. UnderWay(c)' \in Nat
    BY FlightTypeNext DEF Changes
  <2> QED
    BY <2>1, <2>2, <2>3, <2>4
<1>6. OneChain'
  <2> SUFFICES ASSUME NEW c \in Clients \ disturbed
               PROVE  UnderWay(c)' = IF c \in Open \ orphaned' THEN 1 ELSE 0
    BY <1>4 DEF OneChain
  <2>1. CASE c = out.client
    BY <1>5, <2>1
  <2>2. CASE c # out.client
    BY <1>1, <2>2 DEF ChainInv, OneChain
  <2> QED
    BY <2>1, <2>2
<1> QED
  BY <1>3, <1>6 DEF ChainInv

\* A completion leads to the next operation of its connection.
LEMMA ChainGoesOn ==
  ASSUME QueueInv, TableInv, ChainInv, NEW out \in Operations, NEW in \in Operations,
         Changes(out, in), in.fd = out.fd, in.block = out.block,
         connections[out.fd] = out.block, in.client = file[out.fd],
         UNCHANGED <<connections, file, orphaned, disturbed>>
  PROVE  ChainInv'
<1>1. out \in InFlight /\ Fits(out) /\ out.fd \in Fds /\ out.client \in Clients
  BY NoOpIsNone DEF Changes, ChainInv, OpsFit, Operations
<1>2. in.client \in Clients /\ in.client # None
  BY ProactorAssumption DEF Operations
<1>3. out.client \notin disturbed => in.client = out.client
  BY <1>1 DEF Fits
<1>4. out.client \in disturbed => in.client \in disturbed
  BY <1>1, <1>2 DEF Fits
<1>5. Fits(in)
  BY <1>1, <1>2, <1>3, <1>4 DEF Fits
<1>6. \A c \in Clients \ disturbed : UnderWay(c)' = UnderWay(c)
  <2> SUFFICES ASSUME NEW c \in Clients \ disturbed
               PROVE  UnderWay(c)' = UnderWay(c)
    OBVIOUS
  <2>1. One(out, c) = One(in, c)
    BY <1>3, <1>4, NoOpIsNone DEF One
  <2> QED
    BY <2>1, SameCount
<1>7. OpsFit'
  BY <1>5 DEF ChainInv, Changes, OpsFit, Fits
<1>8. Open' = Open
  BY DEF Open
<1>9. OneChain'
  BY <1>6, <1>8 DEF ChainInv, OneChain
<1> QED
  BY <1>7, <1>9 DEF ChainInv

\* A connection is removed: by epoll while out is NoOp, or by the completion out.
LEMMA ChainEnds ==
  ASSUME QueueInv, TableInv, ChainInv, NEW fd \in Fds, file[fd] # None,
         NEW out, out # NoOp => out \in Operations /\ out.fd = fd, Changes(out, NoOp),
         file' = [file EXCEPT ![fd] = None],
         connections' = [connections EXCEPT ![fd] = NoBlock],
         disturbed' = IF UnderWay(file[fd]) - One(out, file[fd]) > 0
                      THEN disturbed \cup {file[fd]} ELSE disturbed,
         UNCHANGED orphaned
  PROVE  ChainInv'
<1>1. PICK c \in Clients : c = file[fd]
  BY DEF TableInv
<1>2. UnderWay(c) \in Nat /\ UnderWay(c)' \in Nat /\ One(out, c) \in {0, 1}
  BY FlightType, FlightTypeNext DEF Changes, One
<1>3. UnderWay(c)' = UnderWay(c) - One(out, c)
  <2>1. UnderWay(c)' + One(out, c) = UnderWay(c) + 0
    BY DEF Changes, One
  <2> QED
    BY <1>2, <2>1
<1>4. c \notin disturbed' => UnderWay(c)' = 0
  BY <1>1, <1>2, <1>3
<1>5. disturbed' \subseteq disturbed \cup {c} /\ disturbed \subseteq disturbed'
  BY <1>1
<1>6. /\ \A n \in Fds \ {fd} : file'[n] = file[n] /\ connections'[n] = connections[n]
      /\ file'[fd] = None
  BY DEF TableInv
<1>7. InFlight' \subseteq InFlight /\ InFlight \subseteq Operations
  BY FlightType, FlightTypeNext, NoOpIsNone DEF Changes
<1>8. OpsFit'
  <2> SUFFICES ASSUME NEW op \in InFlight'
               PROVE  Fits(op)'
    BY DEF OpsFit
  <2>1. Fits(op) /\ op.fd \in Fds /\ op.client \in Clients
    BY <1>7 DEF ChainInv, OpsFit, Operations
  <2>2. c \notin disturbed' => op.client # c
    BY <1>4, NoneUnderWayNext DEF Changes
  <2>3. op.client \notin disturbed' => op.fd # fd
    BY <1>1, <1>5, <2>1, <2>2 DEF Fits
  <2> QED
    BY <1>5, <1>6, <2>1, <2>3 DEF Fits
<1>9. \A d \in Clients : d \in Open' <=> d \in Open /\ d # c
  <2> SUFFICES ASSUME NEW d \in Clients
               PROVE  d \in Open' <=> d \in Open /\ d # c
    OBVIOUS
  <2>1. (\E n \in Fds : file'[n] = d) <=> (\E n \in Fds : file[n] = d) /\ d # c
    BY <1>1, <1>6, OpenIs DEF TableInv
  <2> QED
    BY <2>1, OpenIs
<1>10. \A d \in Clients \ (disturbed' \cup {c}) : UnderWay(d)' = UnderWay(d)
  <2> SUFFICES ASSUME NEW d \in Clients \ (disturbed' \cup {c})
               PROVE  UnderWay(d)' = UnderWay(d)
    OBVIOUS
  <2>1. ASSUME out # NoOp
        PROVE  out.client # d
    <3>1. Fits(out)
      BY <2>1 DEF Changes, ChainInv, OpsFit
    <3> QED
      BY <1>1, <1>5, <2>1, <3>1 DEF Fits
  <2>2. One(out, d) = One(NoOp, d)
    BY <2>1 DEF One
  <2> QED
    BY <2>2, SameCount
<1>11. OneChain'
  <2> SUFFICES ASSUME NEW d \in Clients \ disturbed'
               PROVE  UnderWay(d)' = IF d \in Open' \ orphaned THEN 1 ELSE 0
    BY DEF OneChain
  <2>1. CASE d = c
    BY <1>4, <1>9, <2>1
  <2>2. CASE d # c
    BY <1>5, <1>9, <1>10, <2>2 DEF ChainInv, OneChain
  <2> QED
    BY <2>1, <2>2
<1>12. disturbed' \subseteq Clients /\ orphaned' \subseteq Clients
  BY <1>5 DEF ChainInv
<1> QED
  BY <1>8, <1>11, <1>12 DEF ChainInv

\* A connection is set up with a free descriptor and a free block; in is its first
\* read, or NoOp and the client is an orphan.
LEMMA ChainBegins ==
  ASSUME QueueInv, TableInv, ChainInv, NEW c \in Clients, c \notin Open \cup orphaned,
         NEW fd \in Fds, file[fd] = None, NEW b \in Blocks, b \in FreeBlocks,
         NEW in, Changes(NoOp, in),
         \/ in \in Operations /\ in.fd = fd /\ in.block = b /\ in.client = c /\ UNCHANGED orphaned
         \/ in = NoOp /\ orphaned' = orphaned \cup {c},
         file' = [file EXCEPT ![fd] = c],
         connections' = [connections EXCEPT ![fd] = b],
         disturbed' = IF \E op \in InFlight : op.fd = fd \/ op.block = b
                      THEN disturbed \cup {c} ELSE disturbed
  PROVE  ChainInv'
<1>1. /\ \A n \in Fds \ {fd} : file'[n] = file[n] /\ connections'[n] = connections[n]
      /\ file'[fd] = c /\ connections'[fd] = b
  BY DEF TableInv
<1>2. disturbed \subseteq disturbed' /\ disturbed' \subseteq disturbed \cup {c}
  OBVIOUS
<1>3. c \notin disturbed' => \A op \in InFlight : op.fd # fd /\ op.block # b
  BY DEF TableInv
<1>4. c # None /\ b # NoBlock /\ \A n \in Fds : file[n] # c /\ connections[n] # b
  BY OpenIs DEF Blocks, NoBlock, FreeBlocks
<1>5. InFlight \subseteq Operations
  BY FlightType
<1>6. ASSUME NEW op \in InFlight
      PROVE  Fits(op)'
  <2>1. Fits(op) /\ op.fd \in Fds /\ op.client \in Clients
    BY <1>5 DEF ChainInv, OpsFit, Operations
  <2>2. op.client \notin disturbed' => file'[op.fd] = op.client /\ connections'[op.fd] = op.block
    <3>1. ASSUME op.client \notin disturbed'
          PROVE  op.fd # fd
      BY <1>2, <2>1, <3>1, ProactorAssumption DEF Fits
    <3> QED
      BY <1>1, <1>2, <2>1, <3>1 DEF Fits
  <2>3. ASSUME NEW n \in Fds, op.fd = n \/ op.block = connections'[n],
               file'[n] # None, file'[n] \notin disturbed'
        PROVE  op.client = file'[n]
    <3>1. n # fd
      BY <1>1, <1>3, <2>3
    <3> QED
      BY <1>1, <1>2, <2>1, <2>3, <3>1 DEF Fits
  <2> QED
    BY <2>2, <2>3 DEF Fits
<1>7. ASSUME in # NoOp
      PROVE  Fits(in)'
  <2>1. in.fd = fd /\ in.block = b /\ in.client = c
    BY <1>7
  <2>2. \A n \in Fds : in.fd = n \/ in.block = connections'[n] => n = fd
    BY <1>1, <1>4, <2>1
  <2> QED
    BY <1>1, <2>1, <2>2 DEF Fits
<1>8. OpsFit'
  <2> SUFFICES ASSUME NEW op \in InFlight'
               PROVE  Fits(op)'
    BY DEF OpsFit
  <2>1. op \in InFlight \cup {in} /\ op # NoOp
    BY FlightTypeNext, NoOpIsNone DEF Changes
  <2> QED
    BY <1>6, <1>7, <2>1
<1>9. \A d \in Clients : d \in Open' <=> d \in Open \/ d = c
  <2> SUFFICES ASSUME NEW d \in Clients
               PROVE  d \in Open' <=> d \in Open \/ d = c
    OBVIOUS
  <2>1. (\E n \in Fds : file'[n] = d) <=> (\E n \in Fds : file[n] = d) \/ d = c
    BY <1>1, OpenIs
  <2> QED
    BY <2>1, OpenIs
<1>10. \A d \in Clients \ {c} : UnderWay(d)' = UnderWay(d)
  <2> SUFFICES ASSUME NEW d \in Clients \ {c}
               PROVE  UnderWay(d)' = UnderWay(d)
    OBVIOUS
  <2>1. One(NoOp, d) = One(in, d)
    BY DEF One
  <2> QED
    BY <2>1, SameCount
<1>11. c \notin disturbed' => UnderWay(c)' = IF c \in orphaned' THEN 0 ELSE 1
  <2> SUFFICES ASSUME c \notin disturbed'
               PROVE  UnderWay(c)' = IF c \in orphaned' THEN 0 ELSE 1
    OBVIOUS
  <2>1. UnderWay(c) = 0
    BY <1>2 DEF ChainInv, OneChain
  <2>2. UnderWay(c)' + 0 = UnderWay(c) + One(in, c)
    BY DEF Changes, One
  <2>3. One(in, c) = IF c \in orphaned' THEN 0 ELSE 1
    BY NoOpIsNone DEF One
  <2>4. UnderWay(c)' \in Nat
    BY FlightTypeNext DEF Changes
  <2> QED
    BY <2>1, <2>2, <2>3, <2>4
<1>12. OneChain'
  <2> SUFFICES ASSUME NEW d \in Clients \ disturbed'
               PROVE  UnderWay(d)' = IF d \in Open' \ orphaned' THEN 1 ELSE 0
    BY DEF OneChain
  <2>1. CASE d = c
    BY <1>9, <1>11, <2>1
  <2>2. CASE d # c
    BY <1>2, <1>9, <1>10, <2>2 DEF ChainInv, OneChain
  <2> QED
    BY <2>1, <2>2
<1>13. disturbed' \subseteq Clients /\ orphaned' \subseteq Clients
  BY <1>2 DEF ChainInv
<1> QED
  BY <1>8, <1>12, <1>13 DEF ChainInv

-----------------------------------------------------------------------------
(***************************************************************************)
(* main and the dispatcher                                                 *)
(***************************************************************************)

\* A set of numbers that is not empty has a least member.
LEMMA LeastMember ==
  ASSUME NEW S, S \subseteq Nat, S # {}
  PROVE  \E n \in S : \A m \in S : n <= m
<1> DEFINE R == {ss \in Nat \X Nat : ss[1] < ss[2]}
<1>1. IsWellFoundedOn(R, Nat)
  BY NatLessThanWellFounded DEF OpToRel
<1> HIDE DEF R
<1>2. PICK n \in S : \A m \in S : <<m, n>> \notin R
  BY <1>1, WFMin
<1>3. ASSUME NEW m \in S
      PROVE  n <= m
  <2>1. <<m, n>> \notin R /\ m \in Nat /\ n \in Nat
    BY <1>2
  <2> QED
    BY <2>1 DEF R
<1> QED
  BY <1>3

\* accept returns the lowest descriptor that is free.
LEMMA LowestFree ==
  ASSUME FreeFds # {}
  PROVE  (CHOOSE n \in FreeFds : \A m \in FreeFds : n <= m) \in FreeFds
<1>1. FreeFds \subseteq Nat
  BY ProactorAssumption DEF FreeFds, Fds
<1>2. \E n \in FreeFds : \A m \in FreeFds : n <= m
  BY <1>1, LeastMember
<1> QED
  BY <1>2

\* What epoll_wait reports are descriptors, none of them twice.
LEMMA OrdersAre ==
  ASSUME NEW S, IsFiniteSet(S), NEW s \in Orders(S)
  PROVE  s \in Seq(S) /\ IsInjective(s)
<1>1. Cardinality(S) \in Nat
  BY FS_CardinalityType
<1>2. s \in Surjection(1 .. Cardinality(S), S)
  BY <1>1 DEF Orders, Surjection
<1>3. IsFiniteSet(1 .. Cardinality(S)) /\ Cardinality(1 .. Cardinality(S)) = Cardinality(S)
  BY <1>1, FS_CountingElements, FS_Interval
<1>4. s \in Injection(1 .. Cardinality(S), S)
  BY <1>2, <1>3, FS_SurjSameCardinalityImpliesInj
<1>5. s \in Bijection(1 .. Cardinality(S), S)
  BY <1>2, <1>4 DEF Bijection
<1> QED
  BY <1>5, ListOfSet

\* The dispatcher runs between the creation of the threads and their end; what
\* epoll_wait and io_getevents returned is handled before the next call, and
\* an event names a connection that is still open.
ControlInv ==
  /\ main \in {"create", "run", "stop", "join", "exit", "undefined"}
  /\ running \in BOOLEAN
  /\ dispatcher \in {"none", "epoll", "event", "reap", "complete", "stopped"}
  /\ main \in {"create", "join"} \/ (main = "stop" /\ running) => dispatcher = "none"
  /\ dispatcher = "none" => \A fd \in Fds : file[fd] = None
  /\ dispatcher # "event" => epoll_events = <<>>
  /\ dispatcher # "complete" => events = <<>>
  /\ epoll_events \in Seq(Fds \cup {Listen})
  /\ IsInjective(epoll_events)
  /\ \A fd \in Range(epoll_events) \ {Listen} : file[fd] # None

\* The event that the dispatcher handles, and what is left.
LEMMA NextEventIs ==
  ASSUME ControlInv, epoll_events # <<>>
  PROVE  /\ Head(epoll_events) \in Fds \cup {Listen}
         /\ Head(epoll_events) # Listen => file[Head(epoll_events)] # None
         /\ Tail(epoll_events) \in Seq(Fds \cup {Listen})
         /\ IsInjective(Tail(epoll_events))
         /\ \A fd \in Range(Tail(epoll_events)) \ {Listen} :
              file[fd] # None /\ fd # Head(epoll_events)
<1>1. epoll_events \in Seq(Fds \cup {Listen}) /\ IsInjective(epoll_events)
  BY DEF ControlInv
<1>2. /\ Range(epoll_events) = {Head(epoll_events)} \cup Range(Tail(epoll_events))
      /\ Head(epoll_events) \notin Range(Tail(epoll_events))
      /\ IsInjective(Tail(epoll_events))
  BY <1>1, RangeTail
<1>3. Head(epoll_events) \in Fds \cup {Listen} /\ Tail(epoll_events) \in Seq(Fds \cup {Listen})
  BY <1>1, EmptySeq, HeadTailProperties
<1> QED
  BY <1>2, <1>3 DEF ControlInv

\* The completion that the dispatcher handles.
LEMMA DoneIs ==
  ASSUME QueueInv, events # <<>>
  PROVE  /\ Done.op \in Operations /\ Done.res \in Error .. BufSize
         /\ Done.op.fd \in Fds /\ Done.op.block \in Blocks /\ Done.op.client \in Clients
<1>1. Done \in Outcomes
  BY OccursPop DEF QueueInv, Done
<1> QED
  BY <1>1 DEF Outcomes, Operations

-----------------------------------------------------------------------------
(***************************************************************************)
(* TableInv                                                                *)
(***************************************************************************)

\* proactor_remove_connection
LEMMA RemoveTable ==
  ASSUME TableInv, NEW fd \in Fds, file[fd] # None, Remove(fd), UNCHANGED backlog
  PROVE  TableInv'
<1>1. PICK c \in Clients : c = file[fd]
  BY DEF TableInv
<1>2. /\ file' = [file EXCEPT ![fd] = None] /\ connections' = [connections EXCEPT ![fd] = NoBlock]
      /\ watched' = watched \ {fd} /\ closed' = closed \cup {c}
  BY <1>1 DEF Remove
<1>3. /\ file' \in [Fds -> Clients \cup {None}]
      /\ connections' \in [Fds -> Blocks \cup {NoBlock}]
      /\ file'[fd] = None /\ connections'[fd] = NoBlock
      /\ \A n \in Fds \ {fd} : file'[n] = file[n] /\ connections'[n] = connections[n]
  BY <1>2 DEF TableInv
<1>4. c # None
  BY OpenIs
<1>5. \A n \in Fds : file'[n] \notin closed'
  BY <1>1, <1>2, <1>3, <1>4, ProactorAssumption DEF TableInv
<1>6. \A d \in Range(backlog) : d \notin closed' /\ \A n \in Fds : file'[n] # d
  <2> SUFFICES ASSUME NEW d \in Range(backlog)
               PROVE  d \notin closed' /\ \A n \in Fds : file'[n] # d
    OBVIOUS
  <2>1. d \in Clients /\ d # None
    BY LenProperties, ElementOfSeq, ProactorAssumption DEF TableInv, Range
  <2> QED
    BY <1>1, <1>2, <1>3, <2>1 DEF TableInv
<1>7. watched' \subseteq {n \in Fds : file'[n] # None} /\ closed' \subseteq Clients
  BY <1>2, <1>3 DEF TableInv
<1>8. /\ \A n \in Fds : connections'[n] # NoBlock <=> file'[n] # None
      /\ \A n, o \in Fds : connections'[n] = connections'[o] /\ connections'[n] # NoBlock => n = o
      /\ \A n, o \in Fds : file'[n] = file'[o] /\ file'[n] # None => n = o
  BY <1>3 DEF TableInv
<1> QED
  BY <1>3, <1>5, <1>6, <1>7, <1>8 DEF TableInv

\* The client that accept takes, and those that go on waiting.
LEMMA NextClientIs ==
  ASSUME TableInv, backlog # <<>>
  PROVE  /\ Head(backlog) \in Clients
         /\ Head(backlog) \notin closed /\ Head(backlog) \notin Open
         /\ Tail(backlog) \in Seq(Clients) /\ IsInjective(Tail(backlog))
         /\ \A c \in Range(Tail(backlog)) :
              /\ c # Head(backlog)
              /\ c \notin closed
              /\ \A fd \in Fds : file[fd] # c
<1>1. /\ Range(backlog) = {Head(backlog)} \cup Range(Tail(backlog))
      /\ Head(backlog) \notin Range(Tail(backlog))
      /\ IsInjective(Tail(backlog))
  BY RangeTail DEF TableInv
<1>2. Head(backlog) \in Clients /\ Tail(backlog) \in Seq(Clients)
  BY EmptySeq, HeadTailProperties DEF TableInv
<1> QED
  BY <1>1, <1>2, OpenIs DEF TableInv

\* setup_new_connection
LEMMA SetUpTable ==
  ASSUME TableInv, backlog # <<>>, backlog' = Tail(backlog),
         NEW c \in Clients, c = Head(backlog),
         NEW fd \in Fds, file[fd] = None, NEW b \in Blocks, b \in FreeBlocks,
         file' = [file EXCEPT ![fd] = c],
         connections' = [connections EXCEPT ![fd] = b],
         watched' \subseteq watched \cup {fd}, UNCHANGED closed
  PROVE  TableInv'
<1>1. /\ file' \in [Fds -> Clients \cup {None}]
      /\ connections' \in [Fds -> Blocks \cup {NoBlock}]
      /\ file'[fd] = c /\ connections'[fd] = b
      /\ \A n \in Fds \ {fd} : file'[n] = file[n] /\ connections'[n] = connections[n]
  BY DEF TableInv
<1>2. /\ c # None /\ b # NoBlock /\ c \notin closed
      /\ \A n \in Fds : file[n] # c /\ connections[n] # b
  BY NextClientIs, OpenIs DEF Blocks, NoBlock, FreeBlocks
<1>3. /\ \A n \in Fds : connections'[n] # NoBlock <=> file'[n] # None
      /\ \A n, o \in Fds : connections'[n] = connections'[o] /\ connections'[n] # NoBlock => n = o
      /\ \A n, o \in Fds : file'[n] = file'[o] /\ file'[n] # None => n = o
      /\ \A n \in Fds : file'[n] \notin closed
      /\ watched' \subseteq {n \in Fds : file'[n] # None}
  BY <1>1, <1>2 DEF TableInv
<1>4. \A d \in Range(backlog') : d \notin closed /\ \A n \in Fds : file'[n] # d
  BY <1>1, NextClientIs
<1> QED
  BY <1>1, <1>3, <1>4, NextClientIs DEF TableInv

\* The other operations do not touch the table.
tableRest == <<tableVars, backlog>>

LEMMA TableMoves ==
  ASSUME [Next]_vars
  PROVE  \/ UNCHANGED tableRest
         \/ Hangup \/ HandleNewConnection \/ RefuseConnection \/ CompleteEnd \/ JoinAndClean
         \/ \E c \in Clients : Connect(c)
<1> USE DEF tableRest, tableVars, clientVars
<1>1. CASE \E w \in Workers : Worker(w)
  BY <1>1 DEF Worker, TakeOperation, WorkerStops, SubmitOk, SubmitRead, SubmitReadNone,
              SubmitWrite, SubmitWriteNone, Completed, SubmitFails, SubmitAgain
<1>2. CASE Dispatcher
  BY <1>2 DEF Dispatcher, WaitForEvents, EventsDone, Reap, DropCompletion, CompleteAgain,
              CompleteRead, CompleteWrite, CompletionsDone
<1>3. CASE Main
  BY <1>3 DEF Main, CreateWorker, CreateDispatcher, CreateFails, RunEnds, Stop, StopReturns,
              JoinUndefined, serverVars
<1>4. CASE Signal
  BY <1>4 DEF Signal, serverVars
<1>5. CASE \E c \in Clients : Client(c)
  BY <1>5 DEF Client, ClientSend, ClientReceive, ClientFin, ClientReset, OnSocket
<1>6. CASE UNCHANGED vars
  BY <1>6 DEF vars
<1> QED
  BY <1>1, <1>2, <1>3, <1>4, <1>5, <1>6 DEF Next

LEMMA TableStep ==
  ASSUME QueueInv, TableInv, ControlInv, [Next]_vars
  PROVE  TableInv'
<1>1. CASE UNCHANGED tableRest
  BY <1>1 DEF TableInv, tableRest, tableVars
<1>2. CASE Hangup
  <2>1. /\ Head(epoll_events) \in Fds /\ file[Head(epoll_events)] # None
        /\ Remove(Head(epoll_events)) /\ UNCHANGED backlog
    BY <1>2, NextEventIs DEF Hangup, clientVars
  <2> QED
    BY <2>1, RemoveTable
<1>3. CASE HandleNewConnection
  <2>1. /\ backlog # <<>> /\ backlog' = Tail(backlog) /\ FreeFds # {} /\ UNCHANGED closed
    BY <1>3 DEF HandleNewConnection, Accepts
  <2>2. PICK c \in Clients : c = Head(backlog)
    BY <2>1, NextClientIs
  <2>3. PICK fd \in FreeFds : fd = CHOOSE n \in FreeFds : \A m \in FreeFds : n <= m
    BY <2>1, LowestFree
  <2>4. PICK b \in FreeBlocks : /\ connections' = [connections EXCEPT ![fd] = b]
                                /\ file' = [file EXCEPT ![fd] = c]
                                /\ watched' \in {watched \cup {fd}, watched}
    BY <1>3, <2>2, <2>3 DEF HandleNewConnection
  <2>5. fd \in Fds /\ file[fd] = None /\ b \in Blocks
    BY DEF FreeFds, FreeBlocks
  <2>6. watched' \subseteq watched \cup {fd}
    BY <2>4
  <2> QED
    BY <2>1, <2>2, <2>4, <2>5, <2>6, SetUpTable
<1>4. CASE RefuseConnection
  <2>1. /\ backlog # <<>> /\ backlog' = Tail(backlog) /\ closed' = closed \cup {Head(backlog)}
        /\ UNCHANGED <<connections, watched, file>>
    BY <1>4 DEF RefuseConnection, Accepts
  <2>2. /\ Head(backlog) \in Clients /\ \A fd \in Fds : file[fd] # Head(backlog)
    BY <2>1, NextClientIs, OpenIs
  <2>3. backlog' \in Seq(Clients) /\ IsInjective(backlog')
    BY <2>1, NextClientIs
  <2>4. \A d \in Range(backlog') : d \notin closed' /\ \A n \in Fds : file'[n] # d
    BY <2>1, NextClientIs
  <2>5. closed' \subseteq Clients /\ \A fd \in Fds : file'[fd] \notin closed'
    BY <2>1, <2>2 DEF TableInv
  <2> QED
    BY <2>1, <2>3, <2>4, <2>5 DEF TableInv
<1>5. CASE CompleteEnd
  <2>1. /\ Done.op.fd \in Fds /\ file[Done.op.fd] # None
        /\ Remove(Done.op.fd) /\ UNCHANGED backlog
    BY <1>5, DoneIs DEF CompleteEnd, Handles, Matches, TableInv, clientVars
  <2> QED
    BY <2>1, RemoveTable
<1>6. CASE JoinAndClean
  <2>1. \A fd \in Fds : file[fd] = None /\ connections[fd] = NoBlock
    BY <1>6 DEF JoinAndClean, ControlInv, TableInv
  <2>2. connections' = connections /\ file' = file /\ closed' = closed /\ UNCHANGED backlog
    BY <1>6, <2>1 DEF JoinAndClean, TableInv, clientVars
  <2>3. watched' = {}
    BY <1>6 DEF JoinAndClean
  <2> QED
    BY <2>2, <2>3 DEF TableInv
<1>7. ASSUME NEW c \in Clients, Connect(c)
      PROVE  TableInv'
  <2>1. /\ backlog' = Append(backlog, c) /\ ~Connected(c)
        /\ UNCHANGED <<connections, watched, file, closed>>
    BY <1>7 DEF Connect, tableVars
  <2>2. c \notin closed /\ c \notin Range(backlog) /\ \A fd \in Fds : file[fd] # c
    BY <2>1 DEF Connected, Accepted, Range
  <2>3. /\ backlog' \in Seq(Clients) /\ IsInjective(backlog')
        /\ Range(backlog') = Range(backlog) \cup {c}
    BY <2>1, <2>2, RangeAppend, AppendProperties DEF TableInv
  <2> QED
    BY <2>1, <2>2, <2>3 DEF TableInv
<1> QED
  BY <1>1, <1>2, <1>3, <1>4, <1>5, <1>6, <1>7, TableMoves

-----------------------------------------------------------------------------
(***************************************************************************)
(* ControlInv                                                              *)
(***************************************************************************)

controlRest == <<main, running, dispatcher, epoll_events, events, file>>

LEMMA ControlMoves ==
  ASSUME [Next]_vars
  PROVE  \/ UNCHANGED controlRest
         \/ Dispatcher \/ Main \/ Signal
<1> USE DEF controlRest, mainVars, dispatchVars, tableVars
<1>1. CASE \E w \in Workers : Worker(w)
  BY <1>1 DEF Worker, TakeOperation, WorkerStops, SubmitOk, SubmitRead, SubmitReadNone,
              SubmitWrite, SubmitWriteNone, Completed, SubmitFails, SubmitAgain
<1>2. CASE \E c \in Clients : Client(c)
  BY <1>2 DEF Client, Connect, ClientSend, ClientReceive, ClientFin, ClientReset, OnSocket
<1>3. CASE UNCHANGED vars
  BY <1>3 DEF vars
<1> QED
  BY <1>1, <1>2, <1>3 DEF Next

\* The operations of the dispatcher that leave its events from epoll alone.
LEMMA ControlStep ==
  ASSUME QueueInv, TableInv, ControlInv, [Next]_vars
  PROVE  ControlInv'
<1>1. CASE UNCHANGED controlRest
  BY <1>1 DEF ControlInv, controlRest
<1>2. CASE WaitForEvents
  <2>1. Ready \subseteq Fds \cup {Listen} /\ \A fd \in Ready \ {Listen} : file[fd] # None
    BY DEF Ready, TableInv
  <2>2. IsFiniteSet(Ready)
    <3>1. MaxConnections \in Int
      BY ProactorAssumption
    <3>2. IsFiniteSet(Fds)
      BY <3>1, FS_Interval DEF Fds
    <3>3. IsFiniteSet(Fds \cup {Listen})
      BY <3>2, FS_AddElement
    <3> QED
      BY <2>1, <3>3, FS_Subset
  <2>3. epoll_events' \in Orders(Ready) /\ dispatcher = "epoll" /\ dispatcher' = "event"
        /\ UNCHANGED <<main, running, events, file>>
    BY <1>2 DEF WaitForEvents, mainVars, tableVars
  <2>4. epoll_events' \in Seq(Ready) /\ IsInjective(epoll_events')
    BY <2>2, <2>3, OrdersAre
  <2>5. epoll_events' \in Seq(Fds \cup {Listen}) /\ Range(epoll_events') \subseteq Ready
    BY <2>1, <2>4, SeqMonotonic, LenProperties, ElementOfSeq DEF Range
  <2> QED
    BY <2>1, <2>3, <2>4, <2>5 DEF ControlInv
<1>3. CASE Hangup
  <2>1. /\ dispatcher = "event" /\ epoll_events # <<>> /\ Head(epoll_events) # Listen
        /\ epoll_events' = Tail(epoll_events)
        /\ file' = [file EXCEPT ![Head(epoll_events)] = None]
        /\ UNCHANGED <<main, running, dispatcher, events>>
    BY <1>3 DEF Hangup, NextEvent, Remove, mainVars
  <2>2. \A fd \in Range(epoll_events') \ {Listen} : file'[fd] # None
    <3>1. \A fd \in Range(epoll_events') : fd \in Fds \cup {Listen}
      BY <2>1, NextEventIs, LenProperties, ElementOfSeq DEF Range
    <3> QED
      BY <2>1, <3>1, NextEventIs DEF TableInv
  <2> QED
    BY <2>1, <2>2, NextEventIs DEF ControlInv
<1>4. CASE HandleNewConnection
  <2>1. /\ dispatcher = "event" /\ epoll_events # <<>> /\ backlog # <<>> /\ FreeFds # {}
        /\ epoll_events' = Tail(epoll_events)
        /\ UNCHANGED <<main, running, dispatcher, events>>
    BY <1>4 DEF HandleNewConnection, Accepts, NextEvent, mainVars
  <2>2. PICK fd \in Fds, c \in Clients : file' = [file EXCEPT ![fd] = c]
    <3>1. PICK c \in Clients : c = Head(backlog)
      BY <2>1, NextClientIs
    <3>2. PICK fd \in FreeFds : fd = CHOOSE n \in FreeFds : \A m \in FreeFds : n <= m
      BY <2>1, LowestFree
    <3> QED
      BY <1>4, <3>1, <3>2 DEF HandleNewConnection, FreeFds
  <2>3. \A n \in Fds : file[n] # None => file'[n] # None
    BY <2>2, OpenIs DEF TableInv
  <2>4. \A n \in Range(epoll_events') \ {Listen} : n \in Fds /\ file'[n] # None
    BY <2>1, <2>3, NextEventIs, LenProperties, ElementOfSeq DEF Range
  <2> QED
    BY <2>1, <2>4, NextEventIs DEF ControlInv
<1>5. CASE RefuseConnection
  <2>1. /\ dispatcher = "event" /\ epoll_events # <<>>
        /\ epoll_events' = Tail(epoll_events)
        /\ UNCHANGED <<main, running, dispatcher, events, file>>
    BY <1>5 DEF RefuseConnection, Accepts, NextEvent, mainVars
  <2> QED
    BY <2>1, NextEventIs DEF ControlInv
<1>6. CASE EventsDone
  BY <1>6 DEF EventsDone, ControlInv, mainVars, tableVars
<1>7. CASE Reap
  BY <1>7 DEF Reap, ControlInv, mainVars, tableVars
<1>8. CASE DropCompletion \/ CompleteAgain \/ CompleteRead \/ CompleteWrite
  <2>1. /\ dispatcher = "complete"
        /\ UNCHANGED <<main, running, dispatcher, epoll_events, file>>
    BY <1>8 DEF DropCompletion, CompleteAgain, CompleteRead, CompleteWrite, Handles,
                mainVars, tableVars
  <2> QED
    BY <2>1 DEF ControlInv
<1>9. CASE CompleteEnd
  <2>1. /\ dispatcher = "complete" /\ file' = [file EXCEPT ![Done.op.fd] = None]
        /\ UNCHANGED <<main, running, dispatcher, epoll_events>>
    BY <1>9 DEF CompleteEnd, Handles, Remove, mainVars
  <2>2. epoll_events = <<>> /\ Range(epoll_events') = {}
    BY <2>1, RangeEmpty DEF ControlInv
  <2> QED
    BY <2>1, <2>2 DEF ControlInv
<1>10. CASE CompletionsDone
  BY <1>10 DEF CompletionsDone, ControlInv, mainVars, tableVars
<1>11. CASE (\E w \in Workers : CreateWorker(w)) \/ CreateFails \/ RunEnds \/ Stop \/ StopReturns
            \/ JoinUndefined \/ Signal
  <2>1. UNCHANGED <<dispatcher, epoll_events, events, file>>
    BY <1>11 DEF CreateWorker, CreateFails, RunEnds, Stop, StopReturns, JoinUndefined, Signal,
                 serverVars, dispatchVars, tableVars
  <2>2. /\ main' \in {"create", "run", "stop", "join", "exit", "undefined"} /\ running' \in BOOLEAN
        /\ main' \in {"create", "join"} \/ (main' = "stop" /\ running') => dispatcher = "none"
    <3>1. CASE (\E w \in Workers : CreateWorker(w)) \/ CreateFails
      BY <3>1 DEF CreateWorker, CreateFails, ControlInv
    <3>2. CASE RunEnds
      BY <3>2 DEF RunEnds, ControlInv
    <3>3. CASE Stop
      BY <3>3 DEF Stop, ControlInv
    <3>4. CASE StopReturns
      BY <3>4 DEF StopReturns, ControlInv
    <3>5. CASE JoinUndefined
      BY <3>5 DEF JoinUndefined, ControlInv
    <3>6. CASE Signal
      BY <3>6 DEF Signal, ControlInv
    <3> QED
      BY <1>11, <3>1, <3>2, <3>3, <3>4, <3>5, <3>6
  <2> QED
    BY <2>1, <2>2 DEF ControlInv
<1>12. CASE CreateDispatcher
  BY <1>12 DEF CreateDispatcher, ControlInv, tableVars
<1>13. CASE JoinAndClean
  <2>1. dispatcher = "none" /\ \A fd \in Fds : file'[fd] = None
    BY <1>13 DEF JoinAndClean, ControlInv
  <2>2. main' = "exit" /\ UNCHANGED <<running, dispatcher, epoll_events, events>>
    BY <1>13 DEF JoinAndClean, dispatchVars
  <2>3. Range(epoll_events') = {}
    BY <2>1, <2>2, RangeEmpty DEF ControlInv
  <2> QED
    BY <2>1, <2>2, <2>3 DEF ControlInv
<1> QED
  BY <1>1, <1>2, <1>3, <1>4, <1>5, <1>6, <1>7, <1>8, <1>9, <1>10, <1>11, <1>12, <1>13,
     ControlMoves DEF Dispatcher, Main

-----------------------------------------------------------------------------
(***************************************************************************)
(* The queues and ChainInv                                                 *)
(***************************************************************************)

\* The buffers, the sockets and the clients.
DataInv ==
  /\ threads \subseteq Workers
  /\ stopped \subseteq threads
  /\ heap \in [Blocks -> Block]
  /\ sock \in [Clients -> SocketType(Unit)]
  /\ sent \in [Clients -> 0 .. MaxBytes]
  /\ got \in [Clients -> Seq(Unit)]

\* The connection of an operation that the AIO context accepts.
LEMMA TargetIs ==
  ASSUME QueueInv, TableInv, DataInv, NEW w \in Workers, worker[w] # NoOp,
         file[worker[w].fd] # None
  PROVE  /\ worker[w] \in Operations
         /\ file[worker[w].fd] \in Clients
         /\ Target(w) \in SocketType(Unit)
<1>1. worker[w] \in Operations
  BY DEF QueueInv, WorkerType
<1>2. worker[w].fd \in Fds
  BY <1>1 DEF Operations
<1>3. file[worker[w].fd] \in Clients
  BY <1>2 DEF TableInv
<1> QED
  BY <1>1, <1>3 DEF Target, DataInv

\* What a read takes.
LEMMA TakeType ==
  ASSUME NEW B, NEW s \in SocketType(B), NEW n \in Nat
  PROVE  /\ Take(s, n) \in Seq(B) /\ Len(Take(s, n)) \in 0 .. n
         /\ AfterRead(s, n) \in SocketType(B)
<1>1. s.rx \in Seq(B)
  BY DEF SocketType
<1>2. PICK m \in 0 .. Len(s.rx) : m = Smaller(n, Len(s.rx)) /\ m <= n
  BY <1>1, LenProperties DEF Smaller
<1>3. SubSeq(s.rx, 1, m) \in Seq(B) /\ Len(SubSeq(s.rx, 1, m)) = m
  BY <1>1, <1>2, SubSeqProperties
<1>4. SubSeq(s.rx, m + 1, Len(s.rx)) \in Seq(B)
  BY <1>1, <1>2, SubSeqProperties, LenProperties
<1>5. AfterRead(s, n) \in SocketType(B)
  BY <1>2, <1>4 DEF AfterRead, Drop, SocketType
<1> QED
  BY <1>2, <1>3, <1>5 DEF Take

\* The result of an operation is a length or an error.
LEMMA ResultIs ==
  ASSUME QueueInv, TableInv, DataInv, NEW w \in Workers, SubmitOk(w)
  PROVE  /\ worker[w] # NoOp
         /\ \E res \in Error .. BufSize : Completed(w, res)
<1>1. BufSize \in Nat \ {0, 1} /\ Error = -2 /\ Again = -1
  BY ProactorAssumption DEF Error, Again
<1>2. CASE SubmitRead(w)
  <2>1. worker[w] # NoOp /\ file[worker[w].fd] # None
    BY <1>2 DEF SubmitRead, Submits
  <2>2. Len(Take(Target(w), BufSize - 1)) \in 0 .. BufSize - 1
    BY <1>1, <2>1, TargetIs, TakeType
  <2>3. Len(Take(Target(w), BufSize - 1)) \in Error .. BufSize
    BY <1>1, <2>2
  <2>4. Completed(w, Len(Take(Target(w), BufSize - 1)))
    BY <1>2 DEF SubmitRead
  <2> QED
    BY <2>1, <2>3, <2>4
<1>3. CASE SubmitReadNone(w) \/ SubmitWriteNone(w)
  <2>1. \E res \in {Error, 0, Again} : Completed(w, res)
    BY <1>3 DEF SubmitReadNone, SubmitWriteNone
  <2>2. {Error, 0, Again} \subseteq Error .. BufSize
    BY <1>1
  <2> QED
    BY <1>3, <2>1, <2>2 DEF SubmitReadNone, SubmitWriteNone, Submits
<1>4. CASE SubmitWrite(w)
  <2>1. worker[w] # NoOp /\ file[worker[w].fd] # None /\ Room(Target(w)) > 0
    BY <1>4 DEF SubmitWrite, Submits
  <2>2. PICK n \in 0 .. BufSize : n = worker[w].size
    BY <2>1, TargetIs DEF Operations
  <2>3. Room(Target(w)) \in Int
    BY <2>1, TargetIs, LenProperties, SendSpaceAssumption DEF Room, SocketType
  <2>4. Smaller(n, Room(Target(w))) \in Error .. BufSize
    BY <1>1, <2>1, <2>3 DEF Smaller
  <2>5. Completed(w, Smaller(n, Room(Target(w))))
    BY <1>4, <2>2 DEF SubmitWrite
  <2> QED
    BY <2>1, <2>4, <2>5
<1> QED
  BY <1>2, <1>3, <1>4 DEF SubmitOk

\* A worker moves its operation on; a failed one was of a connection that is gone.
LEMMA WorkerChain ==
  ASSUME QueueInv, TableInv, DataInv, ChainInv, NEW w \in Workers, Worker(w)
  PROVE  QueueInv' /\ ChainInv'
<1>1. ASSUME Changes(NoOp, NoOp), UNCHANGED <<connections, file, orphaned, disturbed>>
      PROVE  QueueInv' /\ ChainInv'
  BY <1>1, ChainRests DEF Changes
<1>2. CASE TakeOperation(w)
  <2>1. Changes(NoOp, NoOp)
    BY <1>2, Taken DEF TakeOperation, dispatchVars
  <2> QED
    BY <1>1, <1>2, <2>1 DEF TakeOperation, tableVars, historyVars
<1>3. CASE WorkerStops(w)
  <2>1. Changes(NoOp, NoOp)
    BY <1>3, QueuesRest DEF WorkerStops, dispatchVars
  <2> QED
    BY <1>1, <1>3, <2>1 DEF WorkerStops, tableVars, historyVars
<1>4. CASE SubmitOk(w)
  <2>1. PICK res \in Error .. BufSize : worker[w] # NoOp /\ Completed(w, res)
    BY <1>4, ResultIs
  <2>2. Changes(NoOp, NoOp)
    BY <2>1, Parted DEF Completed, dispatchVars
  <2> QED
    BY <1>1, <2>1, <2>2 DEF Completed, tableVars, historyVars
<1>5. CASE SubmitFails(w)
  <2>1. Changes(worker[w], NoOp)
    BY <1>5, Freed DEF SubmitFails, dispatchVars
  <2>2. PICK op \in Operations : op = worker[w]
    BY <1>5 DEF SubmitFails, QueueInv, WorkerType
  <2>3. op \in InFlight /\ file[op.fd] = None
    BY <1>5, <2>2 DEF SubmitFails, InFlight
  <2>4. op.client \in Clients /\ op.client # None
    BY <2>2, OpenIs DEF Operations
  <2>5. op.client \in disturbed
    BY <2>3, <2>4 DEF ChainInv, OpsFit, Fits
  <2>6. UNCHANGED <<connections, file, orphaned, disturbed>>
    BY <1>5 DEF SubmitFails, tableVars, historyVars
  <2>7. Changes(op, NoOp) /\ QueueInv'
    BY <2>1, <2>2 DEF Changes
  <2>8. orphaned' \subseteq Clients /\ orphaned' \subseteq orphaned \cup disturbed \cup {op.client}
    BY <2>6 DEF ChainInv
  <2> QED
    BY <2>5, <2>6, <2>7, <2>8, ChainLoses
<1>6. CASE SubmitAgain(w)
  <2>1. Changes(NoOp, NoOp)
    BY <1>6, PutBack DEF SubmitAgain, Submit, dispatchVars
  <2> QED
    BY <1>1, <1>6, <2>1 DEF SubmitAgain, tableVars, historyVars
<1> QED
  BY <1>2, <1>3, <1>4, <1>5, <1>6 DEF Worker

\* The completion that is handled is of a connection that is still there.
LEMMA MatchIs ==
  ASSUME QueueInv, TableInv, ChainInv, events # <<>>, Matches
  PROVE  /\ Done.op \in InFlight /\ Fits(Done.op)
         /\ connections[Done.op.fd] = Done.op.block
         /\ file[Done.op.fd] \in Clients
<1>1. Done.op \in InFlight
  BY EmptySeq, LenProperties, HeadTailProperties DEF InFlight, Done, QueueInv
<1>2. file[Done.op.fd] # None /\ file[Done.op.fd] \in Clients
  BY DoneIs DEF Matches, TableInv
<1> QED
  BY <1>1, <1>2 DEF Matches, ChainInv, OpsFit

\* The operation that follows a completion is submitted, or its client is an orphan.
LEMMA NextChain ==
  ASSUME QueueInv, TableInv, ChainInv, Handles, Matches,
         NEW type \in {"read", "write"}, NEW size \in 0 .. BufSize,
         SubmitOrOrphan(NextOperation(type, size)),
         UNCHANGED <<worker, completions, connections, file, disturbed>>
  PROVE  QueueInv' /\ ChainInv'
<1>1. events # <<>> /\ events' = Tail(events)
  BY DEF Handles
<1>2. PICK out \in Operations : out = Done.op
  BY <1>1, DoneIs
<1>3. PICK in \in Operations : in = NextOperation(type, size)
  BY <1>1, <1>2, DoneIs, MatchIs DEF NextOperation, Operation, Operations
<1>4. /\ in.fd = out.fd /\ in.block = out.block /\ in.client = file[out.fd]
      /\ connections[out.fd] = out.block /\ Fits(out)
  BY <1>1, <1>2, <1>3, MatchIs DEF NextOperation, Operation
<1>5. CASE Submit(in) /\ UNCHANGED orphaned
  <2>1. Changes(out, in)
    BY <1>1, <1>2, <1>5, Replaced DEF Submit, Done
  <2> QED
    BY <1>4, <1>5, <2>1, ChainGoesOn DEF Changes
<1>6. CASE orphaned' = orphaned \cup {in.client} /\ UNCHANGED pending_ops
  <2>1. Changes(out, NoOp)
    BY <1>1, <1>2, <1>6, Handled DEF Done
  <2>2. in.client # None /\ out.fd \in Fds
    BY OpenIs DEF Operations
  <2>3. in.client = out.client \/ (in.client \in disturbed /\ out.client \in disturbed)
    BY <1>4, <2>2 DEF Fits
  <2>4. /\ out.client \in disturbed \cup orphaned'
        /\ orphaned' \subseteq orphaned \cup disturbed \cup {out.client}
    BY <1>6, <2>3
  <2>5. orphaned \subseteq orphaned' /\ orphaned' \subseteq Clients
    BY <1>6 DEF ChainInv, Operations
  <2> QED
    BY <2>1, <2>4, <2>5, ChainLoses DEF Changes
<1> QED
  BY <1>3, <1>5, <1>6 DEF SubmitOrOrphan

\* A new connection begins its chain.
LEMMA SetUpChain ==
  ASSUME QueueInv, TableInv, ChainInv, OrphanInv, HandleNewConnection
  PROVE  QueueInv' /\ ChainInv'
<1>1. backlog # <<>> /\ FreeFds # {} /\ UNCHANGED <<worker, completions, events>>
  BY DEF HandleNewConnection, Accepts
<1>2. PICK c \in Clients : c = Head(backlog) /\ c \notin Open \cup orphaned
  BY <1>1, NextClientIs DEF OrphanInv
<1>3. PICK fd \in FreeFds : fd = CHOOSE n \in FreeFds : \A m \in FreeFds : n <= m
  BY <1>1, LowestFree
<1>4. PICK b \in FreeBlocks :
        /\ connections' = [connections EXCEPT ![fd] = b]
        /\ file' = [file EXCEPT ![fd] = c]
        /\ SubmitOrOrphan(Operation("read", fd, b, BufSize - 1, c))
        /\ disturbed' = IF \E op \in InFlight : op.fd = fd \/ op.block = b
                        THEN disturbed \cup {c} ELSE disturbed
  BY <1>2, <1>3 DEF HandleNewConnection
<1>5. fd \in Fds /\ file[fd] = None /\ b \in Blocks
  BY DEF FreeFds, FreeBlocks
<1>6. PICK in \in Operations : in = Operation("read", fd, b, BufSize - 1, c)
  <2>1. BufSize - 1 \in 0 .. BufSize
    BY ProactorAssumption
  <2> QED
    BY <1>5, <2>1 DEF Operation, Operations
<1>7. in.fd = fd /\ in.block = b /\ in.client = c
  BY <1>6 DEF Operation
<1>8. CASE Submit(in) /\ UNCHANGED orphaned
  <2>1. Changes(NoOp, in)
    BY <1>1, <1>8, Submitted DEF Submit
  <2>2. orphaned' = orphaned
    BY <1>8
  <2>3. ChainInv'
    BY <1>2, <1>4, <1>5, <1>7, <2>1, <2>2, ChainBegins
  <2> QED
    BY <2>1, <2>3 DEF Changes
<1>9. CASE orphaned' = orphaned \cup {c} /\ UNCHANGED pending_ops
  <2>1. Changes(NoOp, NoOp)
    BY <1>1, <1>9, QueuesRest
  <2> QED
    BY <1>2, <1>4, <1>5, <1>9, <2>1, ChainBegins DEF Changes
<1> QED
  BY <1>4, <1>6, <1>7, <1>8, <1>9 DEF SubmitOrOrphan

LEMMA DispatcherChain ==
  ASSUME QueueInv, TableInv, ControlInv, ChainInv, OrphanInv, Dispatcher
  PROVE  QueueInv' /\ ChainInv'
<1>1. ASSUME Changes(NoOp, NoOp), UNCHANGED <<connections, file, orphaned, disturbed>>
      PROVE  QueueInv' /\ ChainInv'
  BY <1>1, ChainRests DEF Changes
<1>2. CASE WaitForEvents \/ RefuseConnection \/ EventsDone \/ CompletionsDone
  <2>1. UNCHANGED <<pending_ops, worker, completions, events, connections, file, orphaned,
                    disturbed>>
    BY <1>2 DEF WaitForEvents, RefuseConnection, EventsDone, CompletionsDone, queueVars,
                tableVars, historyVars
  <2> QED
    BY <1>1, <2>1, QueuesRest
<1>3. CASE Hangup
  <2>1. PICK fd \in Fds : fd = Head(epoll_events) /\ file[fd] # None
    BY <1>3, NextEventIs DEF Hangup
  <2>2. /\ file' = [file EXCEPT ![fd] = None]
        /\ connections' = [connections EXCEPT ![fd] = NoBlock]
        /\ disturbed' = IF UnderWay(file[fd]) > 0 THEN disturbed \cup {file[fd]} ELSE disturbed
        /\ UNCHANGED <<pending_ops, worker, completions, events, orphaned>>
    BY <1>3, <2>1 DEF Hangup, Remove, queueVars
  <2>3. Changes(NoOp, NoOp)
    BY <2>2, QueuesRest
  <2>4. UnderWay(file[fd]) - One(NoOp, file[fd]) = UnderWay(file[fd])
    BY <2>1, FlightType DEF One, TableInv
  <2> QED
    BY <2>1, <2>2, <2>3, <2>4, ChainEnds DEF Changes
<1>4. CASE HandleNewConnection
  BY <1>4, SetUpChain
<1>5. CASE Reap
  <2>1. /\ events = <<>> /\ events' = Front(completions, MaxEvents)
        /\ completions' = Drop(completions, MaxEvents)
        /\ UNCHANGED <<pending_ops, worker, connections, file, orphaned, disturbed>>
    BY <1>5 DEF Reap, ControlInv, Front, tableVars, historyVars
  <2> QED
    BY <1>1, <2>1, Reaped
<1>6. CASE DropCompletion
  <2>1. /\ events # <<>> /\ events' = Tail(events) /\ ~Matches
        /\ UNCHANGED <<pending_ops, worker, completions, connections, file, orphaned, disturbed>>
    BY <1>6 DEF DropCompletion, Handles, queueVars, tableVars, historyVars
  <2>2. PICK out \in Operations : out = Done.op
    BY <2>1, DoneIs
  <2>3. Changes(out, NoOp)
    BY <2>1, <2>2, Handled DEF Done
  <2>4. Fits(out)
    BY <2>3, NoOpIsNone DEF Changes, ChainInv, OpsFit
  <2>5. out.block # NoBlock
    BY DEF Operations, Blocks, NoBlock
  <2>6. out.client \in disturbed
    BY <2>1, <2>2, <2>4, <2>5 DEF Fits, Matches
  <2>7. /\ orphaned' \subseteq Clients /\ QueueInv'
        /\ orphaned' \subseteq orphaned \cup disturbed \cup {out.client}
    BY <2>1, <2>3 DEF ChainInv, Changes
  <2> QED
    BY <2>1, <2>3, <2>6, <2>7, ChainLoses
<1>7. CASE CompleteAgain
  <2>1. /\ events # <<>> /\ events' = Tail(events) /\ Submit(Done.op)
        /\ UNCHANGED <<worker, completions, connections, file, orphaned, disturbed>>
    BY <1>7 DEF CompleteAgain, Handles, tableVars, historyVars
  <2>2. PICK out \in Operations : out = Done.op
    BY <2>1, DoneIs
  <2>3. Changes(out, out)
    BY <2>1, <2>2, Replaced DEF Submit, Done
  <2>4. out \in InFlight
    BY <2>3, NoOpIsNone DEF Changes
  <2> QED
    BY <2>1, <2>3, <2>4, ChainRests DEF Changes
<1>8. CASE CompleteEnd
  <2>1. /\ events # <<>> /\ events' = Tail(events) /\ Matches /\ Remove(Done.op.fd)
        /\ UNCHANGED <<pending_ops, worker, completions, orphaned>>
    BY <1>8 DEF CompleteEnd, Handles, queueVars
  <2>2. PICK out \in Operations : out = Done.op
    BY <2>1, DoneIs
  <2>3. PICK fd \in Fds : fd = out.fd
    BY DEF Operations
  <2>4. file[fd] # None
    BY <2>1, <2>2, <2>3, MatchIs, OpenIs
  <2>5. Changes(out, NoOp)
    BY <2>1, <2>2, Handled DEF Done
  <2>6. One(out, file[fd]) = IF out.client = file[fd] THEN 1 ELSE 0
    BY NoOpIsNone DEF One
  <2>7. disturbed' = IF UnderWay(file[fd]) - One(out, file[fd]) > 0
                     THEN disturbed \cup {file[fd]} ELSE disturbed
    BY <1>8, <2>2, <2>3, <2>6 DEF CompleteEnd
  <2>8. /\ file' = [file EXCEPT ![fd] = None]
        /\ connections' = [connections EXCEPT ![fd] = NoBlock]
    BY <2>1, <2>2, <2>3 DEF Remove
  <2>9. ChainInv'
    BY <2>1, <2>3, <2>4, <2>5, <2>7, <2>8, ChainEnds
  <2> QED
    BY <2>5, <2>9 DEF Changes
<1>9. CASE CompleteRead
  <2>1. /\ Handles /\ Matches /\ Done.res > 0
        /\ UNCHANGED <<worker, completions, connections, file, disturbed>>
    BY <1>9 DEF CompleteRead, tableVars
  <2>2. Done.res \in 0 .. BufSize /\ BufSize - 1 \in 0 .. BufSize
    BY <2>1, DoneIs, ProactorAssumption DEF Handles, Error
  <2>3. \/ SubmitOrOrphan(NextOperation("write", Done.res))
        \/ SubmitOrOrphan(NextOperation("read", BufSize - 1))
    BY <1>9 DEF CompleteRead
  <2> QED
    BY <2>1, <2>2, <2>3, NextChain
<1>10. CASE CompleteWrite
  <2>1. /\ Handles /\ Matches
        /\ UNCHANGED <<worker, completions, connections, file, disturbed>>
    BY <1>10 DEF CompleteWrite, tableVars
  <2>2. BufSize - 1 \in 0 .. BufSize
    BY ProactorAssumption
  <2>3. SubmitOrOrphan(NextOperation("read", BufSize - 1))
    BY <1>10 DEF CompleteWrite
  <2> QED
    BY <2>1, <2>2, <2>3, NextChain
<1> QED
  BY <1>2, <1>3, <1>4, <1>5, <1>6, <1>7, <1>8, <1>9, <1>10 DEF Dispatcher

LEMMA ChainStep ==
  ASSUME QueueInv, TableInv, ControlInv, DataInv, ChainInv, OrphanInv, [Next]_vars
  PROVE  QueueInv' /\ ChainInv'
<1>1. ASSUME UNCHANGED <<pending_ops, worker, completions, events, connections, file, orphaned,
                         disturbed>>
      PROVE  QueueInv' /\ ChainInv'
  <2>1. Changes(NoOp, NoOp)
    BY <1>1, QueuesRest
  <2> QED
    BY <1>1, <2>1, ChainRests DEF Changes
<1>2. CASE \E w \in Workers : Worker(w)
  BY <1>2, WorkerChain
<1>3. CASE Dispatcher
  BY <1>3, DispatcherChain
<1>4. CASE Main
  <2>1. CASE JoinAndClean
    <3>1. /\ \A fd \in Fds : file[fd] = None /\ connections[fd] = NoBlock
          /\ UNCHANGED <<pending_ops, worker, completions, events, orphaned, disturbed>>
      BY <2>1 DEF JoinAndClean, ControlInv, TableInv, queueVars, dispatchVars, historyVars
    <3>2. connections' = connections /\ file' = file
      BY <2>1, <3>1 DEF JoinAndClean, TableInv
    <3> QED
      BY <1>1, <3>1, <3>2
  <2>2. CASE ~JoinAndClean
    BY <1>1, <1>4, <2>2 DEF Main, CreateWorker, CreateDispatcher, CreateFails, RunEnds, Stop,
       StopReturns, JoinUndefined, serverVars, queueVars, dispatchVars, tableVars, historyVars
  <2> QED
    BY <2>1, <2>2
<1>5. CASE Signal
  BY <1>1, <1>5 DEF Signal, serverVars, queueVars, dispatchVars, tableVars, historyVars
<1>6. CASE \E c \in Clients : Client(c)
  BY <1>1, <1>6 DEF Client, Connect, ClientSend, ClientReceive, ClientFin, ClientReset,
     OnSocket, queueVars, dispatchVars, tableVars, historyVars
<1>7. CASE UNCHANGED vars
  BY <1>1, <1>7 DEF vars, queueVars, dispatchVars, tableVars, historyVars
<1> QED
  BY <1>2, <1>3, <1>4, <1>5, <1>6, <1>7 DEF Next

\* Only a connection that is set up, or served, loses its next operation.
LEMMA OrphanMoves ==
  ASSUME [Next]_vars
  PROVE  UNCHANGED orphaned \/ HandleNewConnection \/ CompleteRead \/ CompleteWrite
<1> USE DEF historyVars
<1>1. CASE \E w \in Workers : Worker(w)
  BY <1>1 DEF Worker, TakeOperation, WorkerStops, SubmitOk, SubmitRead, SubmitReadNone,
              SubmitWrite, SubmitWriteNone, Completed, SubmitFails, SubmitAgain
<1>2. CASE Dispatcher
  BY <1>2 DEF Dispatcher, WaitForEvents, Hangup, RefuseConnection, EventsDone, Reap,
              DropCompletion, CompleteAgain, CompleteEnd, CompletionsDone
<1>3. CASE Main \/ Signal
  BY <1>3 DEF Main, CreateWorker, CreateDispatcher, CreateFails, RunEnds, Stop, StopReturns,
              JoinAndClean, JoinUndefined, Signal, serverVars
<1>4. CASE \E c \in Clients : Client(c)
  BY <1>4 DEF Client, Connect, ClientSend, ClientReceive, ClientFin, ClientReset, OnSocket
<1>5. CASE UNCHANGED vars
  BY <1>5 DEF vars
<1> QED
  BY <1>1, <1>2, <1>3, <1>4, <1>5 DEF Next

\* A descriptor is freed, and its client's socket is closed.
LEMMA RemovedIsClosed ==
  ASSUME TableInv, NEW fd \in Fds, Remove(fd)
  PROVE  Open \cup closed \subseteq Open' \cup closed'
<1>1. /\ \A n \in Fds \ {fd} : file'[n] = file[n]
      /\ closed' = closed \cup {file[fd]}
  BY DEF Remove, TableInv
<1> QED
  BY <1>1 DEF Open

LEMMA OrphanStep ==
  ASSUME QueueInv, TableInv, ControlInv, OrphanInv, [Next]_vars
  PROVE  OrphanInv'
<1>1. CASE CompleteRead \/ CompleteWrite
  <2>1. /\ events # <<>> /\ Matches /\ UNCHANGED <<file, closed>>
        /\ orphaned' \subseteq orphaned \cup {file[Done.op.fd]}
    BY <1>1 DEF CompleteRead, CompleteWrite, Handles, SubmitOrOrphan, NextOperation, Operation,
                tableVars
  <2>2. file[Done.op.fd] \in Open
    BY <2>1, DoneIs DEF Matches, TableInv, Open
  <2> QED
    BY <2>1, <2>2 DEF OrphanInv, Open
<1>2. CASE HandleNewConnection
  <2>1. backlog # <<>> /\ FreeFds # {} /\ UNCHANGED closed
    BY <1>2 DEF HandleNewConnection, Accepts
  <2>2. PICK c \in Clients : c = Head(backlog)
    BY <2>1, NextClientIs
  <2>3. PICK fd \in FreeFds : fd = CHOOSE n \in FreeFds : \A m \in FreeFds : n <= m
    BY <2>1, LowestFree
  <2>4. /\ file' = [file EXCEPT ![fd] = c]
        /\ orphaned' \subseteq orphaned \cup {c}
    BY <1>2, <2>2, <2>3 DEF HandleNewConnection, SubmitOrOrphan, Operation
  <2>5. fd \in Fds /\ file[fd] = None /\ c # None
    BY OpenIs DEF FreeFds
  <2>6. file'[fd] = c /\ \A n \in Fds \ {fd} : file'[n] = file[n]
    BY <2>4, <2>5 DEF TableInv
  <2>7. Open' = Open \cup {c}
    BY <2>5, <2>6 DEF Open
  <2> QED
    BY <2>1, <2>4, <2>7 DEF OrphanInv
<1>3. CASE UNCHANGED orphaned
  <2>1. CASE Hangup
    <3>1. Head(epoll_events) \in Fds /\ Remove(Head(epoll_events))
      BY <2>1, NextEventIs DEF Hangup
    <3> QED
      BY <1>3, <3>1, RemovedIsClosed DEF OrphanInv
  <2>2. CASE CompleteEnd
    <3>1. Done.op.fd \in Fds /\ Remove(Done.op.fd)
      BY <2>2, DoneIs DEF CompleteEnd, Handles
    <3> QED
      BY <1>3, <3>1, RemovedIsClosed DEF OrphanInv
  <2>3. CASE RefuseConnection \/ JoinAndClean \/ UNCHANGED tableRest
             \/ \E c \in Clients : Connect(c)
    <3>1. (\A fd \in Fds : file'[fd] = file[fd]) /\ closed \subseteq closed'
      BY <2>3 DEF RefuseConnection, JoinAndClean, tableRest, Connect, tableVars, ControlInv
    <3> QED
      BY <1>3, <3>1 DEF OrphanInv, Open
  <2> QED
    BY <1>2, <2>1, <2>2, <2>3, TableMoves
<1> QED
  BY <1>1, <1>2, <1>3, OrphanMoves

-----------------------------------------------------------------------------
(***************************************************************************)
(* DataInv                                                                 *)
(***************************************************************************)

\* The first bytes of a buffer.
LEMMA BytesType ==
  ASSUME NEW B, NEW buf \in Seq(B), NEW n \in Nat
  PROVE  Bytes(buf, n) \in Seq(B)
<1>1. PICK m \in 0 .. Len(buf) : m = Smaller(n, Len(buf))
  BY LenProperties DEF Smaller
<1>2. SubSeq(buf, 1, m) \in Seq(B)
  BY <1>1, SubSeqProperties
<1> QED
  BY <1>1, <1>2 DEF Bytes

\* A write appends what there is room for.
LEMMA PutType ==
  ASSUME NEW B, NEW s \in SocketType(B), NEW bytes \in Seq(B), Room(s) > 0
  PROVE  AfterWrite(s, bytes) \in SocketType(B)
<1>1. s.out \in Seq(B)
  BY DEF SocketType
<1>2. Room(s) \in Nat
  BY <1>1, LenProperties, SendSpaceAssumption DEF Room
<1>3. PICK m \in 0 .. Len(bytes) : m = Smaller(Room(s), Len(bytes))
  BY <1>2, LenProperties DEF Smaller
<1>4. SubSeq(bytes, 1, m) \in Seq(B)
  BY <1>3, SubSeqProperties
<1>5. PICK t \in Seq(B) : t = s.out \o SubSeq(bytes, 1, m)
  BY <1>1, <1>4, ConcatProperties
<1>6. [s EXCEPT !.out = t] \in SocketType(B)
  BY <1>5 DEF SocketType
<1> QED
  BY <1>3, <1>5, <1>6 DEF AfterWrite, Put

dataRest == <<threads, stopped, heap, sock, sent, got>>

LEMMA DataMoves ==
  ASSUME [Next]_vars
  PROVE  \/ UNCHANGED dataRest
         \/ \E w \in Workers : WorkerStops(w) \/ SubmitRead(w) \/ SubmitWrite(w)
         \/ HandleNewConnection \/ CompleteRead
         \/ \E w \in Workers : CreateWorker(w)
         \/ \E c \in Clients : ClientSend(c) \/ ClientReceive(c) \/ ClientFin(c) \/ ClientReset(c)
<1> USE DEF dataRest, mainVars, queueVars, clientVars
<1>1. CASE \E w \in Workers : Worker(w)
  BY <1>1 DEF Worker, TakeOperation, SubmitOk, SubmitReadNone, SubmitWriteNone, Completed,
              SubmitFails, SubmitAgain
<1>2. CASE Dispatcher
  BY <1>2 DEF Dispatcher, WaitForEvents, Hangup, RefuseConnection, EventsDone, Reap,
              DropCompletion, CompleteAgain, CompleteEnd, CompleteWrite, CompletionsDone
<1>3. CASE Main \/ Signal
  BY <1>3 DEF Main, CreateDispatcher, CreateFails, RunEnds, Stop, StopReturns, JoinAndClean,
              JoinUndefined, Signal, serverVars
<1>4. CASE \E c \in Clients : Client(c)
  BY <1>4 DEF Client, Connect
<1>5. CASE UNCHANGED vars
  BY <1>5 DEF vars
<1> QED
  BY <1>1, <1>2, <1>3, <1>4, <1>5 DEF Next

\* One socket, or one block, takes another value of its type.
LEMMA SockSet ==
  ASSUME DataInv, NEW c \in Clients, NEW s \in SocketType(Unit), sock' = [sock EXCEPT ![c] = s]
  PROVE  sock' \in [Clients -> SocketType(Unit)]
BY DEF DataInv

LEMMA HeapSet ==
  ASSUME DataInv, NEW b \in Blocks, NEW x \in Block, heap' = [heap EXCEPT ![b] = x]
  PROVE  heap' \in [Blocks -> Block]
BY DEF DataInv

LEMMA DataStep ==
  ASSUME QueueInv, TableInv, DataInv, [Next]_vars
  PROVE  DataInv'
<1>1. CASE UNCHANGED dataRest
  BY <1>1 DEF DataInv, dataRest
<1>2. ASSUME NEW w \in Workers, WorkerStops(w)
      PROVE  DataInv'
  BY <1>2 DEF WorkerStops, DataInv, mainVars, clientVars
<1>3. ASSUME NEW w \in Workers, SubmitRead(w)
      PROVE  DataInv'
  <2>1. /\ worker[w] # NoOp /\ file[worker[w].fd] # None
        /\ heap' = [heap EXCEPT ![worker[w].block].read_buf = Take(Target(w), BufSize - 1)]
        /\ sock' = [sock EXCEPT ![file[worker[w].fd]] = AfterRead(@, BufSize - 1)]
        /\ UNCHANGED <<threads, stopped, sent, got>>
    BY <1>3 DEF SubmitRead, Submits, Completed, mainVars, clientVars
  <2>2. PICK c \in Clients : c = file[worker[w].fd]
    BY <2>1, TargetIs
  <2>3. PICK b \in Blocks : b = worker[w].block
    BY <2>1, TargetIs DEF Operations
  <2>4. BufSize - 1 \in Nat
    BY ProactorAssumption
  <2>5. PICK data \in Seq(Unit) : data = Take(Target(w), BufSize - 1)
    BY <2>1, <2>4, TargetIs, TakeType
  <2>6. PICK s \in SocketType(Unit) : s = AfterRead(sock[c], BufSize - 1)
    BY <2>2, <2>4, TakeType DEF DataInv
  <2>7. sock' = [sock EXCEPT ![c] = s]
    BY <2>1, <2>2, <2>6
  <2>8. heap' \in [Blocks -> Block]
    BY <2>1, <2>3, <2>5 DEF DataInv, Block
  <2> QED
    BY <2>1, <2>7, <2>8, SockSet DEF DataInv
<1>4. ASSUME NEW w \in Workers, SubmitWrite(w)
      PROVE  DataInv'
  <2>1. /\ worker[w] # NoOp /\ file[worker[w].fd] # None /\ Room(Target(w)) > 0
        /\ sock' = [sock EXCEPT ![file[worker[w].fd]] = AfterWrite(@, Output(worker[w]))]
        /\ UNCHANGED <<heap, threads, stopped, sent, got>>
    BY <1>4 DEF SubmitWrite, Submits, Completed, mainVars, clientVars
  <2>2. PICK c \in Clients : c = file[worker[w].fd]
    BY <2>1, TargetIs
  <2>3. worker[w].block \in Blocks /\ worker[w].size \in Nat
    BY <2>1, TargetIs, ProactorAssumption DEF Operations
  <2>4. heap[worker[w].block].write_buf \in Seq(Unit)
    BY <2>3 DEF DataInv, Block
  <2>5. PICK data \in Seq(Unit) : data = Output(worker[w])
    BY <2>3, <2>4, BytesType DEF Output
  <2>6. PICK s \in SocketType(Unit) : s = AfterWrite(sock[c], data)
    BY <2>1, <2>2, PutType DEF DataInv, Target
  <2>7. sock' = [sock EXCEPT ![c] = s]
    BY <2>1, <2>2, <2>5, <2>6
  <2> QED
    BY <2>1, <2>7, SockSet DEF DataInv
<1>5. CASE HandleNewConnection
  <2>1. PICK b \in Blocks : heap' = [heap EXCEPT ![b] = Zeroed]
    BY <1>5 DEF HandleNewConnection, FreeBlocks
  <2>2. Zeroed \in Block
    BY EmptySeq DEF Zeroed, Block
  <2>3. UNCHANGED <<threads, stopped, sock, sent, got>>
    BY <1>5 DEF HandleNewConnection, mainVars
  <2> QED
    BY <2>1, <2>2, <2>3, HeapSet DEF DataInv
<1>6. CASE CompleteRead
  <2>1. /\ events # <<>> /\ Done.res > 0
        /\ \/ heap' = [heap EXCEPT ![Done.op.block].write_buf =
                         Bytes(heap[Done.op.block].read_buf, Done.res)]
           \/ UNCHANGED heap
        /\ UNCHANGED <<threads, stopped, sock, sent, got>>
    BY <1>6 DEF CompleteRead, Handles, mainVars, clientVars
  <2>2. PICK b \in Blocks : b = Done.op.block
    BY <2>1, DoneIs
  <2>3. Done.res \in Nat
    BY <2>1, DoneIs, ProactorAssumption DEF Error
  <2>4. heap[b].read_buf \in Seq(Unit)
    BY DEF DataInv, Block
  <2>5. PICK data \in Seq(Unit) : data = Bytes(heap[b].read_buf, Done.res)
    BY <2>3, <2>4, BytesType
  <2>6. heap' \in [Blocks -> Block]
    BY <2>1, <2>2, <2>5 DEF DataInv, Block
  <2> QED
    BY <2>1, <2>6 DEF DataInv
<1>7. ASSUME NEW w \in Workers, CreateWorker(w)
      PROVE  DataInv'
  BY <1>7 DEF CreateWorker, DataInv, serverVars, queueVars, clientVars
<1>8. ASSUME NEW c \in Clients, ClientSend(c)
      PROVE  DataInv'
  <2>1. /\ sent[c] < MaxBytes /\ sent' = [sent EXCEPT ![c] = @ + 1]
        /\ sock' = [sock EXCEPT ![c] = [sock[c] EXCEPT !.rx = Append(@, <<c, sent[c] + 1>>)]]
        /\ UNCHANGED <<heap, threads, stopped, got>>
    BY <1>8 DEF ClientSend, OnSocket, mainVars, queueVars
  <2>2. sent[c] + 1 \in 1 .. MaxBytes
    BY <2>1, ProactorAssumption DEF DataInv
  <2>3. PICK data \in Seq(Unit) : data = Append(sock[c].rx, <<c, sent[c] + 1>>)
    BY <2>2, AppendProperties DEF DataInv, SocketType, Unit
  <2>4. PICK s \in SocketType(Unit) : s = [sock[c] EXCEPT !.rx = data]
    BY DEF DataInv, SocketType
  <2>5. sock' = [sock EXCEPT ![c] = s]
    BY <2>1, <2>3, <2>4
  <2>6. sent' \in [Clients -> 0 .. MaxBytes]
    BY <2>1, <2>2 DEF DataInv
  <2> QED
    BY <2>1, <2>5, <2>6, SockSet DEF DataInv
<1>9. ASSUME NEW c \in Clients, ClientReceive(c)
      PROVE  DataInv'
  <2>1. /\ sock[c].out # <<>> /\ got' = [got EXCEPT ![c] = Append(@, Head(sock[c].out))]
        /\ sock' = [sock EXCEPT ![c] = [sock[c] EXCEPT !.out = Tail(@)]]
        /\ UNCHANGED <<heap, threads, stopped, sent>>
    BY <1>9 DEF ClientReceive, OnSocket, mainVars, queueVars
  <2>2. sock[c].out \in Seq(Unit)
    BY DEF DataInv, SocketType
  <2>3. PICK u \in Unit, data \in Seq(Unit) : u = Head(sock[c].out) /\ data = Tail(sock[c].out)
    BY <2>1, <2>2, EmptySeq, HeadTailProperties
  <2>4. PICK r \in Seq(Unit) : r = Append(got[c], u)
    BY AppendProperties DEF DataInv
  <2>5. got' = [got EXCEPT ![c] = r]
    BY <2>1, <2>3, <2>4
  <2>6. PICK s \in SocketType(Unit) : s = [sock[c] EXCEPT !.out = data]
    BY DEF DataInv, SocketType
  <2>7. sock' = [sock EXCEPT ![c] = s]
    BY <2>1, <2>3, <2>6
  <2>8. got' \in [Clients -> Seq(Unit)]
    BY <2>5 DEF DataInv
  <2> QED
    BY <2>1, <2>7, <2>8, SockSet DEF DataInv
<1>10. ASSUME NEW c \in Clients, ClientFin(c) \/ ClientReset(c)
       PROVE  DataInv'
  <2>1. /\ sock' = [sock EXCEPT ![c] = [sock[c] EXCEPT !.fin = TRUE]]
           \/ sock' = [sock EXCEPT ![c] = [sock[c] EXCEPT !.err = TRUE, !.rx = <<>>, !.out = <<>>]]
        /\ UNCHANGED <<heap, threads, stopped, sent, got>>
    BY <1>10 DEF ClientFin, ClientReset, OnSocket, mainVars, queueVars
  <2>2. <<>> \in Seq(Unit)
    BY EmptySeq
  <2>3. /\ [sock[c] EXCEPT !.fin = TRUE] \in SocketType(Unit)
        /\ [sock[c] EXCEPT !.err = TRUE, !.rx = <<>>, !.out = <<>>] \in SocketType(Unit)
    BY <2>2 DEF DataInv, SocketType
  <2>4. sock' \in [Clients -> SocketType(Unit)]
    BY <2>1, <2>3, SockSet
  <2> QED
    BY <2>1, <2>4 DEF DataInv
<1> QED
  BY <1>1, <1>2, <1>3, <1>4, <1>5, <1>6, <1>7, <1>8, <1>9, <1>10, DataMoves

-----------------------------------------------------------------------------
(***************************************************************************)
(* The theorems about the operations                                       *)
(***************************************************************************)

ProactorInv ==
  /\ QueueInv /\ TableInv /\ ControlInv /\ DataInv
  /\ ChainInv /\ OrphanInv

LEMMA InitInv == Init => ProactorInv
<1> SUFFICES ASSUME Init
             PROVE  ProactorInv
  OBVIOUS
<1>1. /\ <<>> \in Seq(Operations) /\ <<>> \in Seq(Outcomes) /\ <<>> \in Seq(Unit)
      /\ <<>> \in Seq(Clients) /\ <<>> \in Seq(Fds \cup {Listen}) /\ Len(<<>>) = 0
  BY EmptySeq
<1>2. MaxEvents \in Nat /\ MaxBytes \in Nat
  BY ProactorAssumption
<1>3. QueueInv
  BY <1>1, <1>2 DEF Init, QueueInv, WorkerType
<1>4. TableInv
  <2>1. \A fd \in Fds : file[fd] = None /\ connections[fd] = NoBlock
    BY DEF Init
  <2>2. Range(backlog) = {} /\ IsInjective(backlog)
    BY RangeEmpty DEF Init
  <2> QED
    BY <1>1, <2>1, <2>2 DEF Init, TableInv
<1>5. ControlInv
  <2>1. Range(epoll_events) = {} /\ IsInjective(epoll_events)
    BY RangeEmpty DEF Init
  <2> QED
    BY <1>1, <2>1 DEF Init, ControlInv
<1>6. DataInv
  <2>1. Zeroed \in Block /\ NewSocket \in SocketType(Unit)
    BY <1>1 DEF Zeroed, Block, NewSocket, SocketType
  <2> QED
    BY <1>1, <1>2, <2>1 DEF Init, DataInv
<1>7. InFlight = {}
  BY DEF Init, InFlight
<1>8. \A c \in Clients : UnderWay(c) = 0
  BY <1>3, <1>7, NoneUnderWay
<1>9. Open = {}
  BY DEF Init, Open
<1>10. ChainInv
  BY <1>7, <1>8, <1>9 DEF Init, ChainInv, OpsFit, OneChain
<1>11. OrphanInv
  BY DEF Init, OrphanInv
<1> QED
  BY <1>3, <1>4, <1>5, <1>6, <1>10, <1>11 DEF ProactorInv

\* The invariant of the proactor: main and the dispatcher take turns with the
\* queues and the table, and each operation fits the connection it was submitted
\* for, for as long as the history does not say otherwise.
THEOREM ProactorInvariance == Spec => []ProactorInv
<1>1. ProactorInv /\ [Next]_vars => ProactorInv'
  BY ChainStep, TableStep, ControlStep, DataStep, OrphanStep DEF ProactorInv
<1> QED
  BY InitInv, <1>1, PTL DEF Spec

\* A connection of the echo server has exactly one operation under way, a read or
\* a write, wherever it is between the stack, the workers, the AIO context and
\* the dispatcher, and a closed one has none, except after the faults that the
\* history records (proactor.c:128, 301-333).
THEOREM OneOperationUnderWay == Spec => []OneOperation
<1>1. ProactorInv => OneOperation
  BY DEF ProactorInv, ChainInv, OneChain, OneOperation
<1> QED
  BY ProactorInvariance, <1>1, PTL

\* The types and bounds of the proactor, with the table: a descriptor has a context
\* exactly while its socket is open (proactor.c:515, 533, 559-568).
THEOREM TypeCorrect == Spec => []TypeOK
<1>1. ProactorInv => TypeOK
  BY DEF ProactorInv, QueueInv, TableInv, ControlInv, DataInv, ChainInv, TypeOK, Outcomes,
         WorkerType
<1> QED
  BY ProactorInvariance, <1>1, PTL

\* An operation names the descriptor and the block of its own client, so that its
\* data go to no other one, except after the faults that the history records: what
\* the check of the handler is to ensure (proactor.c:289-299).
THEOREM OperationsFit ==
  Spec => [](\A op \in InFlight :
               op.client \notin disturbed =>
                 file[op.fd] = op.client /\ connections[op.fd] = op.block)
<1>1. ProactorInv =>
        \A op \in InFlight :
          op.client \notin disturbed =>
            file[op.fd] = op.client /\ connections[op.fd] = op.block
  BY DEF ProactorInv, ChainInv, OpsFit, Fits
<1> QED
  BY ProactorInvariance, <1>1, PTL

-----------------------------------------------------------------------------
(***************************************************************************)
(* Data in order                                                           *)
(***************************************************************************)

LEMMA CatOfUnits == \A s, t, u \in Seq(Unit) : (s \o t) \o u = s \o (t \o u)
BY ConcatAssociative

\* The first bytes of the first bytes.
LEMMA BytesOfBytes ==
  ASSUME NEW B, NEW buf \in Seq(B)
  PROVE  /\ Bytes(buf, Len(buf)) = buf
         /\ \A n \in Nat : Bytes(Bytes(buf, n), n) = Bytes(buf, n)
<1>1. Len(buf) \in Nat
  BY LenProperties
<1>2. Bytes(buf, Len(buf)) = buf
  BY <1>1, SubSeqFull DEF Bytes, Smaller
<1>3. ASSUME NEW n \in Nat
      PROVE  Bytes(Bytes(buf, n), n) = Bytes(buf, n)
  <2>1. PICK m \in 0 .. Len(buf) : m = Smaller(n, Len(buf)) /\ m <= n
    BY <1>1 DEF Smaller
  <2>2. PICK s \in Seq(B) : s = Bytes(buf, n) /\ Len(s) = m
    <3>1. \A i \in 1 .. m : buf[i] \in B
      BY <1>1, ElementOfSeq
    <3>2. SubSeq(buf, 1, m) \in Seq(B) /\ Len(SubSeq(buf, 1, m)) = m
      BY <3>1, SubSeqProperties
    <3> QED
      BY <2>1, <3>2 DEF Bytes
  <2>3. Smaller(n, m) = m
    BY <2>1 DEF Smaller
  <2>4. Bytes(s, n) = SubSeq(s, 1, Len(s))
    BY <2>2, <2>3 DEF Bytes
  <2> QED
    BY <2>2, <2>4, SubSeqFull
<1> QED
  BY <1>2, <1>3

\* What the operations under way carry: a write that has not left its buffer, and
\* the data of a read that is not handled yet.  An operation that is not complete
\* is like one that has come back with EAGAIN.
Holding(p, W, k, e) ==
  {Completion(op, Again) : op \in Range(p)}
  \cup {Completion(W[w], Again) : w \in {v \in Workers : W[v] # NoOp}}
  \cup Range(k) \cup Range(e)

Cargo == Holding(pending_ops, worker, completions, events)

Carries(k) ==
  (k.op.type = "write" /\ k.res = Again) \/ (k.op.type = "read" /\ k.res > 0)

Load(H, k) ==
  IF k.op.type = "write" THEN Bytes(H[k.op.block].write_buf, k.op.size)
  ELSE Bytes(H[k.op.block].read_buf, k.res)

\* The data that the operations in C carry for client c.
Loads(H, C, c) == {Load(H, k) : k \in {l \in C : l.op.client = c /\ Carries(l)}}

\* What client c has got or can receive comes before what an operation carries, and
\* that before what is not read yet.
InOrder(c, echoed, loads, rx, n) ==
  /\ Stretch(echoed, c, n)
  /\ Stretch(rx, c, n)
  /\ Precedes(echoed, rx)
  /\ \A s \in loads : Stretch(s, c, n) /\ Precedes(echoed, s) /\ Precedes(s, rx)

Flow(c) ==
  InOrder(c, got[c] \o sock[c].out, Loads(heap, Cargo, c), sock[c].rx, sent[c])

FlowInv == \A c \in Clients \ disturbed : Flow(c)

\* An operation gives up what it carries.
LEMMA GivenUp ==
  ASSUME NEW c, NEW g, NEW L, NEW M, M \subseteq L, NEW r, NEW n, InOrder(c, g, L, r, n)
  PROVE  InOrder(c, g, M, r, n)
BY DEF InOrder

\* SubmitRead: the front of the input becomes the load.
LEMMA ReadInOrder ==
  ASSUME NEW c, NEW g, NEW L, NEW d \in Seq(Unit), NEW r \in Seq(Unit), NEW n,
         InOrder(c, g, L, d \o r, n)
  PROVE  InOrder(c, g, {d}, r, n)
<1>1. /\ Stretch(g, c, n) /\ Stretch(d \o r, c, n) /\ Precedes(g, d \o r)
  BY DEF InOrder
<1>2. Stretch(d, c, n) /\ Stretch(r, c, n) /\ Precedes(d, r)
  BY <1>1, StretchCat
<1>3. Precedes(g, d) /\ Precedes(g, r)
  BY <1>1, PrecedesCat
<1> QED
  BY <1>1, <1>2, <1>3 DEF InOrder

\* SubmitWrite: the front of the load becomes output.
LEMMA WriteInOrder ==
  ASSUME NEW c, NEW g \in Seq(Unit), NEW L, NEW d \in Seq(Unit), NEW u \in Seq(Unit),
         d \o u \in L, NEW r, NEW n, InOrder(c, g, L, r, n)
  PROVE  InOrder(c, g \o d, {}, r, n)
<1>1. /\ Stretch(g, c, n) /\ Stretch(r, c, n) /\ Precedes(g, r)
      /\ Stretch(d \o u, c, n) /\ Precedes(g, d \o u) /\ Precedes(d \o u, r)
  BY DEF InOrder
<1>2. Stretch(d, c, n)
  BY <1>1, StretchCat
<1>3. Precedes(g, d) /\ Precedes(d, r)
  BY <1>1, PrecedesCat
<1>4. Stretch(g \o d, c, n)
  BY <1>1, <1>2, <1>3, StretchCat
<1>5. Precedes(g \o d, r)
  BY <1>1, <1>3, PrecedesCat
<1> QED
  BY <1>1, <1>4, <1>5 DEF InOrder

\* ClientSend: the client's next unit.
LEMMA SendInOrder ==
  ASSUME NEW c, NEW g \in Seq(Unit), NEW L \in SUBSET Seq(Unit), NEW r \in Seq(Unit), NEW n \in Nat,
         <<c, n + 1>> \in Unit, InOrder(c, g, L, r, n)
  PROVE  InOrder(c, g, L, Append(r, <<c, n + 1>>), n + 1)
<1>0. PICK x \in Unit : x = <<c, n + 1>>
  OBVIOUS
<1>1. <<x>> \in Seq(Unit) /\ Append(r, x) = r \o <<x>> /\ Range(<<x>>) = {x}
  BY AppendIsConcat, RangeOne
<1>2. ASSUME NEW s \in Seq(Unit), Stretch(s, c, n)
      PROVE  Stretch(s, c, n + 1) /\ Precedes(s, <<x>>)
  <2>1. \A y \in Range(s) : y[1] = c /\ y[2] <= n /\ y[2] \in Nat
    <3>1. \A y \in Range(s) : y \in Unit
      BY LenProperties, ElementOfSeq DEF Range
    <3> QED
      BY <1>2, <3>1 DEF Stretch, Unit
  <2>2. \A y \in Range(s) : y[2] <= n + 1 /\ y[2] < x[2]
    BY <1>0, <2>1
  <2>3. Stretch(s, c, n + 1)
    BY <1>2, <2>1, <2>2 DEF Stretch
  <2> QED
    BY <1>1, <2>2, <2>3 DEF Precedes
<1>3. Stretch(<<x>>, c, n + 1)
  <2>1. x[1] = c /\ x[2] = n + 1 /\ n + 1 <= n + 1
    BY <1>0
  <2>2. \A i, j \in DOMAIN <<x>> : ~(i < j)
    OBVIOUS
  <2> QED
    BY <1>1, <2>1, <2>2 DEF Stretch
<1>4. /\ Stretch(g, c, n + 1) /\ Precedes(g, <<x>>) /\ Precedes(g, r)
      /\ Stretch(r, c, n + 1) /\ Precedes(r, <<x>>)
  BY <1>2 DEF InOrder
<1>5. Stretch(r \o <<x>>, c, n + 1)
  BY <1>1, <1>3, <1>4, StretchCat
<1>6. Precedes(g, r \o <<x>>)
  BY <1>1, <1>4, PrecedesCat
<1>7. ASSUME NEW s \in L
      PROVE  Stretch(s, c, n + 1) /\ Precedes(g, s) /\ Precedes(s, r \o <<x>>)
  <2>1. s \in Seq(Unit) /\ Stretch(s, c, n) /\ Precedes(g, s) /\ Precedes(s, r)
    BY DEF InOrder
  <2>2. Precedes(s, r \o <<x>>)
    BY <1>1, <1>2, <2>1, PrecedesCat
  <2> QED
    BY <1>2, <2>1, <2>2
<1>8. InOrder(c, g, L, r \o <<x>>, n + 1)
  BY <1>4, <1>5, <1>6, <1>7 DEF InOrder
<1> QED
  BY <1>0, <1>1, <1>8

\* ClientReset: what is in the socket is lost.
LEMMA ResetInOrder ==
  ASSUME NEW c, NEW g \in Seq(Unit), NEW out \in Seq(Unit), NEW L, NEW r, NEW n,
         InOrder(c, g \o out, L, r, n)
  PROVE  InOrder(c, g, L, <<>>, n)
<1>1. Stretch(g \o out, c, n) /\ \A s \in L : Stretch(s, c, n) /\ Precedes(g \o out, s)
  BY DEF InOrder
<1>2. Stretch(g, c, n)
  BY <1>1, StretchCat
<1>3. \A s : Precedes(g \o out, s) => Precedes(g, s)
  BY PrecedesCat
<1> QED
  BY <1>1, <1>2, <1>3, StretchNone DEF InOrder

-----------------------------------------------------------------------------
(***************************************************************************)
(* The loads                                                               *)
(***************************************************************************)

\* A set with at most one member.
LEMMA SmallSet ==
  ASSUME NEW S, IsFiniteSet(S), Cardinality(S) \in {0, 1}, NEW x \in S, NEW y \in S
  PROVE  x = y
<1>1. CASE Cardinality(S) = 0
  BY <1>1, FS_EmptySet
<1>2. CASE Cardinality(S) = 1
  <2>1. \E z : S = {z}
    BY <1>2, FS_Singleton
  <2> QED
    BY <2>1
<1> QED
  BY <1>1, <1>2

LEMMA OccursFew ==
  ASSUME NEW S, NEW s \in Seq(S), NEW A, Occurs(s, A) \in {0, 1}
  PROVE  /\ \A x, y \in Range(s) \cap A : x = y
         /\ Occurs(s, A) = 0 => Range(s) \cap A = {}
<1>1. IsFiniteSet(Places(s, A)) /\ Cardinality(Places(s, A)) \in {0, 1}
  BY OccursType DEF Occurs
<1>2. \A i, j \in Places(s, A) : i = j
  BY <1>1, SmallSet
<1>3. \A x \in Range(s) \cap A : \E i \in Places(s, A) : x = s[i]
  BY DEF Range, Places
<1>4. Occurs(s, A) = 0 => Places(s, A) = {}
  BY <1>1, FS_EmptySet DEF Occurs
<1> QED
  BY <1>2, <1>3, <1>4

\* Operations under way are outcomes or wait for one; a client with one operation
\* has one load at most.
LEMMA HoldingIs ==
  ASSUME NEW p \in Seq(Operations), NEW W \in WorkerType,
         NEW k \in Seq(Outcomes), NEW e \in Seq(Outcomes),
         NEW x \in Holding(p, W, k, e)
  PROVE  x \in Outcomes /\ x.op \in Operations /\ x.op \in Flying(p, W, k, e)
<1>1. Again \in Error .. BufSize
  BY ProactorAssumption DEF Again, Error
<1>2. \A op \in Operations : Completion(op, Again) \in Outcomes /\ Completion(op, Again).op = op
  BY <1>1 DEF Completion, Outcomes
<1>3. Range(p) \subseteq Operations
  BY LenProperties, ElementOfSeq DEF Range
<1>4. Range(k) \subseteq Outcomes /\ Range(e) \subseteq Outcomes
  BY LenProperties, ElementOfSeq DEF Range
<1>5. \A w \in {v \in Workers : W[v] # NoOp} : W[w] \in Operations
  BY DEF WorkerType
<1>6. x \in Outcomes
  BY <1>2, <1>3, <1>4, <1>5 DEF Holding
<1>7. x.op \in Flying(p, W, k, e)
  BY <1>2, <1>3, <1>5 DEF Holding, Flying
<1> QED
  BY <1>6, <1>7 DEF Outcomes

LEMMA OneCargo ==
  ASSUME NEW p \in Seq(Operations), NEW W \in WorkerType,
         NEW k \in Seq(Outcomes), NEW e \in Seq(Outcomes), NEW c,
         Count(p, W, k, e, c) \in {0, 1},
         NEW x \in Holding(p, W, k, e), x.op.client = c,
         NEW y \in Holding(p, W, k, e), y.op.client = c
  PROVE  x = y
<1> DEFINE A == {Completion(op, Again) : op \in Range(p) \cap Mine(c)}
           H == {Completion(W[w], Again) : w \in Holders(W, c)}
           K == Range(k) \cap MineDone(c)
           E == Range(e) \cap MineDone(c)
<1>1. ASSUME NEW z \in Holding(p, W, k, e), z.op.client = c
      PROVE  z \in A \cup H \cup K \cup E
  <2>1. z \in Outcomes
    BY HoldingIs
  <2>2. \A op : Completion(op, Again).op = op
    BY DEF Completion
  <2>3. CASE z \in {Completion(op, Again) : op \in Range(p)}
    <3>1. Range(p) \subseteq Operations
      BY LenProperties, ElementOfSeq DEF Range
    <3> QED
      BY <1>1, <2>2, <2>3, <3>1 DEF Mine
  <2>4. CASE z \in {Completion(W[w], Again) : w \in {v \in Workers : W[v] # NoOp}}
    BY <1>1, <2>2, <2>4 DEF Holders
  <2>5. CASE z \in Range(k) \cup Range(e)
    BY <1>1, <2>1, <2>5 DEF MineDone
  <2> QED
    BY <2>3, <2>4, <2>5 DEF Holding
<1>2. PICK a \in Nat, h \in Nat, m \in Nat, b \in Nat :
        /\ a = Occurs(p, Mine(c)) /\ h = Cardinality(Holders(W, c))
        /\ m = Occurs(k, MineDone(c)) /\ b = Occurs(e, MineDone(c))
  BY CountType
<1>3. a + h + m + b \in {0, 1}
  BY <1>2 DEF Count
<1>4. a \in {0, 1} /\ h \in {0, 1} /\ m \in {0, 1} /\ b \in {0, 1}
  BY <1>3
<1>5. /\ a = 0 \/ h = 0
      /\ a = 0 \/ m = 0
      /\ a = 0 \/ b = 0
      /\ h = 0 \/ m = 0
      /\ h = 0 \/ b = 0
      /\ m = 0 \/ b = 0
  BY <1>3
<1>6. (\A u, v \in A : u = v) /\ (a = 0 => A = {})
  <2>1. Occurs(p, Mine(c)) \in {0, 1}
    BY <1>2, <1>4
  <2> QED
    BY <1>2, <2>1, OccursFew
<1>7. (\A u, v \in H : u = v) /\ (h = 0 => H = {})
  <2>1. IsFiniteSet(Holders(W, c)) /\ (h = 0 => Holders(W, c) = {})
    BY <1>2, HoldersType
  <2>2. \A u, v \in Holders(W, c) : u = v
    BY <1>2, <1>4, <2>1, SmallSet
  <2> QED
    BY <2>1, <2>2
<1>8. ASSUME NEW s \in Seq(Outcomes), NEW n \in {0, 1}, n = Occurs(s, MineDone(c))
      PROVE  /\ \A u, v \in Range(s) \cap MineDone(c) : u = v
             /\ n = 0 => Range(s) \cap MineDone(c) = {}
  BY <1>8, OccursFew
<1>9. (\A u, v \in K : u = v) /\ (m = 0 => K = {})
  BY <1>2, <1>4, <1>8
<1>10. (\A u, v \in E : u = v) /\ (b = 0 => E = {})
  BY <1>2, <1>4, <1>8
<1>11. x \in A \cup H \cup K \cup E /\ y \in A \cup H \cup K \cup E
  BY <1>1
<1> HIDE DEF A, H, K, E
<1> QED
  BY <1>5, <1>6, <1>7, <1>9, <1>10, <1>11

LEMMA CargoIs ==
  ASSUME QueueInv, NEW k \in Cargo
  PROVE  /\ k \in Outcomes /\ k.op \in InFlight /\ k.op \in Operations
         /\ k.op.block \in Blocks /\ k.op.client \in Clients
<1>1. k \in Outcomes /\ k.op \in Operations
      /\ k.op \in Flying(pending_ops, worker, completions, events)
  BY HoldingIs DEF Cargo, QueueInv
<1> QED
  BY <1>1, UnderWayIs DEF Operations

\* After a step, a client that is not disturbed has one load, and an orphan has none.
LEMMA CargoNext ==
  ASSUME QueueInv', ChainInv', NEW c \in Clients, c \notin disturbed',
         NEW x \in Cargo', x.op.client = c
  PROVE  /\ \A y \in Cargo' : y.op.client = c => x = y
         /\ c \notin orphaned'
<1>1. UnderWay(c)' = IF c \in Open' \ orphaned' THEN 1 ELSE 0
  BY DEF ChainInv, OneChain
<1>2. Count(pending_ops', worker', completions', events', c) \in {0, 1}
  BY <1>1, UnderWayIsNext
<1>3. x \in Holding(pending_ops', worker', completions', events')
  BY DEF Cargo
<1>4. \A y \in Cargo' : y.op.client = c => x = y
  BY <1>2, <1>3, OneCargo DEF QueueInv, Cargo
<1>5. x.op \in InFlight'
  BY <1>3, HoldingIs, UnderWayIsNext DEF QueueInv
<1>6. UnderWay(c)' # 0
  BY <1>5, NoneUnderWayNext
<1> QED
  BY <1>1, <1>4, <1>6

\* The loads are units.
LEMMA LoadType ==
  ASSUME QueueInv, DataInv, NEW k \in Cargo, Carries(k)
  PROVE  Load(heap, k) \in Seq(Unit)
<1>1. k.op.block \in Blocks /\ k \in Outcomes /\ k.op \in Operations
  BY CargoIs
<1>2. heap[k.op.block].write_buf \in Seq(Unit) /\ heap[k.op.block].read_buf \in Seq(Unit)
  BY <1>1 DEF DataInv, Block
<1>3. k.op.size \in Nat
  BY <1>1, ProactorAssumption DEF Operations
<1>4. k.op.type # "write" => k.res \in Nat
  BY <1>1, ProactorAssumption DEF Carries, Outcomes, Error
<1> QED
  BY <1>2, <1>3, <1>4, BytesType DEF Load

\* What the moves of the operations do to the cargo.
LEMMA CargoTaken ==
  ASSUME QueueInv, NEW w \in Workers, pending_ops # <<>>,
         worker' = [worker EXCEPT ![w] = Head(pending_ops)],
         pending_ops' = Tail(pending_ops),
         UNCHANGED <<completions, events>>
  PROVE  Cargo' \subseteq Cargo
<1>1. PICK op \in Operations : op = Head(pending_ops)
  BY OccursPop DEF QueueInv
<1>2. Range(pending_ops) = Range(pending_ops') \cup {op}
  BY <1>1, OccursPop DEF QueueInv
<1>3. \A v \in Workers : worker'[v] = IF v = w THEN op ELSE worker[v]
  BY <1>1 DEF QueueInv, WorkerType
<1> QED
  BY <1>2, <1>3 DEF Cargo, Holding

LEMMA CargoParted ==
  ASSUME QueueInv, NEW w \in Workers, worker[w] # NoOp, NEW res \in Error .. BufSize,
         completions' = Append(completions, Completion(worker[w], res)),
         worker' = [worker EXCEPT ![w] = NoOp],
         UNCHANGED <<pending_ops, events>>
  PROVE  /\ Cargo' \subseteq Cargo \cup {Completion(worker[w], res)}
         /\ Completion(worker[w], res) \in Cargo'
         /\ Completion(worker[w], Again) \in Cargo
<1>1. PICK op \in Operations : op = worker[w]
  BY DEF QueueInv, WorkerType
<1>2. PICK x \in Outcomes : x = Completion(op, res)
  BY DEF Outcomes, Completion
<1>3. Range(completions') = Range(completions) \cup {x}
  BY <1>1, <1>2, OccursAppend DEF QueueInv
<1>4. \A v \in Workers : worker'[v] = IF v = w THEN NoOp ELSE worker[v]
  BY DEF QueueInv, WorkerType
<1>5. {Completion(worker'[v], Again) : v \in {u \in Workers : worker'[u] # NoOp}}
        \subseteq {Completion(worker[v], Again) : v \in {u \in Workers : worker[u] # NoOp}}
  BY <1>4
<1>6. Cargo' \subseteq Cargo \cup {x} /\ x \in Cargo'
  BY <1>3, <1>5 DEF Cargo, Holding
<1>7. Completion(worker[w], Again) \in Cargo
  BY DEF Cargo, Holding
<1> QED
  BY <1>1, <1>2, <1>6, <1>7

\* A worker that frees its operation, or puts it back.
LEMMA CargoFreed ==
  ASSUME QueueInv, NEW w \in Workers, worker[w] # NoOp,
         pending_ops' \in {pending_ops, <<worker[w]>> \o pending_ops},
         worker' = [worker EXCEPT ![w] = NoOp],
         UNCHANGED <<completions, events>>
  PROVE  Cargo' \subseteq Cargo
<1>1. PICK op \in Operations : op = worker[w]
  BY DEF QueueInv, WorkerType
<1>2. Range(pending_ops') \subseteq Range(pending_ops) \cup {op}
  <2>1. pending_ops \in Seq(Operations)
    BY DEF QueueInv
  <2>2. Range(<<op>> \o pending_ops) = {op} \cup Range(pending_ops)
    BY <2>1, OccursPush
  <2>3. pending_ops' \in {pending_ops, <<op>> \o pending_ops}
    BY <1>1
  <2> QED
    BY <2>2, <2>3
<1>3. \A v \in Workers : worker'[v] = IF v = w THEN NoOp ELSE worker[v]
  BY DEF QueueInv, WorkerType
<1>4. Completion(op, Again) \in Cargo
  BY <1>1 DEF Cargo, Holding
<1>5. {Completion(worker'[v], Again) : v \in {u \in Workers : worker'[u] # NoOp}}
        \subseteq {Completion(worker[v], Again) : v \in {u \in Workers : worker[u] # NoOp}}
  BY <1>3
<1> QED
  BY <1>2, <1>4, <1>5 DEF Cargo, Holding

LEMMA CargoReaped ==
  ASSUME QueueInv, events' = Front(completions, MaxEvents),
         completions' = Drop(completions, MaxEvents),
         UNCHANGED <<pending_ops, worker>>
  PROVE  Cargo' \subseteq Cargo
<1>1. Range(completions) = Range(events') \cup Range(completions')
  BY ProactorAssumption, OccursCut DEF QueueInv
<1> QED
  BY <1>1 DEF Cargo, Holding

\* A completion is handled, and another operation may be submitted.
LEMMA CargoHandled ==
  ASSUME QueueInv, events # <<>>, events' = Tail(events), NEW op \in Operations,
         pending_ops' \in {pending_ops, <<op>> \o pending_ops},
         UNCHANGED <<worker, completions>>
  PROVE  Cargo' \subseteq Cargo \cup {Completion(op, Again)} /\ Done \in Cargo
<1>1. Range(events) = Range(events') \cup {Done}
  BY OccursPop DEF QueueInv, Done
<1>2. Range(pending_ops') \subseteq Range(pending_ops) \cup {op}
  BY OccursPush DEF QueueInv
<1> QED
  BY <1>1, <1>2 DEF Cargo, Holding

LEMMA CargoSubmitted ==
  ASSUME QueueInv, NEW op \in Operations,
         pending_ops' \in {pending_ops, <<op>> \o pending_ops},
         UNCHANGED <<worker, completions, events>>
  PROVE  Cargo' \subseteq Cargo \cup {Completion(op, Again)}
<1>1. Range(pending_ops') \subseteq Range(pending_ops) \cup {op}
  BY OccursPush DEF QueueInv
<1> QED
  BY <1>1 DEF Cargo, Holding

\* Two operations share a block only if they are of one client, unless it is disturbed.
LEMMA BlocksApart ==
  ASSUME QueueInv, ChainInv, NEW k \in InFlight, NEW op \in InFlight,
         k.client \notin disturbed, k.block = op.block
  PROVE  op.client = k.client
<1>1. k \in Operations /\ k.fd \in Fds /\ k.client \in Clients /\ k.client # None
  BY FlightType, ProactorAssumption DEF Operations
<1>2. file[k.fd] = k.client /\ connections[k.fd] = k.block
  BY DEF ChainInv, OpsFit, Fits
<1> QED
  BY <1>1, <1>2 DEF ChainInv, OpsFit, Fits

\* A client that is disturbed remains so.
LEMMA DisturbedStays ==
  ASSUME [Next]_vars
  PROVE  disturbed \subseteq disturbed'
<1> USE DEF historyVars
<1>1. CASE \E w \in Workers : Worker(w)
  BY <1>1 DEF Worker, TakeOperation, WorkerStops, SubmitOk, SubmitRead, SubmitReadNone,
              SubmitWrite, SubmitWriteNone, Completed, SubmitFails, SubmitAgain
<1>2. CASE Dispatcher
  BY <1>2 DEF Dispatcher, WaitForEvents, Hangup, HandleNewConnection, RefuseConnection,
              EventsDone, Reap, DropCompletion, CompleteAgain, CompleteEnd, CompleteRead,
              CompleteWrite, CompletionsDone
<1>3. CASE Main \/ Signal
  BY <1>3 DEF Main, CreateWorker, CreateDispatcher, CreateFails, RunEnds, Stop, StopReturns,
              JoinAndClean, JoinUndefined, Signal, serverVars
<1>4. CASE \E c \in Clients : Client(c)
  BY <1>4 DEF Client, Connect, ClientSend, ClientReceive, ClientFin, ClientReset, OnSocket
<1>5. CASE UNCHANGED vars
  BY <1>5 DEF vars
<1> QED
  BY <1>1, <1>2, <1>3, <1>4, <1>5 DEF Next

-----------------------------------------------------------------------------
(***************************************************************************)
(* FlowInv                                                                 *)
(***************************************************************************)

flowRest == <<heap, sock, sent, got>>

\* No operation carries anything new.
CargoRest == \A k \in Cargo' : Carries(k) => k \in Cargo

LEMMA QueuesRestCargo ==
  ASSUME UNCHANGED <<pending_ops, worker, completions, events>>
  PROVE  Cargo' = Cargo
BY DEF Cargo, Holding

\* What has come back carries nothing, or what it carried before.
LEMMA WorkerCargo ==
  ASSUME QueueInv, TableInv, DataInv, NEW w \in Workers, Worker(w)
  PROVE  \/ UNCHANGED flowRest /\ CargoRest
         \/ SubmitRead(w) \/ SubmitWrite(w)
<1> USE DEF flowRest, CargoRest
<1>1. CASE TakeOperation(w)
  <2>1. /\ pending_ops # <<>> /\ worker' = [worker EXCEPT ![w] = Head(pending_ops)]
        /\ pending_ops' = Tail(pending_ops) /\ UNCHANGED <<completions, events>>
        /\ UNCHANGED flowRest
    BY <1>1 DEF TakeOperation, dispatchVars, clientVars
  <2> QED
    BY <2>1, CargoTaken
<1>2. CASE WorkerStops(w)
  <2>1. UNCHANGED <<pending_ops, worker, completions, events>> /\ UNCHANGED flowRest
    BY <1>2 DEF WorkerStops, dispatchVars, clientVars
  <2> QED
    BY <2>1, QueuesRestCargo
<1>3. CASE SubmitReadNone(w) \/ SubmitWriteNone(w)
  <2>1. PICK res \in {Error, 0, Again} :
          /\ Completed(w, res) /\ worker[w] # NoOp
          /\ res = 0 => worker[w].type = "read"
    <3>1. worker[w] # NoOp
      BY <1>3 DEF SubmitReadNone, SubmitWriteNone, Submits
    <3>2. CASE SubmitReadNone(w)
      <4>1. PICK r : /\ r = IF Target(w).err THEN Error ELSE IF Target(w).fin THEN 0 ELSE Again
                     /\ Completed(w, r)
        BY <3>2 DEF SubmitReadNone
      <4>2. worker[w].type = "read"
        BY <3>2 DEF SubmitReadNone, Submits
      <4> QED
        BY <3>1, <4>1, <4>2
    <3>3. CASE SubmitWriteNone(w)
      <4>1. PICK r : r = (IF Target(w).err THEN Error ELSE Again) /\ Completed(w, r)
        BY <3>3 DEF SubmitWriteNone
      <4> QED
        BY <3>1, <4>1 DEF Error, Again
    <3> QED
      BY <1>3, <3>2, <3>3
  <2>2. UNCHANGED flowRest
    BY <1>3 DEF SubmitReadNone, SubmitWriteNone, Completed, clientVars
  <2>3. res \in Error .. BufSize
    BY ProactorAssumption DEF Error, Again
  <2>4. /\ Cargo' \subseteq Cargo \cup {Completion(worker[w], res)}
        /\ Completion(worker[w], Again) \in Cargo
    BY <2>1, <2>3, CargoParted DEF Completed, dispatchVars
  <2>5. Carries(Completion(worker[w], res)) => res = Again
    BY DEF Carries, Completion, Error, Again
  <2> QED
    BY <2>2, <2>4, <2>5
<1>4. CASE SubmitFails(w) \/ SubmitAgain(w)
  <2>1. /\ worker[w] # NoOp /\ worker' = [worker EXCEPT ![w] = NoOp]
        /\ pending_ops' \in {pending_ops, <<worker[w]>> \o pending_ops}
        /\ UNCHANGED <<completions, events>> /\ UNCHANGED flowRest
    BY <1>4 DEF SubmitFails, SubmitAgain, Submit, dispatchVars, clientVars
  <2> QED
    BY <2>1, CargoFreed
<1> QED
  BY <1>1, <1>2, <1>3, <1>4 DEF Worker, SubmitOk

LEMMA DispatcherCargo ==
  ASSUME QueueInv, TableInv, ChainInv, Dispatcher
  PROVE  \/ UNCHANGED flowRest /\ CargoRest
         \/ HandleNewConnection \/ CompleteRead
<1> USE DEF flowRest, CargoRest
<1>1. CASE WaitForEvents \/ Hangup \/ RefuseConnection \/ EventsDone \/ CompletionsDone
  <2>1. UNCHANGED <<pending_ops, worker, completions, events>> /\ UNCHANGED flowRest
    BY <1>1 DEF WaitForEvents, Hangup, RefuseConnection, EventsDone, CompletionsDone, queueVars,
                clientVars
  <2> QED
    BY <2>1, QueuesRestCargo
<1>2. CASE Reap
  <2>1. /\ events' = Front(completions, MaxEvents)
        /\ completions' = Drop(completions, MaxEvents)
        /\ UNCHANGED <<pending_ops, worker>> /\ UNCHANGED flowRest
    BY <1>2 DEF Reap, Front, clientVars
  <2> QED
    BY <2>1, CargoReaped
<1>3. CASE DropCompletion \/ CompleteEnd \/ CompleteAgain
  <2>1. /\ events # <<>> /\ events' = Tail(events)
        /\ UNCHANGED <<worker, completions>> /\ UNCHANGED flowRest
        /\ UNCHANGED pending_ops \/ (Submit(Done.op) /\ Done.res = Again)
    BY <1>3 DEF DropCompletion, CompleteEnd, CompleteAgain, Handles, queueVars, clientVars
  <2>2. PICK op \in Operations : op = Done.op
    BY <2>1, DoneIs
  <2>3. pending_ops' \in {pending_ops, <<op>> \o pending_ops}
    BY <2>1, <2>2 DEF Submit
  <2>4. Cargo' \subseteq Cargo \cup {Completion(op, Again)} /\ Done \in Cargo
    BY <2>1, <2>3, CargoHandled
  <2>5. CASE UNCHANGED pending_ops
    <3>1. Range(events') \subseteq Range(events)
      BY <2>1, OccursPop DEF QueueInv
    <3> QED
      BY <2>1, <2>5, <3>1 DEF Cargo, Holding
  <2>6. CASE Done.res = Again
    <3>1. Done \in Outcomes
      BY <2>4, CargoIs
    <3>2. Completion(op, Again) = Done
      BY <2>2, <2>6, <3>1 DEF Completion, Outcomes
    <3> QED
      BY <2>1, <2>4, <3>2
  <2> QED
    BY <2>1, <2>5, <2>6
<1>4. CASE CompleteWrite
  <2>1. /\ events # <<>> /\ events' = Tail(events) /\ Matches
        /\ UNCHANGED <<worker, completions>> /\ UNCHANGED flowRest
        /\ SubmitOrOrphan(NextOperation("read", BufSize - 1))
    BY <1>4 DEF CompleteWrite, Handles, clientVars
  <2>2. PICK op \in Operations : op = NextOperation("read", BufSize - 1)
    <3>1. BufSize - 1 \in 0 .. BufSize
      BY ProactorAssumption
    <3> QED
      BY <2>1, <3>1, MatchIs, DoneIs DEF NextOperation, Operation, Operations
  <2>3. pending_ops' \in {pending_ops, <<op>> \o pending_ops}
    BY <2>1, <2>2 DEF SubmitOrOrphan, Submit
  <2>4. Cargo' \subseteq Cargo \cup {Completion(op, Again)}
    BY <2>1, <2>3, CargoHandled
  <2>5. ~Carries(Completion(op, Again))
    BY <2>2 DEF Carries, Completion, NextOperation, Operation, Again
  <2> QED
    BY <2>1, <2>4, <2>5
<1> QED
  BY <1>1, <1>2, <1>3, <1>4 DEF Dispatcher

LEMMA CargoMoves ==
  ASSUME QueueInv, TableInv, DataInv, ChainInv, [Next]_vars
  PROVE  \/ UNCHANGED flowRest /\ CargoRest
         \/ \E w \in Workers : SubmitRead(w) \/ SubmitWrite(w)
         \/ HandleNewConnection \/ CompleteRead
         \/ \E c \in Clients : ClientSend(c) \/ ClientReceive(c) \/ ClientFin(c) \/ ClientReset(c)
<1>1. CASE \E w \in Workers : Worker(w)
  BY <1>1, WorkerCargo
<1>2. CASE Dispatcher
  BY <1>2, DispatcherCargo
<1>3. CASE Main \/ Signal
  <2>1. UNCHANGED <<pending_ops, worker, completions, events>> /\ UNCHANGED flowRest
    BY <1>3 DEF Main, CreateWorker, CreateDispatcher, CreateFails, RunEnds, Stop, StopReturns,
                JoinAndClean, JoinUndefined, Signal, serverVars, queueVars, dispatchVars, clientVars,
                flowRest
  <2> QED
    BY <2>1, QueuesRestCargo DEF CargoRest
<1>4. CASE \E c \in Clients : Client(c)
  <2>1. CASE \E c \in Clients : Connect(c)
    <3>1. UNCHANGED <<pending_ops, worker, completions, events>> /\ UNCHANGED flowRest
      BY <2>1 DEF Connect, queueVars, dispatchVars, flowRest
    <3> QED
      BY <3>1, QueuesRestCargo DEF CargoRest
  <2> QED
    BY <1>4, <2>1 DEF Client
<1>5. CASE UNCHANGED vars
  <2>1. UNCHANGED <<pending_ops, worker, completions, events>> /\ UNCHANGED flowRest
    BY <1>5 DEF vars, queueVars, dispatchVars, clientVars, flowRest
  <2> QED
    BY <2>1, QueuesRestCargo DEF CargoRest
<1> QED
  BY <1>1, <1>2, <1>3, <1>4, <1>5 DEF Next

\* The data of client c after a step.
FlowNext(c) ==
  InOrder(c, got'[c] \o sock'[c].out, Loads(heap', Cargo', c), sock'[c].rx, sent'[c])

LEMMA FlowNextIs ==
  ASSUME \A c \in Clients \ disturbed' : FlowNext(c)
  PROVE  FlowInv'
BY DEF FlowInv, Flow, FlowNext

\* A connection that a step leaves alone.
LEMMA FlowKept ==
  ASSUME NEW c \in Clients, Flow(c),
         got'[c] = got[c], sock'[c] = sock[c], sent'[c] = sent[c],
         \A k \in Cargo' :
           k.op.client = c /\ Carries(k) => k \in Cargo /\ Load(heap', k) = Load(heap, k)
  PROVE  FlowNext(c)
<1>1. PICK g, L, r, n : /\ g = got[c] \o sock[c].out /\ L = Loads(heap, Cargo, c)
                        /\ r = sock[c].rx /\ n = sent[c]
  OBVIOUS
<1>2. PICK M : M = Loads(heap', Cargo', c)
  OBVIOUS
<1>3. M \subseteq L
  BY <1>1, <1>2 DEF Loads
<1>4. InOrder(c, g, L, r, n)
  BY <1>1 DEF Flow
<1>5. InOrder(c, g, M, r, n)
  BY <1>3, <1>4, GivenUp
<1> QED
  BY <1>1, <1>2, <1>5 DEF FlowNext

\* What another client's operation carries is not in the block of op.
LEMMA OtherBlock ==
  ASSUME QueueInv, ChainInv, NEW op \in InFlight,
         \A b \in Blocks \ {op.block} : heap'[b] = heap[b],
         NEW k \in Cargo, k.op.client # op.client, k.op.client \notin disturbed
  PROVE  Load(heap', k) = Load(heap, k)
<1>1. k.op \in InFlight /\ k.op.block \in Blocks
  BY CargoIs
<1>2. k.op.block # op.block
  BY <1>1, BlocksApart
<1> QED
  BY <1>1, <1>2 DEF Load

\* The operation of worker w that the AIO context accepts, and its connection.
LEMMA AcceptedIs ==
  ASSUME QueueInv, TableInv, DataInv, ChainInv, NEW w \in Workers, NEW type, Submits(w, type)
  PROVE  /\ worker[w] \in Operations /\ worker[w] \in InFlight /\ worker[w].type = type
         /\ worker[w].fd \in Fds /\ worker[w].block \in Blocks
         /\ file[worker[w].fd] \in Clients
         /\ file[worker[w].fd] \notin disturbed => worker[w].client = file[worker[w].fd]
         /\ worker[w].client \notin disturbed => worker[w].client = file[worker[w].fd]
<1>1. PICK op \in Operations : op = worker[w] /\ op \in InFlight
  BY DEF QueueInv, WorkerType, Submits, InFlight
<1>2. op.fd \in Fds /\ op.block \in Blocks
  BY DEF Operations
<1>3. file[op.fd] \in Clients /\ file[op.fd] # None
  BY <1>1, <1>2 DEF Submits, TableInv
<1>4. Fits(op)
  BY <1>1 DEF ChainInv, OpsFit
<1>5. /\ file[op.fd] \notin disturbed => op.client = file[op.fd]
      /\ op.client \notin disturbed => op.client = file[op.fd]
  BY <1>2, <1>3, <1>4 DEF Fits
<1> QED
  BY <1>1, <1>2, <1>3, <1>5 DEF Submits

LEMMA FlowRead ==
  ASSUME QueueInv, QueueInv', TableInv, DataInv, ChainInv, ChainInv', FlowInv,
         NEW w \in Workers, SubmitRead(w),
         NEW c \in Clients, c \notin disturbed, c \notin disturbed'
  PROVE  FlowNext(c)
<1>1. Submits(w, "read")
  BY DEF SubmitRead
<1>2. PICK op \in Operations : op = worker[w]
  BY <1>1, AcceptedIs
<1>3. PICK d \in Clients : d = file[op.fd]
  BY <1>1, <1>2, AcceptedIs
<1>4. /\ op \in InFlight /\ op.type = "read" /\ op.block \in Blocks
      /\ d \notin disturbed => op.client = d
      /\ op.client \notin disturbed => op.client = d
  BY <1>1, <1>2, <1>3, AcceptedIs
<1>5. PICK s \in SocketType(Unit) : s = sock[d]
  BY DEF DataInv
<1>6. BufSize - 1 \in Nat /\ BufSize \in Nat
  BY ProactorAssumption
<1>7. PICK data \in Seq(Unit) : data = Take(s, BufSize - 1) /\ Len(data) \in 0 .. BufSize - 1
  BY <1>6, TakeType
<1>8. /\ heap' = [heap EXCEPT ![op.block].read_buf = data]
      /\ sock' = [sock EXCEPT ![d] = AfterRead(@, BufSize - 1)]
      /\ Completed(w, Len(data))
  BY <1>2, <1>3, <1>5, <1>7 DEF SubmitRead, Target
<1>9. PICK x : x = Completion(op, Len(data))
  OBVIOUS
<1>10. x.op = op /\ x.res = Len(data)
  BY <1>9 DEF Completion
<1>11. Cargo' \subseteq Cargo \cup {x} /\ x \in Cargo'
  <2>1. Len(data) \in Error .. BufSize
    BY <1>6, <1>7 DEF Error
  <2> QED
    BY <1>1, <1>2, <1>8, <1>9, <2>1, CargoParted DEF Completed, dispatchVars, Submits
<1>12. got' = got /\ sent' = sent
  BY <1>8 DEF Completed, clientVars
<1>13. Flow(c)
  BY DEF FlowInv
<1>14. CASE op.client # c
  <2>1. d # c
    BY <1>4, <1>14
  <2>2. sock'[c] = sock[c]
    BY <1>8, <2>1 DEF DataInv
  <2>3. \A b \in Blocks \ {op.block} : heap'[b] = heap[b]
    BY <1>8 DEF DataInv
  <2>4. ASSUME NEW k \in Cargo', k.op.client = c
        PROVE  k \in Cargo /\ Load(heap', k) = Load(heap, k)
    <3>1. k \in Cargo
      BY <1>10, <1>11, <1>14, <2>4
    <3> QED
      BY <1>4, <1>14, <2>3, <2>4, <3>1, OtherBlock
  <2> QED
    BY <1>12, <1>13, <2>2, <2>4, FlowKept
<1>15. CASE op.client = c
  <2>1. d = c
    BY <1>4, <1>15
  <2>2. s.rx \in Seq(Unit)
    BY DEF SocketType
  <2>3. PICK m \in 0 .. Len(s.rx) : m = Smaller(BufSize - 1, Len(s.rx))
    BY <1>6, <2>2, LenProperties DEF Smaller
  <2>4. PICK rest \in Seq(Unit) : rest = Drop(s.rx, m) /\ s.rx = data \o rest
    <3>1. PICK q \in Seq(Unit) : q = s.rx
      BY <2>2
    <3>2. /\ SubSeq(q, 1, m) \in Seq(Unit) /\ SubSeq(q, m + 1, Len(q)) \in Seq(Unit)
          /\ q = SubSeq(q, 1, m) \o SubSeq(q, m + 1, Len(q))
      BY <3>1, CutOfList
    <3>3. SubSeq(q, 1, m) = data /\ SubSeq(q, m + 1, Len(q)) = Drop(q, m)
      BY <1>7, <2>3, <3>1 DEF Take, Drop
    <3> QED
      BY <3>1, <3>2, <3>3
  <2>5. sock'[c].rx = rest /\ sock'[c].out = sock[c].out
    <3>1. sock'[c] = AfterRead(s, BufSize - 1)
      BY <1>5, <1>8, <2>1 DEF DataInv
    <3>2. AfterRead(s, BufSize - 1) = [s EXCEPT !.rx = rest]
      BY <2>3, <2>4 DEF AfterRead
    <3> QED
      BY <1>5, <2>1, <3>1, <3>2 DEF SocketType
  <2>6. Load(heap', x) = data
    <3>1. heap'[op.block].read_buf = data
      BY <1>4, <1>8 DEF DataInv, Block
    <3>2. Bytes(data, Len(data)) = data
      BY BytesOfBytes
    <3> QED
      BY <1>4, <1>10, <3>1, <3>2 DEF Load
  <2>7. Loads(heap', Cargo', c) \subseteq {data}
    <3>1. \A k \in Cargo' : k.op.client = c => k = x
      BY <1>10, <1>11, <1>15, CargoNext
    <3> QED
      BY <2>6, <3>1 DEF Loads
  <2>8. PICK g, L, n, M : /\ g = got[c] \o sock[c].out /\ L = Loads(heap, Cargo, c)
                          /\ n = sent[c] /\ M = Loads(heap', Cargo', c)
    OBVIOUS
  <2>9. InOrder(c, g, L, data \o rest, n)
    BY <1>5, <1>13, <2>1, <2>4, <2>8 DEF Flow
  <2>10. InOrder(c, g, {data}, rest, n)
    BY <2>9, ReadInOrder
  <2>11. InOrder(c, g, M, rest, n)
    BY <2>7, <2>8, <2>10, GivenUp
  <2> QED
    BY <1>12, <2>5, <2>8, <2>11 DEF FlowNext
<1> QED
  BY <1>14, <1>15

LEMMA FlowWrite ==
  ASSUME QueueInv, QueueInv', TableInv, DataInv, ChainInv, ChainInv', FlowInv,
         NEW w \in Workers, SubmitWrite(w),
         NEW c \in Clients, c \notin disturbed, c \notin disturbed'
  PROVE  FlowNext(c)
<1>1. Submits(w, "write")
  BY DEF SubmitWrite
<1>2. PICK op \in Operations : op = worker[w]
  BY <1>1, AcceptedIs
<1>3. PICK d \in Clients : d = file[op.fd]
  BY <1>1, <1>2, AcceptedIs
<1>4. /\ op \in InFlight /\ op.type = "write"
      /\ d \notin disturbed => op.client = d
      /\ op.client \notin disturbed => op.client = d
  BY <1>1, <1>2, <1>3, AcceptedIs
<1>5. PICK s \in SocketType(Unit) : s = sock[d]
  BY DEF DataInv
<1>6. PICK room \in Nat : room = Room(s) /\ room > 0
  <2>1. Room(s) > 0
    BY <1>2, <1>3, <1>5 DEF SubmitWrite, Target
  <2>2. Room(s) \in Int
    BY SendSpaceAssumption, LenProperties DEF Room, SocketType
  <2> QED
    BY <2>1, <2>2
<1>7. PICK n \in 0 .. BufSize : n = Smaller(op.size, room)
  BY <1>6, ProactorAssumption DEF Smaller, Operations
<1>8. PICK x : x = Completion(op, n)
  OBVIOUS
<1>9. PICK y : y = Completion(op, Again)
  OBVIOUS
<1>10. x.op = op /\ ~Carries(x) /\ y.op = op /\ Carries(y)
  BY <1>4, <1>7, <1>8, <1>9, ProactorAssumption DEF Completion, Carries, Again
<1>11. /\ sock' = [sock EXCEPT ![d] = AfterWrite(@, Output(op))]
       /\ Completed(w, n) /\ heap' = heap
  BY <1>2, <1>3, <1>5, <1>6, <1>7 DEF SubmitWrite, Target
<1>12. Cargo' \subseteq Cargo \cup {x} /\ x \in Cargo' /\ y \in Cargo
  <2>1. n \in Error .. BufSize
    BY <1>7, ProactorAssumption DEF Error
  <2> QED
    BY <1>1, <1>2, <1>8, <1>9, <1>11, <2>1, CargoParted DEF Completed, dispatchVars, Submits
<1>13. got' = got /\ sent' = sent
  BY <1>11 DEF Completed, clientVars
<1>14. Flow(c)
  BY DEF FlowInv
<1>15. CASE op.client # c
  <2>1. d # c
    BY <1>4, <1>15
  <2>2. sock'[c] = sock[c]
    BY <1>11, <2>1 DEF DataInv
  <2>3. \A k \in Cargo' : k.op.client = c => k \in Cargo /\ Load(heap', k) = Load(heap, k)
    BY <1>10, <1>11, <1>12, <1>15
  <2> QED
    BY <1>13, <1>14, <2>2, <2>3, FlowKept
<1>16. CASE op.client = c
  <2>1. d = c
    BY <1>4, <1>16
  <2>2. PICK load \in Seq(Unit) : load = Output(op) /\ load = Load(heap, y)
    <3>1. Load(heap, y) \in Seq(Unit)
      BY <1>10, <1>12, LoadType
    <3>2. Load(heap, y) = Output(op)
      BY <1>4, <1>10 DEF Load, Output
    <3> QED
      BY <3>1, <3>2
  <2>3. PICK m \in 0 .. Len(load) : m = Smaller(room, Len(load))
    BY LenProperties DEF Smaller
  <2>4. PICK front \in Seq(Unit), rest \in Seq(Unit) :
          front = Put(s, load) /\ load = front \o rest
    <3>1. /\ SubSeq(load, 1, m) \in Seq(Unit) /\ SubSeq(load, m + 1, Len(load)) \in Seq(Unit)
          /\ load = SubSeq(load, 1, m) \o SubSeq(load, m + 1, Len(load))
      BY CutOfList
    <3>2. SubSeq(load, 1, m) = Put(s, load)
      BY <1>6, <2>3 DEF Put
    <3> QED
      BY <3>1, <3>2
  <2>5. PICK out \in Seq(Unit), r \in Seq(Unit) : out = sock[c].out /\ r = sock[c].rx
    BY DEF DataInv, SocketType
  <2>6. sock'[c].rx = r /\ sock'[c].out = out \o front
    <3>1. sock'[c] = AfterWrite(s, load)
      BY <1>5, <1>11, <2>1, <2>2 DEF DataInv
    <3>2. AfterWrite(s, load) = [s EXCEPT !.out = out \o front]
      BY <1>5, <2>1, <2>4, <2>5 DEF AfterWrite
    <3> QED
      BY <1>5, <2>1, <2>5, <3>1, <3>2 DEF SocketType
  <2>7. Loads(heap', Cargo', c) = {}
    <3>1. \A k \in Cargo' : k.op.client = c => k = x
      BY <1>10, <1>12, <1>16, CargoNext
    <3> QED
      BY <1>10, <3>1 DEF Loads
  <2>8. PICK h \in Seq(Unit), n0 \in 0 .. MaxBytes, L \in {Loads(heap, Cargo, c)} :
          h = got[c] /\ n0 = sent[c]
    BY DEF DataInv
  <2>9. PICK g \in Seq(Unit) : g = h \o out
    BY ConcatProperties
  <2>10. InOrder(c, g, L, r, n0)
    BY <1>14, <2>5, <2>8, <2>9 DEF Flow
  <2>11. front \o rest \in L
    BY <1>10, <1>12, <1>16, <2>2, <2>4, <2>8 DEF Loads
  <2>12. InOrder(c, g \o front, {}, r, n0)
    BY <2>10, <2>11, WriteInOrder
  <2>13. g \o front = h \o (out \o front)
    <3>1. (h \o out) \o front = h \o (out \o front)
      BY CatOfUnits
    <3> QED
      BY <2>9, <3>1
  <2> QED
    BY <1>13, <2>6, <2>7, <2>8, <2>12, <2>13 DEF FlowNext
<1> QED
  BY <1>15, <1>16

\* A new connection gets a block that no connection has.
LEMMA FlowSetUp ==
  ASSUME QueueInv, TableInv, DataInv, ChainInv, FlowInv, HandleNewConnection,
         NEW c \in Clients, c \notin disturbed
  PROVE  FlowNext(c)
<1>1. FreeFds # {} /\ UNCHANGED <<worker, completions, events, sock, sent, got>>
  BY DEF HandleNewConnection
<1>2. PICK d \in Clients : d = Head(backlog)
  BY NextClientIs DEF HandleNewConnection, Accepts
<1>3. PICK fd \in FreeFds : fd = CHOOSE n \in FreeFds : \A m \in FreeFds : n <= m
  BY <1>1, LowestFree
<1>4. PICK b \in FreeBlocks :
        /\ heap' = [heap EXCEPT ![b] = Zeroed]
        /\ SubmitOrOrphan(Operation("read", fd, b, BufSize - 1, d))
  BY <1>2, <1>3 DEF HandleNewConnection
<1>5. PICK op \in Operations : op = Operation("read", fd, b, BufSize - 1, d)
  <2>1. BufSize - 1 \in 0 .. BufSize
    BY ProactorAssumption
  <2> QED
    BY <2>1 DEF Operation, Operations, FreeFds, FreeBlocks
<1>6. pending_ops' \in {pending_ops, <<op>> \o pending_ops}
  BY <1>4, <1>5 DEF SubmitOrOrphan, Submit
<1>7. Cargo' \subseteq Cargo \cup {Completion(op, Again)}
  BY <1>1, <1>6, CargoSubmitted
<1>8. ~Carries(Completion(op, Again))
  BY <1>5 DEF Carries, Completion, Operation, Again
<1>9. ASSUME NEW k \in Cargo', k.op.client = c, Carries(k)
      PROVE  k \in Cargo /\ Load(heap', k) = Load(heap, k)
  <2>1. k \in Cargo
    BY <1>7, <1>8, <1>9
  <2>2. PICK o \in Operations : o = k.op /\ o \in InFlight /\ o.fd \in Fds /\ o.block \in Blocks
    BY <2>1, CargoIs DEF Operations
  <2>3. connections[o.fd] = o.block
    BY <1>9, <2>2 DEF ChainInv, OpsFit, Fits
  <2>4. o.block # b
    BY <2>2, <2>3 DEF FreeBlocks
  <2>5. heap'[o.block] = heap[o.block]
    BY <1>4, <2>2, <2>4 DEF DataInv
  <2> QED
    BY <2>1, <2>2, <2>5 DEF Load
<1>10. Flow(c)
  BY DEF FlowInv
<1> QED
  BY <1>1, <1>9, <1>10, FlowKept

\* The data of a read become the load of the write that echoes them, or are given up.
LEMMA FlowComplete ==
  ASSUME QueueInv, QueueInv', TableInv, DataInv, ChainInv, ChainInv', FlowInv, CompleteRead,
         NEW c \in Clients, c \notin disturbed, c \notin disturbed'
  PROVE  FlowNext(c)
<1>1. /\ events # <<>> /\ events' = Tail(events) /\ Matches
      /\ Done.op.type = "read" /\ Done.res > 0
      /\ UNCHANGED <<worker, completions, sock, sent, got>>
  BY DEF CompleteRead, Handles, clientVars
<1>2. PICK out \in Operations, res \in Error .. BufSize : out = Done.op /\ res = Done.res
  BY <1>1, DoneIs
<1>3. PICK d \in Clients : d = file[out.fd]
  BY <1>1, <1>2, MatchIs
<1>4. /\ out \in InFlight /\ out.fd \in Fds /\ out.block \in Blocks /\ out.type = "read"
      /\ d \notin disturbed => out.client = d
      /\ out.client \notin disturbed => out.client = d
  <2>1. out \in InFlight /\ Fits(out) /\ connections[out.fd] = out.block
    BY <1>1, <1>2, MatchIs
  <2>2. out.fd \in Fds /\ out.block \in Blocks /\ d # None
    BY ProactorAssumption DEF Operations
  <2> QED
    BY <1>1, <1>2, <1>3, <2>1, <2>2 DEF Fits
<1>5. res \in 1 .. BufSize
  BY <1>1, <1>2, ProactorAssumption DEF Error
<1>6. Flow(c)
  BY DEF FlowInv
<1>7. PICK x \in Outcomes : x = Done /\ x.op = out /\ x.res = res
  BY <1>1, <1>2, OccursPop DEF QueueInv, Done
<1>8. CASE heap' = heap /\ SubmitOrOrphan(NextOperation("read", BufSize - 1))
  <2>1. PICK op \in Operations : op = NextOperation("read", BufSize - 1)
    <3>1. BufSize - 1 \in 0 .. BufSize
      BY ProactorAssumption
    <3> QED
      BY <1>2, <1>3, <1>4, <3>1 DEF NextOperation, Operation, Operations
  <2>2. pending_ops' \in {pending_ops, <<op>> \o pending_ops}
    BY <1>8, <2>1 DEF SubmitOrOrphan, Submit
  <2>3. Cargo' \subseteq Cargo \cup {Completion(op, Again)}
    BY <1>1, <2>2, CargoHandled
  <2>4. ~Carries(Completion(op, Again))
    BY <2>1 DEF Carries, Completion, NextOperation, Operation, Again
  <2>5. \A k \in Cargo' : Carries(k) => k \in Cargo /\ Load(heap', k) = Load(heap, k)
    BY <1>8, <2>3, <2>4
  <2> QED
    BY <1>1, <1>6, <2>5, FlowKept
<1>9. CASE /\ heap' = [heap EXCEPT ![Done.op.block].write_buf =
                         Bytes(heap[Done.op.block].read_buf, Done.res)]
           /\ SubmitOrOrphan(NextOperation("write", Done.res))
  <2>1. PICK op \in Operations : op = NextOperation("write", res)
    <3>1. res \in 0 .. BufSize
      BY <1>5
    <3> QED
      BY <1>2, <1>3, <1>4, <3>1 DEF NextOperation, Operation, Operations
  <2>2. op.type = "write" /\ op.block = out.block /\ op.size = res /\ op.client = d
    BY <1>2, <1>3, <2>1 DEF NextOperation, Operation
  <2>3. /\ pending_ops' \in {pending_ops, <<op>> \o pending_ops}
        /\ d \in orphaned' \/ pending_ops' = <<op>> \o pending_ops
    BY <1>2, <1>9, <2>1, <2>2 DEF SubmitOrOrphan, Submit
  <2>4. PICK y : y = Completion(op, Again)
    OBVIOUS
  <2>5. y.op = op /\ y.res = Again
    BY <2>4 DEF Completion
  <2>6. Cargo' \subseteq Cargo \cup {y} /\ x \in Cargo
    BY <1>1, <1>7, <2>3, <2>4, CargoHandled
  <2>7. CASE d # c
    <3>1. \A b \in Blocks \ {out.block} : heap'[b] = heap[b]
      BY <1>2, <1>9 DEF DataInv
    <3>2. out.client # c
      BY <1>4, <2>7
    <3>3. ASSUME NEW k \in Cargo', k.op.client = c
          PROVE  k \in Cargo /\ Load(heap', k) = Load(heap, k)
      <4>1. k \in Cargo
        BY <2>2, <2>5, <2>6, <2>7, <3>3
      <4> QED
        BY <1>4, <3>1, <3>2, <3>3, <4>1, OtherBlock
    <3> QED
      BY <1>1, <1>6, <3>3, FlowKept
  <2>8. CASE d = c
    <3>1. PICK buf \in Seq(Unit) : buf = heap[out.block].read_buf
      BY <1>4 DEF DataInv, Block
    <3>2. Load(heap, x) = Bytes(buf, res)
      BY <1>4, <1>7, <3>1 DEF Load
    <3>3. Load(heap', y) = Bytes(buf, res)
      <4>1. heap'[op.block].write_buf = Bytes(buf, res)
        BY <1>2, <1>4, <1>9, <2>2, <3>1 DEF DataInv, Block
      <4>2. Bytes(Bytes(buf, res), res) = Bytes(buf, res)
        BY <1>5, BytesOfBytes
      <4> QED
        BY <2>2, <2>5, <4>1, <4>2 DEF Load
    <3>4. out.client = c /\ Carries(x)
      BY <1>4, <1>5, <1>7, <2>8 DEF Carries
    <3>5. Load(heap, x) \in Loads(heap, Cargo, c)
      BY <1>7, <2>6, <3>4 DEF Loads
    <3>6. ASSUME NEW k \in Cargo', k.op.client = c
          PROVE  k = y
      <4>1. c \notin orphaned' /\ \A l \in Cargo' : l.op.client = c => k = l
        BY <3>6, CargoNext
      <4>2. pending_ops' = <<op>> \o pending_ops
        BY <2>3, <2>8, <4>1
      <4>3. op \in Range(pending_ops')
        BY <4>2, OccursPush DEF QueueInv
      <4>4. y \in Cargo'
        BY <2>4, <4>3 DEF Cargo, Holding
      <4> QED
        BY <2>2, <2>5, <2>8, <4>1, <4>4
    <3>7. Loads(heap', Cargo', c) \subseteq Loads(heap, Cargo, c)
      BY <3>2, <3>3, <3>5, <3>6 DEF Loads
    <3>8. PICK g, L, M, r, n : /\ g = got[c] \o sock[c].out /\ L = Loads(heap, Cargo, c)
                              /\ M = Loads(heap', Cargo', c)
                              /\ r = sock[c].rx /\ n = sent[c]
      OBVIOUS
    <3>9. InOrder(c, g, L, r, n)
      BY <1>6, <3>8 DEF Flow
    <3>10. InOrder(c, g, M, r, n)
      BY <3>7, <3>8, <3>9, GivenUp
    <3> QED
      BY <1>1, <3>8, <3>10 DEF FlowNext
  <2> QED
    BY <2>7, <2>8
<1> QED
  BY <1>8, <1>9 DEF CompleteRead

\* A client sends, receives or ends its side.
LEMMA FlowClient ==
  ASSUME QueueInv, TableInv, DataInv, FlowInv, NEW a \in Clients,
         ClientSend(a) \/ ClientReceive(a) \/ ClientFin(a) \/ ClientReset(a),
         NEW c \in Clients, c \notin disturbed
  PROVE  FlowNext(c)
<1>1. UNCHANGED <<pending_ops, worker, completions, events, heap>>
  BY DEF ClientSend, ClientReceive, ClientFin, ClientReset, OnSocket, queueVars, dispatchVars
<1>2. Cargo' = Cargo /\ heap' = heap
  BY <1>1, QueuesRestCargo
<1>3. Flow(c)
  BY DEF FlowInv
<1>4. PICK g \in Seq(Unit), out \in Seq(Unit), r \in Seq(Unit), n \in Nat :
        g = got[c] /\ out = sock[c].out /\ r = sock[c].rx /\ n = sent[c]
  BY ProactorAssumption DEF DataInv, SocketType
<1>5. PICK L : L = Loads(heap, Cargo, c)
  OBVIOUS
<1>6. InOrder(c, g \o out, L, r, n) /\ Loads(heap', Cargo', c) = L
  BY <1>2, <1>3, <1>4, <1>5 DEF Flow
<1>7. PICK s : sock' = [sock EXCEPT ![a] = s]
  BY DEF ClientSend, ClientReceive, ClientFin, ClientReset, OnSocket
<1>8. CASE a # c
  <2>1. sock'[c] = sock[c]
    BY <1>7, <1>8 DEF DataInv
  <2>2. got'[c] = got[c] /\ sent'[c] = sent[c]
    BY <1>8 DEF ClientSend, ClientReceive, ClientFin, ClientReset, DataInv
  <2> QED
    BY <1>2, <1>3, <2>1, <2>2, FlowKept
<1>9. CASE a = c /\ ClientSend(c)
  <2>1. PICK x : x = <<c, n + 1>>
    OBVIOUS
  <2>2. sent'[c] = n + 1 /\ got' = got /\ n + 1 \in 1 .. MaxBytes
    <3>1. n < MaxBytes /\ sent' = [sent EXCEPT ![c] = n + 1] /\ got' = got
      BY <1>4, <1>9 DEF ClientSend
    <3> QED
      BY <3>1, ProactorAssumption DEF DataInv
  <2>3. sock'[c].rx = Append(r, x) /\ sock'[c].out = out
    <3>1. sock' = [sock EXCEPT ![c] = [sock[c] EXCEPT !.rx = Append(@, x)]]
      BY <1>4, <1>9, <2>1 DEF ClientSend, OnSocket
    <3> QED
      BY <1>4, <3>1 DEF DataInv, SocketType
  <2>4. PICK e \in Seq(Unit) : e = g \o out
    BY ConcatProperties
  <2>5. L \in SUBSET Seq(Unit)
    BY <1>5, LoadType DEF Loads
  <2>6. <<c, n + 1>> \in Unit
    BY <2>2 DEF Unit
  <2>7. InOrder(c, e, L, Append(r, <<c, n + 1>>), n + 1)
    BY <1>6, <2>4, <2>5, <2>6, SendInOrder
  <2> QED
    BY <1>4, <1>6, <2>1, <2>2, <2>3, <2>4, <2>7 DEF FlowNext
<1>10. CASE a = c /\ ClientReceive(c)
  <2>1. /\ out # <<>> /\ got'[c] = Append(g, Head(out)) /\ sent' = sent
        /\ sock'[c].out = Tail(out) /\ sock'[c].rx = r
    BY <1>4, <1>10 DEF ClientReceive, OnSocket, DataInv, SocketType
  <2>2. PICK h \in Unit, t \in Seq(Unit) : h = Head(out) /\ t = Tail(out)
    BY <2>1, HeadTailProperties
  <2>3. out = <<h>> \o t
    BY <2>1, <2>2, EmptySeq, SubSeqFull, SubSeqRecursiveFirst, TailIsSubSeq, HeadTailProperties
  <2>4. <<h>> \in Seq(Unit) /\ Append(g, h) = g \o <<h>>
    BY AppendIsConcat
  <2>5. Append(g, h) \o t = g \o out
    <3>1. (g \o <<h>>) \o t = g \o (<<h>> \o t)
      BY <2>4, CatOfUnits
    <3> QED
      BY <2>3, <2>4, <3>1
  <2> QED
    BY <1>4, <1>6, <2>1, <2>2, <2>5 DEF FlowNext
<1>11. CASE a = c /\ ClientFin(c)
  <2>1. got' = got /\ sent' = sent /\ sock'[c].out = out /\ sock'[c].rx = r
    BY <1>4, <1>11 DEF ClientFin, OnSocket, DataInv, SocketType
  <2> QED
    BY <1>4, <1>6, <2>1 DEF FlowNext
<1>12. CASE a = c /\ ClientReset(c)
  <2>1. got' = got /\ sent' = sent /\ sock'[c].out = <<>> /\ sock'[c].rx = <<>>
    BY <1>12 DEF ClientReset, OnSocket, DataInv, SocketType
  <2>2. InOrder(c, g, L, <<>>, n)
    BY <1>6, ResetInOrder
  <2>3. g \o <<>> = g
    BY ConcatEmptySeq
  <2> QED
    BY <1>4, <1>6, <2>1, <2>2, <2>3 DEF FlowNext
<1> QED
  BY <1>8, <1>9, <1>10, <1>11, <1>12

LEMMA FlowStep ==
  ASSUME ProactorInv, ProactorInv', FlowInv, [Next]_vars
  PROVE  FlowInv'
<1> USE DEF ProactorInv
<1> SUFFICES ASSUME NEW c \in Clients \ disturbed'
             PROVE  FlowNext(c)
  BY FlowNextIs
<1>1. c \in Clients /\ c \notin disturbed /\ c \notin disturbed'
  BY DisturbedStays
<1>2. CASE UNCHANGED flowRest /\ CargoRest
  <2>1. \A k \in Cargo' : Carries(k) => k \in Cargo /\ Load(heap', k) = Load(heap, k)
    BY <1>2 DEF flowRest, CargoRest
  <2>2. got'[c] = got[c] /\ sock'[c] = sock[c] /\ sent'[c] = sent[c]
    BY <1>2 DEF flowRest
  <2>3. Flow(c)
    BY <1>1 DEF FlowInv
  <2> QED
    BY <1>1, <2>1, <2>2, <2>3, FlowKept
<1>3. CASE \E w \in Workers : SubmitRead(w) \/ SubmitWrite(w)
  BY <1>1, <1>3, FlowRead, FlowWrite
<1>4. CASE HandleNewConnection
  BY <1>1, <1>4, FlowSetUp
<1>5. CASE CompleteRead
  BY <1>1, <1>5, FlowComplete
<1>6. CASE \E a \in Clients : ClientSend(a) \/ ClientReceive(a) \/ ClientFin(a) \/ ClientReset(a)
  BY <1>1, <1>6, FlowClient
<1> QED
  BY <1>2, <1>3, <1>4, <1>5, <1>6, CargoMoves

LEMMA FlowInit == Init => FlowInv
<1> SUFFICES ASSUME Init, NEW c \in Clients
             PROVE  Flow(c)
  BY DEF FlowInv
<1>1. Cargo = {}
  BY RangeEmpty DEF Init, Cargo, Holding
<1>2. Loads(heap, Cargo, c) = {}
  BY <1>1 DEF Loads
<1>3. got[c] = <<>> /\ sock[c].out = <<>> /\ sock[c].rx = <<>>
  BY DEF Init, NewSocket
<1>4. <<>> \o <<>> = <<>>
  BY ConcatEmptySeq
<1> QED
  BY <1>2, <1>3, <1>4, StretchNone DEF Flow, InOrder

\* A client receives its own data in order and none of it twice: the buffer of a
\* write is not overwritten before the write has left it, and a read is not
\* submitted before the echo has been written (async_server_proactor.c:94-105).
THEOREM EchoOrdered == Spec => []EchoInOrder
<1>1. ProactorInv /\ FlowInv => EchoInOrder
  <2> SUFFICES ASSUME ProactorInv, FlowInv, NEW c \in Clients \ disturbed,
                      NEW i \in DOMAIN (got[c] \o sock[c].out)
               PROVE  /\ (got[c] \o sock[c].out)[i][1] = c
                      /\ i > 1 => (got[c] \o sock[c].out)[i - 1][2] < (got[c] \o sock[c].out)[i][2]
    BY DEF EchoInOrder
  <2>1. PICK r \in Seq(Unit) : r = got[c] \o sock[c].out
    BY ConcatProperties DEF ProactorInv, DataInv, SocketType
  <2>2. Stretch(r, c, sent[c])
    BY <2>1 DEF FlowInv, Flow, InOrder
  <2>3. i \in DOMAIN r /\ r[i] \in Range(r)
    BY <2>1 DEF Range
  <2>4. i > 1 => i - 1 \in DOMAIN r /\ i - 1 < i
    BY <2>3, LenProperties
  <2> QED
    BY <2>1, <2>2, <2>3, <2>4 DEF Stretch
<1>2. Init => FlowInv
  BY FlowInit
<1>3. ProactorInv /\ ProactorInv' /\ FlowInv /\ [Next]_vars => FlowInv'
  BY FlowStep
<1> QED
  BY <1>1, <1>2, <1>3, ProactorInvariance, PTL DEF Spec

=============================================================================
