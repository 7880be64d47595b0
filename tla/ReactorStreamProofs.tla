------------------------ MODULE ReactorStreamProofs ------------------------
(***************************************************************************)
(* Proofs about the bytes in ReactorThread: the types and bounds of every  *)
(* buffer, and that the echo is the client's stream, for every number of   *)
(* connections and bytes, all sizes and every set of faults.               *)
(*                                                                         *)
(* A byte moves from the socket through read_buf and write_buf back into   *)
(* the socket.  Each move cuts a piece off one sequence and appends it to  *)
(* the next, so that their concatenation stays what the client has sent.   *)
(*                                                                         *)
(* The last part is about the edge triggers: epoll or the round has every  *)
(* connection whose socket is ready for what it waits for.                 *)
(***************************************************************************)
EXTENDS ReactorThreadProofs

ConnType == [read_buf : Seq(Byte), write_buf : Seq(Byte), write_sent : Nat]

\* No buffer is overrun, and no more is sent than is in it.
Fits(k) ==
  /\ Len(k.read_buf) <= BufSize
  /\ Len(k.write_buf) <= BufSize
  /\ k.write_sent <= Len(k.write_buf)

BytesInv ==
  /\ conn \in [Conns -> ConnType]
  /\ \A c \in Conns : Fits(conn[c])
  /\ sock \in [Conns -> SocketType(Byte)]
  /\ sent \in [Conns -> 0 .. MaxBytes]
  /\ got \in [Conns -> Seq(Byte)]

\* The first n bytes of a client.
FirstBytes(n) == [i \in 1 .. n |-> i]

\* What client c has got and will get of what the server has written.
Written(c) == got[c] \o sock[c].out

\* The stream of an open connection is whole, a connection that is not served
\* holds no bytes, and what was written before a connection ended is whole too.
StreamOf(c) ==
  /\ c \notin closed /\ ~sock[c].err => Stream(c) = FirstBytes(sent[c])
  /\ c \notin connections => conn[c] = NewConn
  /\ Written(c) = FirstBytes(Len(Written(c)))

StreamInv == \A c \in Conns : StreamOf(c)

-----------------------------------------------------------------------------
(***************************************************************************)
(* Cutting and joining sequences                                           *)
(***************************************************************************)

\* A sequence is what is cut off its front and what is left.
LEMMA FrontAndDrop ==
  ASSUME NEW S, NEW s \in Seq(S), NEW n \in 0 .. Len(s)
  PROVE  /\ SubSeq(s, 1, n) \in Seq(S)
         /\ Len(SubSeq(s, 1, n)) = n
         /\ Drop(s, n) \in Seq(S)
         /\ Len(Drop(s, n)) = Len(s) - n
         /\ s = SubSeq(s, 1, n) \o Drop(s, n)
<1>1. Len(s) \in Nat /\ \A k \in 1 .. Len(s) : s[k] \in S
  BY LenProperties, ElementOfSeq
<1>2. SubSeq(s, 1, n) \in Seq(S) /\ Len(SubSeq(s, 1, n)) = n
  BY <1>1, SubSeqProperties
<1>3. Drop(s, n) \in Seq(S) /\ Len(Drop(s, n)) = Len(s) - n
  BY <1>1, SubSeqProperties DEF Drop
<1>4. SubSeq(s, 1, n) \o SubSeq(s, n + 1, Len(s)) = SubSeq(s, 1, Len(s))
  <2>1. 1 \in 1 .. Len(s) + 1 /\ n \in 1 - 1 .. Len(s) /\ Len(s) \in n .. Len(s)
    BY <1>1
  <2> QED
    BY <2>1, ConcatAdjacentSubSeq
<1> QED
  BY <1>2, <1>3, <1>4, SubSeqFull DEF Drop

\* Cutting twice.
LEMMA DropTwice ==
  ASSUME NEW S, NEW s \in Seq(S), NEW m \in 0 .. Len(s), NEW n \in 0 .. Len(s) - m
  PROVE  Drop(Drop(s, m), n) = Drop(s, m + n)
<1>1. Len(s) \in Nat /\ Len(s) - m \in Nat
  BY LenProperties
<1>2. /\ Drop(s, m) \in Seq(S) /\ Len(Drop(s, m)) = Len(s) - m
      /\ m + n \in 0 .. Len(s)
  BY <1>1, FrontAndDrop
<1>3. /\ Drop(Drop(s, m), n) \in Seq(S) /\ Len(Drop(Drop(s, m), n)) = Len(s) - m - n
      /\ Drop(s, m + n) \in Seq(S) /\ Len(Drop(s, m + n)) = Len(s) - (m + n)
  <2>1. n \in 0 .. Len(Drop(s, m))
    BY <1>2
  <2>2. /\ Drop(Drop(s, m), n) \in Seq(S)
        /\ Len(Drop(Drop(s, m), n)) = Len(Drop(s, m)) - n
    BY <1>2, <2>1, FrontAndDrop
  <2>3. Drop(s, m + n) \in Seq(S) /\ Len(Drop(s, m + n)) = Len(s) - (m + n)
    BY <1>2, FrontAndDrop
  <2> QED
    BY <1>2, <2>2, <2>3
<1>4. ASSUME NEW t \in Seq(S), NEW l \in 0 .. Len(t), NEW k \in 1 .. Len(t) - l
      PROVE  Drop(t, l)[k] = t[k + l]
  <2>1. Len(t) \in Nat /\ \A j \in 1 .. Len(t) : t[j] \in S
    BY LenProperties, ElementOfSeq
  <2> QED
    BY <2>1 DEF Drop
<1>5. ASSUME NEW k \in 1 .. Len(s) - m - n
      PROVE  Drop(Drop(s, m), n)[k] = Drop(s, m + n)[k]
  <2>1. k \in 1 .. Len(Drop(s, m)) - n /\ n \in 0 .. Len(Drop(s, m))
    BY <1>1, <1>2
  <2>2. Drop(Drop(s, m), n)[k] = Drop(s, m)[k + n]
    BY <1>2, <1>4, <2>1
  <2>3. k + n \in 1 .. Len(s) - m
    BY <1>1
  <2>4. Drop(s, m)[k + n] = s[(k + n) + m]
    BY <1>4, <2>3
  <2>5. Drop(s, m + n)[k] = s[k + (m + n)]
    BY <1>1, <1>2, <1>4
  <2>6. (k + n) + m = k + (m + n)
    BY <1>1
  <2> QED
    BY <2>2, <2>4, <2>5, <2>6
<1>6. Len(s) - m - n = Len(s) - (m + n)
  BY <1>1
<1> QED
  BY <1>3, <1>5, <1>6, SeqEqual

\* Concatenation under a name that leaves are proved without expanding.
Cat(s, t) == s \o t

\* A piece p moves from the front of t to the end of s.
LEMMA PieceMoves ==
  ASSUME NEW w \in Seq(Byte), NEW s \in Seq(Byte), NEW p \in Seq(Byte), NEW t2 \in Seq(Byte),
         NEW s2, s2 = Cat(s, p), NEW t, t = Cat(p, t2)
  PROVE  Cat(Cat(w, s2), t2) = Cat(Cat(w, s), t)
BY DEF Cat

\* handle_add_write moves all of s to the empty sequence before it.
LEMMA AllMoves ==
  ASSUME NEW S, NEW w \in Seq(S), NEW s \in Seq(S)
  PROVE  (w \o s) \o <<>> = (w \o <<>>) \o s
<1>1. w \o s \in Seq(S)
  BY ConcatProperties
<1> QED
  BY <1>1, ConcatEmptySeq

\* A byte moves from the socket to the client.
LEMMA ReceiveMoves ==
  ASSUME NEW S, NEW g \in Seq(S), NEW o \in Seq(S), o # <<>>
  PROVE  Append(g, Head(o)) \o Tail(o) = g \o o
<1>1. Head(o) \in S /\ Tail(o) \in Seq(S) /\ Len(o) \in Nat \ {0}
  BY EmptySeq, HeadTailProperties
<1>2. <<Head(o)>> \in Seq(S)
  BY <1>1
<1>3. o = <<Head(o)>> \o Tail(o)
  BY SubSeqFull, SubSeqRecursiveFirst, TailIsSubSeq, <1>1, HeadTailProperties
<1>4. Append(g, Head(o)) = g \o <<Head(o)>>
  BY <1>1, AppendIsConcat
<1>5. (g \o <<Head(o)>>) \o Tail(o) = g \o (<<Head(o)>> \o Tail(o))
  BY <1>1, <1>2, ConcatAssociative
<1> QED
  BY <1>3, <1>4, <1>5

\* The next byte extends the stream.
LEMMA NextByte ==
  ASSUME NEW n \in Nat, NEW S, NEW s \in Seq(S), NEW x \in Seq(S),
         n + 1 \in S, s \o x = FirstBytes(n)
  PROVE  s \o Append(x, n + 1) = FirstBytes(n + 1)
<1>1. s \o x \in Seq(S) /\ <<n + 1>> \in Seq(S)
  <2>1. <<n + 1>> \in Seq(S)
    OBVIOUS
  <2> QED
    BY <2>1, ConcatProperties
<1>2. s \o Append(x, n + 1) = (s \o x) \o <<n + 1>>
  <2>1. Append(x, n + 1) = x \o <<n + 1>>
    BY AppendIsConcat
  <2>2. (s \o x) \o <<n + 1>> = s \o (x \o <<n + 1>>)
    BY <1>1, ConcatAssociative
  <2> QED
    BY <2>1, <2>2
<1>3. s \o Append(x, n + 1) = Append(FirstBytes(n), n + 1)
  BY <1>1, <1>2, AppendIsConcat
<1>4. Append(FirstBytes(n), n + 1) = FirstBytes(n + 1)
  BY DEF FirstBytes
<1> QED
  BY <1>3, <1>4

\* The front of a client's bytes is the first of them.
LEMMA FrontOfBytes ==
  ASSUME NEW S, NEW s \in Seq(S), NEW t \in Seq(S), NEW n \in Nat, s \o t = FirstBytes(n)
  PROVE  s = FirstBytes(Len(s))
<1>1. /\ Len(s) \in Nat /\ Len(t) \in Nat
      /\ DOMAIN s = 1 .. Len(s) /\ s \in [1 .. Len(s) -> S]
      /\ Len(s \o t) = Len(s) + Len(t)
      /\ s \o t \in Seq(S)
      /\ \A i \in 1 .. Len(s) + Len(t) : (s \o t)[i] = IF i <= Len(s) THEN s[i] ELSE t[i - Len(s)]
  BY LenProperties, ConcatProperties
<1>2. DOMAIN (s \o t) = 1 .. Len(s) + Len(t)
  BY <1>1, LenProperties
<1>3. DOMAIN FirstBytes(n) = 1 .. n
  BY DEF FirstBytes
<1>4. ASSUME NEW i \in 1 .. Len(s)
      PROVE  s[i] = i
  <2>1. i \in 1 .. Len(s) + Len(t)
    BY <1>1
  <2>2. (s \o t)[i] = s[i]
    BY <1>1, <2>1
  <2>3. i \in 1 .. n
    BY <1>2, <1>3, <2>1
  <2> QED
    BY <2>2, <2>3 DEF FirstBytes
<1> QED
  BY <1>1, <1>4 DEF FirstBytes

\* So are the pieces at the front of its stream.
LEMMA FrontOfStream ==
  ASSUME NEW w \in Seq(Byte), NEW u \in Seq(Byte), NEW r \in Seq(Byte), NEW x \in Seq(Byte),
         NEW n \in Nat, ((w \o u) \o r) \o x = FirstBytes(n)
  PROVE  w = FirstBytes(Len(w))
<1> DEFINE wu == w \o u
           wur == wu \o r
<1>1. wu \in Seq(Byte) /\ Len(wu) \in Nat
  BY ConcatProperties, LenProperties
<1> HIDE DEF wu
<1>2. wur \in Seq(Byte) /\ Len(wur) \in Nat
  BY <1>1, ConcatProperties, LenProperties
<1>3. wur \o x = FirstBytes(n)
  BY DEF wu
<1> HIDE DEF wur
<1>4. wur = FirstBytes(Len(wur))
  BY <1>2, <1>3, FrontOfBytes
<1>5. wu = FirstBytes(Len(wu))
  BY <1>1, <1>2, <1>4, FrontOfBytes DEF wur
<1> QED
  BY <1>1, <1>5, FrontOfBytes DEF wu

-----------------------------------------------------------------------------
(***************************************************************************)
(* One connection: what read and write do to its bytes                     *)
(***************************************************************************)

\* The parts of a connection's stream that read and that write change, by the
\* connection_t k and the socket s: all but w, what has been written, and the
\* front, from what the client has got, g, to the end of write_buf.
Echo(w, k, s) == ((w \o Unsent(k)) \o k.read_buf) \o s.rx
Reply(g, k, s) == (g \o s.out) \o Unsent(k)

\* What calloc leaves fits.
LEMMA NewConnType == NewConn \in ConnType /\ Fits(NewConn)
<1>1. <<>> \in Seq(Byte) /\ Len(<<>>) = 0
  BY EmptySeq
<1> QED
  BY <1>1, ReactorAssumption DEF NewConn, ConnType, Fits

\* What write_buf holds is written from write_sent on.
LEMMA UnsentType ==
  ASSUME NEW k \in ConnType, Fits(k)
  PROVE  /\ Unsent(k) \in Seq(Byte)
         /\ Len(Unsent(k)) = Len(k.write_buf) - k.write_sent
         /\ k.write_buf = <<>> => k.write_sent = 0 /\ Unsent(k) = <<>>
<1>1. k.write_buf \in Seq(Byte) /\ k.write_sent \in Nat /\ Len(k.write_buf) \in Nat
  BY LenProperties DEF ConnType
<1>2. k.write_sent \in 0 .. Len(k.write_buf)
  BY <1>1 DEF Fits
<1>3. /\ Unsent(k) \in Seq(Byte)
      /\ Len(Unsent(k)) = Len(k.write_buf) - k.write_sent
  BY <1>1, <1>2, FrontAndDrop DEF Unsent
<1>4. ASSUME k.write_buf = <<>>
      PROVE  k.write_sent = 0 /\ Unsent(k) = <<>>
  <2>1. Len(k.write_buf) = 0
    BY <1>4
  <2>2. k.write_sent = 0 /\ Len(Unsent(k)) = 0
    BY <1>1, <1>2, <1>3, <2>1
  <2> QED
    BY <1>3, <2>2, EmptySeq
<1> QED
  BY <1>3, <1>4

\* handle_add_write keeps the bounds and the stream.
LEMMA EchoedKeeps ==
  ASSUME NEW k \in ConnType, Fits(k)
  PROVE  /\ Echoed(k) \in ConnType
         /\ Fits(Echoed(k))
         /\ \A w \in Seq(Byte) : (w \o Unsent(Echoed(k))) \o Echoed(k).read_buf
                                = (w \o Unsent(k)) \o k.read_buf
<1>1. CASE Echoed(k) = k
  BY <1>1
<1>2. CASE Echoed(k) # k
  <2> DEFINE e == Echoed(k)
  <2>1. /\ k.write_buf = <<>>
        /\ e = [k EXCEPT !.write_buf = k.read_buf, !.read_buf = <<>>]
    BY <1>2 DEF Echoed
  <2>2. k.write_sent = 0 /\ Unsent(k) = <<>>
    BY <2>1, UnsentType
  <2>3. /\ k.read_buf \in Seq(Byte)
        /\ Len(k.read_buf) \in Nat
        /\ e.write_buf = k.read_buf /\ e.read_buf = <<>> /\ e.write_sent = 0
    BY <2>1, <2>2, LenProperties DEF ConnType
  <2>4. e \in ConnType
    <3>1. <<>> \in Seq(Byte)
      BY EmptySeq
    <3> QED
      BY <2>1, <3>1 DEF ConnType
  <2> HIDE DEF e
  <2>5. Fits(e)
    <3>1. Len(<<>>) = 0 /\ BufSize \in Nat
      BY ReactorAssumption
    <3> QED
      BY <2>3, <3>1 DEF Fits
  <2>6. Unsent(e) = k.read_buf
    BY <2>3, SubSeqFull DEF Unsent, Drop
  <2> QED
    BY <2>2, <2>3, <2>4, <2>5, <2>6, AllMoves DEF e
<1> QED
  BY <1>1, <1>2

\* handle_read_event keeps the bounds and the stream.
LEMMA ReadKeeps ==
  ASSUME NEW k \in ConnType, Fits(k), NEW s \in SocketType(Byte),
         NEW remaining, remaining = BufSize - Len(k.read_buf),
         NEW e, e = Echoed(Received(k, Take(s, remaining))),
         NEW s2, s2 = AfterRead(s, remaining)
  PROVE  /\ e \in ConnType
         /\ Fits(e)
         /\ s2 \in SocketType(Byte)
         /\ s2.out = s.out /\ s2.err = s.err
         /\ \A w \in Seq(Byte) : Echo(w, e, s2) = Echo(w, k, s)
<1> DEFINE m == Smaller(remaining, Len(s.rx))
           bytes == Take(s, remaining)
           k2 == Received(k, bytes)
<1>1. /\ k.read_buf \in Seq(Byte) /\ Len(k.read_buf) \in Nat
      /\ s.rx \in Seq(Byte) /\ Len(s.rx) \in Nat
      /\ remaining \in Nat /\ BufSize \in Nat
  BY LenProperties, ReactorAssumption DEF ConnType, SocketType, Fits
<1>2. m \in 0 .. Len(s.rx) /\ m <= remaining
  <2>1. PICK a \in Nat, b \in Nat : a = remaining /\ b = Len(s.rx)
    BY <1>1
  <2>2. Smaller(a, b) \in 0 .. b /\ Smaller(a, b) <= a
    BY DEF Smaller
  <2> QED
    BY <2>1, <2>2
<1>3. /\ bytes \in Seq(Byte) /\ Len(bytes) = m
      /\ Drop(s.rx, m) \in Seq(Byte)
      /\ s.rx = bytes \o Drop(s.rx, m)
  BY <1>1, <1>2, FrontAndDrop DEF Take
<1>4. s2 = [s EXCEPT !.rx = Drop(s.rx, m)]
  BY DEF AfterRead
<1> HIDE DEF m, bytes
<1>5. /\ s2 \in SocketType(Byte) /\ s2.rx = Drop(s.rx, m)
      /\ s2.out = s.out /\ s2.err = s.err
  BY <1>3, <1>4 DEF SocketType
<1>6. /\ k.read_buf \o bytes \in Seq(Byte)
      /\ Len(k.read_buf \o bytes) = Len(k.read_buf) + m
  BY <1>1, <1>3, ConcatProperties
<1>7. /\ k2 \in ConnType
      /\ k2.read_buf = k.read_buf \o bytes
      /\ k2.write_buf = k.write_buf /\ k2.write_sent = k.write_sent
  BY <1>6 DEF ConnType, Received
<1>8. e = Echoed(k2)
  BY DEF bytes
<1> HIDE DEF k2
<1>9. Fits(k2) /\ Unsent(k2) = Unsent(k)
  BY <1>1, <1>2, <1>6, <1>7 DEF Fits, Unsent
<1>10. /\ e \in ConnType /\ Fits(e)
       /\ \A w \in Seq(Byte) : (w \o Unsent(e)) \o e.read_buf = (w \o Unsent(k)) \o k2.read_buf
  BY <1>7, <1>8, <1>9, EchoedKeeps
<1>11. ASSUME NEW w \in Seq(Byte)
       PROVE  Echo(w, e, s2) = Echo(w, k, s)
  <2>1. Unsent(k) \in Seq(Byte)
    BY UnsentType
  <2> DEFINE v == w \o Unsent(k)
  <2>2. v \in Seq(Byte)
    BY <2>1, ConcatProperties
  <2> HIDE DEF v
  <2>3. (v \o k2.read_buf) \o s2.rx = (v \o k.read_buf) \o s.rx
    <3>1. /\ k.read_buf \in Seq(Byte) /\ s.rx \in Seq(Byte) /\ bytes \in Seq(Byte)
          /\ s2.rx \in Seq(Byte)
      BY <1>1, <1>3, <1>5
    <3>2. k2.read_buf = k.read_buf \o bytes /\ s.rx = bytes \o s2.rx
      BY <1>3, <1>5, <1>7
    <3>3. Cat(Cat(v, k2.read_buf), s2.rx) = Cat(Cat(v, k.read_buf), s.rx)
      <4>1. k2.read_buf = Cat(k.read_buf, bytes) /\ s.rx = Cat(bytes, s2.rx)
        BY <3>2 DEF Cat
      <4> QED
        BY <2>2, <3>1, <4>1, PieceMoves
    <3> QED
      BY <3>3 DEF Cat
  <2>4. (w \o Unsent(e)) \o e.read_buf = v \o k2.read_buf
    BY <1>10 DEF v
  <2> QED
    BY <2>3, <2>4 DEF v, Echo
<1> QED
  BY <1>5, <1>10, <1>11

\* After n more bytes have been written, the connection_t k is e.
Advances(k, n, e) ==
  \/ /\ k.write_sent + n < Len(k.write_buf)
     /\ e = [k EXCEPT !.write_sent = @ + n]
  \/ /\ k.write_sent + n >= Len(k.write_buf)
     /\ e = [k EXCEPT !.write_buf = <<>>, !.write_sent = 0]

\* handle_write_events keeps the bounds and the stream.
LEMMA WriteKeeps ==
  ASSUME NEW k \in ConnType, Fits(k), NEW s \in SocketType(Byte),
         NEW n, n = Len(Put(s, Unsent(k))), n > 0,
         NEW s2, s2 = AfterWrite(s, Unsent(k)),
         NEW e, Advances(k, n, e)
  PROVE  /\ e \in ConnType
         /\ Fits(e)
         /\ e.read_buf = k.read_buf
         /\ s2 \in SocketType(Byte)
         /\ s2.rx = s.rx /\ s2.err = s.err
         /\ \A g \in Seq(Byte) : Reply(g, e, s2) = Reply(g, k, s)
<1> DEFINE u == Unsent(k)
           m == Smaller(Room(s), Len(u))
           bytes == Put(s, u)
<1>1. /\ k.read_buf \in Seq(Byte) /\ k.write_buf \in Seq(Byte) /\ k.write_sent \in Nat
      /\ Len(k.read_buf) \in Nat /\ Len(k.write_buf) \in Nat
      /\ s.out \in Seq(Byte) /\ Len(s.out) \in Nat
      /\ Room(s) \in Int
  BY LenProperties, SendSpaceAssumption DEF ConnType, SocketType, Room
<1>2. u \in Seq(Byte) /\ Len(u) = Len(k.write_buf) - k.write_sent /\ Len(u) \in Nat
  BY UnsentType, LenProperties
<1>3. m \in 1 .. Len(u)
  <2>1. m \in Int /\ m <= Len(u)
    BY <1>1, <1>2 DEF Smaller
  <2>2. bytes = SubSeq(u, 1, m)
    BY DEF Put
  <2>3. m < 1 => bytes = <<>>
    BY <2>1, <2>2, SubSeqEmpty
  <2>4. Len(<<>>) = 0
    OBVIOUS
  <2> HIDE DEF u, m, bytes
  <2>5. Len(bytes) = n
    BY DEF bytes, u
  <2> QED
    BY <2>1, <2>3, <2>4, <2>5
<1>4. /\ bytes \in Seq(Byte) /\ Len(bytes) = m
      /\ Drop(u, m) \in Seq(Byte) /\ Len(Drop(u, m)) = Len(u) - m
      /\ u = bytes \o Drop(u, m)
  <2>1. bytes = SubSeq(u, 1, m)
    BY DEF Put
  <2>2. m \in 0 .. Len(u)
    BY <1>2, <1>3
  <2>3. u \in Seq(Byte)
    BY <1>2
  <2> HIDE DEF u, m, bytes
  <2>4. /\ SubSeq(u, 1, m) \in Seq(Byte) /\ Len(SubSeq(u, 1, m)) = m
        /\ Drop(u, m) \in Seq(Byte) /\ Len(Drop(u, m)) = Len(u) - m
        /\ u = SubSeq(u, 1, m) \o Drop(u, m)
    BY <2>2, <2>3, FrontAndDrop
  <2> QED
    BY <2>1, <2>4
<1>5. n = m
  BY <1>4
<1>6. s2 = [s EXCEPT !.out = @ \o bytes]
  BY DEF AfterWrite
<1> HIDE DEF m, bytes
<1>7. s.out \o bytes \in Seq(Byte)
  BY <1>1, <1>4, ConcatProperties
<1>8. /\ s2 \in SocketType(Byte) /\ s2.out = s.out \o bytes
      /\ s2.rx = s.rx /\ s2.err = s.err
  BY <1>6, <1>7 DEF SocketType
<1>9. /\ e \in ConnType /\ Fits(e) /\ e.read_buf = k.read_buf
      /\ Unsent(e) = Drop(u, m)
  <2>1. CASE /\ k.write_sent + n < Len(k.write_buf)
             /\ e = [k EXCEPT !.write_sent = @ + n]
    <3>1. /\ e \in ConnType /\ e.read_buf = k.read_buf /\ e.write_buf = k.write_buf
          /\ e.write_sent = k.write_sent + m
      BY <1>1, <1>3, <1>5, <2>1 DEF ConnType
    <3>2. Fits(e)
      <4>1. k.write_sent + m <= Len(k.write_buf)
        BY <1>5, <2>1, <1>1, <1>3
      <4> QED
        BY <3>1, <4>1 DEF Fits
    <3>3. k.write_sent \in 0 .. Len(k.write_buf) /\ m \in 0 .. Len(k.write_buf) - k.write_sent
      BY <1>1, <1>2, <1>3 DEF Fits
    <3>4. Drop(Drop(k.write_buf, k.write_sent), m) = Drop(k.write_buf, k.write_sent + m)
      BY <1>1, <3>3, DropTwice
    <3> QED
      BY <3>1, <3>2, <3>4 DEF Unsent
  <2>2. CASE /\ k.write_sent + n >= Len(k.write_buf)
             /\ e = [k EXCEPT !.write_buf = <<>>, !.write_sent = 0]
    <3>1. <<>> \in Seq(Byte) /\ Len(<<>>) = 0
      BY EmptySeq
    <3>2. /\ e \in ConnType /\ e.read_buf = k.read_buf /\ e.write_buf = <<>> /\ e.write_sent = 0
      BY <2>2, <3>1 DEF ConnType
    <3>3. Fits(e)
      BY <3>1, <3>2, ReactorAssumption DEF Fits
    <3>4. Unsent(e) = <<>>
      BY <3>2, <3>3, UnsentType
    <3>5. Len(Drop(u, m)) = 0
      BY <1>1, <1>2, <1>3, <1>4, <1>5, <2>2
    <3>6. Drop(u, m) = <<>>
      BY <1>4, <3>5, EmptySeq
    <3> QED
      BY <3>2, <3>3, <3>4, <3>6
  <2> QED
    BY <2>1, <2>2 DEF Advances
<1>10. ASSUME NEW g \in Seq(Byte)
       PROVE  Reply(g, e, s2) = Reply(g, k, s)
  <2> HIDE DEF u
  <2>1. (g \o s2.out) \o Drop(u, m) = (g \o s.out) \o u
    <3>1. s.out \in Seq(Byte) /\ u \in Seq(Byte) /\ bytes \in Seq(Byte) /\ Drop(u, m) \in Seq(Byte)
      BY <1>1, <1>2, <1>4
    <3>2. s2.out = s.out \o bytes /\ u = bytes \o Drop(u, m)
      BY <1>4, <1>8
    <3>3. Cat(Cat(g, s2.out), Drop(u, m)) = Cat(Cat(g, s.out), u)
      <4>1. s2.out = Cat(s.out, bytes) /\ u = Cat(bytes, Drop(u, m))
        BY <3>2 DEF Cat
      <4> QED
        BY <3>1, <4>1, PieceMoves
    <3> QED
      BY <3>3 DEF Cat
  <2> QED
    BY <1>9, <2>1 DEF u, Reply
<1> QED
  BY <1>8, <1>9, <1>10

-----------------------------------------------------------------------------
(***************************************************************************)
(* The stream in every state                                               *)
(***************************************************************************)

\* A step touches nothing of connection c.
Untouched(c) ==
  /\ conn'[c] = conn[c] /\ sock'[c] = sock[c]
  /\ got'[c] = got[c] /\ sent'[c] = sent[c]
  /\ c \in connections' <=> c \in connections
  /\ c \in closed' <=> c \in closed

LEMMA StreamUntouched ==
  ASSUME NEW c \in Conns, StreamOf(c), Untouched(c)
  PROVE  StreamOf(c)'
BY DEF StreamOf, Untouched, Stream, Written

\* A step that touches one connection.
LEMMA StreamOfOne ==
  ASSUME StreamInv, NEW c \in Conns, StreamOf(c)', \A d \in Conns \ {c} : Untouched(d)
  PROVE  StreamInv'
BY StreamUntouched DEF StreamInv

LEMMA BytesInit == Init => BytesInv /\ StreamInv
<1> SUFFICES ASSUME Init PROVE BytesInv /\ StreamInv
  OBVIOUS
<1>1. <<>> \in Seq(Byte) /\ Len(<<>>) = 0
  BY EmptySeq
<1>2. /\ NewConn \in ConnType /\ Fits(NewConn) /\ Unsent(NewConn) = <<>>
      /\ NewSocket \in SocketType(Byte)
  <2>1. NewConn \in ConnType /\ Fits(NewConn)
    BY <1>1, ReactorAssumption DEF NewConn, ConnType, Fits
  <2>2. Unsent(NewConn) = <<>>
    BY <2>1, UnsentType DEF NewConn
  <2> QED
    BY <1>1, <2>1, <2>2 DEF NewSocket, SocketType
<1>3. BytesInv
  BY <1>1, <1>2, ReactorAssumption DEF Init, BytesInv
<1>4. FirstBytes(0) = <<>>
  BY DEF FirstBytes
<1>5. ASSUME NEW c \in Conns
      PROVE  Stream(c) = <<>> /\ Written(c) = <<>> /\ conn[c] = NewConn /\ sent[c] = 0
  <2>1. <<>> \o <<>> = <<>>
    BY <1>1, ConcatEmptySeq
  <2>2. /\ got[c] = <<>> /\ sock[c].out = <<>> /\ sock[c].rx = <<>> /\ sent[c] = 0
        /\ conn[c] = NewConn /\ conn[c].read_buf = <<>>
    BY DEF Init, NewConn, NewSocket
  <2> QED
    BY <1>2, <2>1, <2>2 DEF Stream, Written
<1>6. StreamInv
  BY <1>1, <1>4, <1>5 DEF StreamInv, StreamOf
<1> QED
  BY <1>3, <1>6

\* The pieces of a connection's stream are sequences of its bytes.
LEMMA PiecesType ==
  ASSUME BytesInv, NEW c \in Conns
  PROVE  /\ got[c] \in Seq(Byte) /\ sock[c].out \in Seq(Byte) /\ Written(c) \in Seq(Byte)
         /\ Unsent(conn[c]) \in Seq(Byte) /\ conn[c].read_buf \in Seq(Byte)
         /\ Written(c) \o Unsent(conn[c]) \in Seq(Byte)
         /\ (Written(c) \o Unsent(conn[c])) \o conn[c].read_buf \in Seq(Byte)
         /\ sock[c].rx \in Seq(Byte)
         /\ Stream(c) = ((Written(c) \o Unsent(conn[c])) \o conn[c].read_buf) \o sock[c].rx
<1>1. conn[c] \in ConnType /\ Fits(conn[c]) /\ sock[c] \in SocketType(Byte)
  BY DEF BytesInv
<1>2. /\ got[c] \in Seq(Byte) /\ sock[c].out \in Seq(Byte) /\ sock[c].rx \in Seq(Byte)
      /\ Unsent(conn[c]) \in Seq(Byte) /\ conn[c].read_buf \in Seq(Byte)
  BY <1>1, UnsentType DEF BytesInv, ConnType, SocketType
<1>3. Written(c) \in Seq(Byte)
  BY <1>2, ConcatProperties DEF Written
<1>4. Written(c) \o Unsent(conn[c]) \in Seq(Byte)
  BY <1>2, <1>3, ConcatProperties
<1>5. (Written(c) \o Unsent(conn[c])) \o conn[c].read_buf \in Seq(Byte)
  BY <1>2, <1>4, ConcatProperties
<1> QED
  BY <1>2, <1>3, <1>4, <1>5 DEF Stream, Written

\* Bytes are read.
LEMMA ReadStep ==
  ASSUME ThreadInv, Apart, BytesInv, StreamInv, ReadBytes
  PROVE  BytesInv' /\ StreamInv'
<1>1. PICK c \in Conns : c = Head(read_conns) /\ c \in connections
  BY HeadInRange DEF ReadBytes, ThreadInv, RoundInv, TableInv
<1>2. PICK k \in ConnType : k = conn[c] /\ Fits(k)
  BY DEF BytesInv
<1>3. PICK s0 \in SocketType(Byte) : s0 = sock[c]
  BY DEF BytesInv
<1> DEFINE remaining == BufSize - Len(k.read_buf)
           e == Echoed(Received(k, Take(s0, remaining)))
           s == AfterRead(s0, remaining)
<1>4. /\ sock' = [sock EXCEPT ![c] = s]
      /\ conn' = [conn EXCEPT ![c] = e]
      /\ UNCHANGED <<connections, closed, sent, got>>
  <2>1. sock' = [sock EXCEPT ![c] = AfterRead(sock[c], BufSize - Len(conn[c].read_buf))]
    BY <1>1 DEF ReadBytes
  <2>3. conn' = [conn EXCEPT ![c] =
          Echoed(Received(conn[c], Take(sock[c], BufSize - Len(conn[c].read_buf))))]
    BY <1>1 DEF ReadBytes
  <2>2. UNCHANGED <<connections, closed, sent, got>>
    BY DEF ReadBytes, clientVars
  <2> QED
    BY <1>2, <1>3, <2>1, <2>2, <2>3
<1>5. /\ e \in ConnType /\ Fits(e) /\ s \in SocketType(Byte)
      /\ s.out = s0.out /\ s.err = s0.err
      /\ \A w \in Seq(Byte) : Echo(w, e, s) = Echo(w, k, s0)
  <2>1. /\ remaining = BufSize - Len(k.read_buf)
        /\ e = Echoed(Received(k, Take(s0, remaining)))
        /\ s = AfterRead(s0, remaining)
    OBVIOUS
  <2> HIDE DEF remaining, e, s
  <2> QED
    BY <1>2, <2>1, ReadKeeps
<1> HIDE DEF e, s
<1>6. BytesInv'
  BY <1>1, <1>4, <1>5 DEF BytesInv
<1>7. /\ sock'[c] = s /\ conn'[c] = e
      /\ \A d \in Conns \ {c} : Untouched(d)
  BY <1>1, <1>4 DEF BytesInv, Untouched
<1>8. Stream(c)' = Stream(c) /\ Written(c)' = Written(c)
  <2>1. Written(c)' = Written(c) /\ Written(c) \in Seq(Byte)
    BY <1>3, <1>4, <1>5, <1>7, PiecesType DEF Written
  <2>2. Stream(c)' = Echo(Written(c), e, s)
    BY <1>7, <2>1 DEF Stream, Written, Echo
  <2>3. Stream(c) = Echo(Written(c), k, s0)
    BY <1>2, <1>3 DEF Stream, Written, Echo
  <2> QED
    BY <1>5, <2>1, <2>2, <2>3
<1>9. StreamOf(c)'
  BY <1>1, <1>3, <1>4, <1>5, <1>7, <1>8 DEF StreamInv, StreamOf
<1> QED
  BY <1>1, <1>6, <1>7, <1>9, StreamOfOne

\* Bytes are written.
LEMMA WriteStep ==
  ASSUME ThreadInv, Apart, BytesInv, StreamInv, WriteBytes
  PROVE  BytesInv' /\ StreamInv'
<1>1. PICK c \in Conns : c = Head(write_conns) /\ c \in connections
  BY HeadInRange DEF WriteBytes, ThreadInv, RoundInv, TableInv
<1>2. PICK k \in ConnType : k = conn[c] /\ Fits(k)
  BY DEF BytesInv
<1>3. PICK s0 \in SocketType(Byte) : s0 = sock[c]
  BY DEF BytesInv
<1> DEFINE n == Len(Put(s0, Unsent(k)))
           s == AfterWrite(s0, Unsent(k))
<1>4. PICK e : Advances(k, n, e) /\ conn' = [conn EXCEPT ![c] = e]
  BY <1>1, <1>2, <1>3 DEF WriteBytes, BytesInv, Advances
<1>5. /\ ~s0.err /\ n > 0
      /\ sock' = [sock EXCEPT ![c] = s]
      /\ UNCHANGED <<connections, closed, sent, got>>
  BY <1>1, <1>2, <1>3 DEF WriteBytes, WriteNext, clientVars
<1>6. /\ e \in ConnType /\ Fits(e) /\ s \in SocketType(Byte)
      /\ e.read_buf = k.read_buf /\ s.rx = s0.rx /\ s.err = s0.err
      /\ \A g \in Seq(Byte) : Reply(g, e, s) = Reply(g, k, s0)
  <2>1. n = Len(Put(s0, Unsent(k))) /\ s = AfterWrite(s0, Unsent(k))
    OBVIOUS
  <2> HIDE DEF n, s
  <2> QED
    BY <1>4, <1>5, <1>2, <2>1, WriteKeeps
<1> HIDE DEF s, n
<1>7. BytesInv'
  BY <1>1, <1>4, <1>5, <1>6 DEF BytesInv
<1>8. /\ sock'[c] = s /\ conn'[c] = e
      /\ \A d \in Conns \ {c} : Untouched(d)
  BY <1>1, <1>4, <1>5 DEF BytesInv, Untouched
<1>9. Stream(c)' = Stream(c) /\ Stream(c)' = ((Written(c)' \o Unsent(e)) \o e.read_buf) \o s.rx
  <2>1. got[c] \in Seq(Byte) /\ got'[c] = got[c]
    BY <1>5 DEF BytesInv
  <2>2. Stream(c)' = (Reply(got[c], e, s) \o e.read_buf) \o s.rx
    BY <1>8, <2>1 DEF Stream, Reply
  <2>3. Stream(c) = (Reply(got[c], k, s0) \o k.read_buf) \o s0.rx
    BY <1>2, <1>3 DEF Stream, Reply
  <2>4. Written(c)' = got[c] \o s.out
    BY <1>8, <2>1 DEF Written
  <2> QED
    BY <1>6, <2>1, <2>2, <2>3, <2>4 DEF Reply
<1>10. Stream(c) = FirstBytes(sent[c]) /\ sent[c] \in Nat
  BY <1>1, <1>3, <1>5, ReactorAssumption DEF StreamInv, StreamOf, BytesInv, Apart, Disjoint
<1>11. Written(c)' = FirstBytes(Len(Written(c)'))
  <2>1. Written(c)' \in Seq(Byte)
    <3>1. got[c] \in Seq(Byte) /\ s.out \in Seq(Byte)
      BY <1>1, <1>6 DEF BytesInv, SocketType
    <3> QED
      BY <1>5, <1>8, <3>1, ConcatProperties DEF Written
  <2>2. Unsent(e) \in Seq(Byte) /\ e.read_buf \in Seq(Byte) /\ s.rx \in Seq(Byte)
    BY <1>6, UnsentType DEF ConnType, SocketType
  <2>3. ((Written(c)' \o Unsent(e)) \o e.read_buf) \o s.rx = FirstBytes(sent[c])
    BY <1>9, <1>10
  <2> QED
    BY <1>10, <2>1, <2>2, <2>3, FrontOfStream
<1>12. StreamOf(c)'
  BY <1>1, <1>5, <1>8, <1>9, <1>10, <1>11 DEF StreamOf
<1> QED
  BY <1>1, <1>7, <1>8, <1>12, StreamOfOne

\* Connections are closed: their bytes are gone, all others are untouched.
LEMMA CloseStep ==
  ASSUME BytesInv, StreamInv, NEW dead, Close(dead), UNCHANGED <<sock, sent, got>>
  PROVE  BytesInv' /\ StreamInv'
<1>1. BytesInv'
  BY NewConnType DEF Close, BytesInv
<1>2. ASSUME NEW c \in Conns
      PROVE  StreamOf(c)'
  <2>1. CASE c \in dead
    <3>1. c \in closed' /\ conn'[c] = NewConn /\ Written(c)' = Written(c)
      BY <2>1 DEF Close, Written
    <3> QED
      BY <3>1 DEF StreamOf, StreamInv
  <2>2. CASE c \notin dead
    <3>1. Untouched(c)
      BY <2>2 DEF Close, Untouched
    <3> QED
      BY <3>1, StreamUntouched DEF StreamInv
  <2> QED
    BY <2>1, <2>2
<1> QED
  BY <1>1, <1>2 DEF StreamInv

\* The steps of the loop keep the stream.
LEMMA LoopStream ==
  ASSUME ThreadInv, Apart, BytesInv, StreamInv, Loop
  PROVE  BytesInv' /\ StreamInv'
<1> USE DEF threadVars, connVars, kernelVars, listVars, clientVars
<1>1. CASE \/ Exit \/ WaitInterrupted \/ WaitFails \/ PopNew \/ PopNothing \/ ReadFull
           \/ ReadAgain \/ ReadsDone \/ WriteNothing \/ WritesDone
  <2>1. UNCHANGED <<conn, sock, sent, got, connections, closed>>
    BY <1>1 DEF Exit, WaitInterrupted, WaitFails, PopNew, PopNothing, PopBatch, ReadFull,
      ReadAgain, ReadNext, ReadsDone, WriteNothing, WriteNext, WritesDone
  <2>2. BytesInv'
    BY <2>1 DEF BytesInv
  <2>3. \A c \in Conns : Untouched(c)
    BY <2>1 DEF Untouched
  <2> QED
    BY <2>2, <2>3, StreamUntouched DEF StreamInv
<1>2. CASE AddConnection
  <2>1. PICK c \in Conns : c = Head(fds) /\ c \notin connections /\ c \notin closed
    <3>1. Head(fds) \in Range(fds) /\ Head(fds) \in Conns
      BY <1>2, HeadInRange, HeadTailProperties DEF AddConnection, ThreadInv, TableInv
    <3> QED
      BY <3>1 DEF Apart, Disjoint
  <2>2. /\ connections' = connections \cup {c}
        /\ conn' = [conn EXCEPT ![c] = NewConn]
        /\ UNCHANGED <<sock, sent, got, closed>>
    BY <1>2, <2>1 DEF AddConnection
  <2>3. conn[c] = NewConn
    BY <2>1 DEF StreamInv, StreamOf
  <2>4. conn' = conn
    BY <2>2, <2>3 DEF BytesInv
  <2>5. BytesInv'
    BY <2>2, <2>4 DEF BytesInv
  <2>6. \A d \in Conns \ {c} : Untouched(d)
    BY <2>2, <2>4 DEF Untouched
  <2>7. StreamOf(c)'
    BY <2>2, <2>4 DEF StreamInv, StreamOf, Stream, Written
  <2> QED
    BY <2>5, <2>6, <2>7, StreamOfOne
<1>3. CASE RefuseConnection
  <2>1. /\ UNCHANGED <<conn, sock, sent, got, connections>>
        /\ closed \subseteq closed'
    BY <1>3 DEF RefuseConnection
  <2>2. BytesInv'
    BY <2>1 DEF BytesInv
  <2>3. \A c \in Conns : Stream(c)' = Stream(c) /\ Written(c)' = Written(c)
    BY <2>1 DEF Stream, Written
  <2> QED
    BY <2>1, <2>2, <2>3 DEF StreamInv, StreamOf
<1>4. CASE WaitAndClassify
  <2>1. \E dead : Close(dead)
    BY <1>4 DEF WaitAndClassify
  <2> QED
    BY <1>4, <2>1, CloseStep DEF WaitAndClassify
<1>5. CASE ReadBytes
  BY <1>5, ReadStep
<1>6. CASE ReadEnds
  BY <1>6, CloseStep DEF ReadEnds, ReadNext
<1>7. CASE WriteBytes
  BY <1>7, WriteStep
<1>8. CASE WriteFails
  BY <1>8, CloseStep DEF WriteFails, WriteNext
<1>9. CASE Timer
  <2>1. \E dead : Close(dead)
    BY <1>9 DEF Timer
  <2> QED
    BY <1>9, <2>1, CloseStep DEF Timer
<1> QED
  BY <1>1, <1>2, <1>3, <1>4, <1>5, <1>6, <1>7, <1>8, <1>9 DEF Loop

\* The clients extend their streams and take from them.
LEMMA SendStep ==
  ASSUME BytesInv, StreamInv, NEW c \in Conns, ClientSend(c)
  PROVE  BytesInv' /\ StreamInv'
<1>1. PICK s0 \in SocketType(Byte) : s0 = sock[c]
  BY DEF BytesInv
<1>2. PICK n \in 0 .. MaxBytes : n = sent[c]
  BY DEF BytesInv
<1>3. n + 1 \in 0 .. MaxBytes /\ n + 1 \in Byte /\ n \in Nat
  BY <1>2, ReactorAssumption DEF ClientSend, Byte
<1> DEFINE s == [s0 EXCEPT !.rx = Append(s0.rx, n + 1)]
<1>4. /\ sock' = [sock EXCEPT ![c] = s]
      /\ sent' = [sent EXCEPT ![c] = n + 1]
      /\ UNCHANGED <<conn, got, connections, closed>>
  BY <1>1, <1>2 DEF ClientSend, connVars
<1>5. /\ s \in SocketType(Byte) /\ s.rx = Append(s0.rx, n + 1)
      /\ s.out = s0.out /\ s.err = s0.err
  <2>1. Append(s0.rx, n + 1) \in Seq(Byte)
    BY <1>3, AppendProperties DEF SocketType
  <2> QED
    BY <2>1 DEF SocketType
<1> HIDE DEF s
<1>6. BytesInv'
  BY <1>3, <1>4, <1>5 DEF BytesInv
<1>7. /\ sock'[c] = s /\ sent'[c] = n + 1
      /\ \A d \in Conns \ {c} : Untouched(d)
  BY <1>4 DEF BytesInv, Untouched
<1>8. Stream(c)' = FirstBytes(n + 1)
  <2> DEFINE before == (Written(c) \o Unsent(conn[c])) \o conn[c].read_buf
  <2>1. before \in Seq(Byte) /\ s0.rx \in Seq(Byte)
    BY <1>1, PiecesType
  <2>2. Stream(c) = FirstBytes(n)
    BY <1>2 DEF StreamInv, StreamOf, ClientSend, Live
  <2>3. before \o s0.rx = FirstBytes(n)
    BY <1>1, <2>2, PiecesType
  <2>4. Stream(c)' = before \o Append(s0.rx, n + 1)
    BY <1>1, <1>4, <1>5, <1>7 DEF Stream, Written
  <2> HIDE DEF before
  <2> QED
    BY <1>3, <2>1, <2>3, <2>4, NextByte
<1>9. StreamOf(c)'
  <2>1. Written(c)' = Written(c)
    BY <1>1, <1>4, <1>5, <1>7 DEF Written
  <2> QED
    BY <1>4, <1>7, <1>8, <2>1 DEF StreamInv, StreamOf
<1> QED
  BY <1>6, <1>7, <1>9, StreamOfOne

LEMMA ReceiveStep ==
  ASSUME BytesInv, StreamInv, NEW c \in Conns, ClientReceive(c)
  PROVE  BytesInv' /\ StreamInv'
<1>1. PICK s0 \in SocketType(Byte) : s0 = sock[c]
  BY DEF BytesInv
<1>2. PICK g \in Seq(Byte), o \in Seq(Byte) : g = got[c] /\ o = s0.out
  BY <1>1 DEF BytesInv, SocketType
<1> DEFINE s == [s0 EXCEPT !.out = Tail(o)]
           g2 == Append(g, Head(o))
<1>3. /\ o # <<>>
      /\ sock' = [sock EXCEPT ![c] = s]
      /\ got' = [got EXCEPT ![c] = g2]
      /\ UNCHANGED <<conn, sent, connections, closed>>
  BY <1>1, <1>2 DEF ClientReceive, connVars
<1>4. Head(o) \in Byte /\ Tail(o) \in Seq(Byte) /\ g2 \in Seq(Byte)
  BY <1>3, HeadTailProperties, AppendProperties
<1>5. s \in SocketType(Byte) /\ s.out = Tail(o) /\ s.rx = s0.rx /\ s.err = s0.err
  BY <1>4 DEF SocketType
<1>6. g2 \o Tail(o) = g \o o
  BY <1>3, ReceiveMoves
<1> HIDE DEF s, g2
<1>7. BytesInv'
  BY <1>3, <1>4, <1>5 DEF BytesInv
<1>8. /\ sock'[c] = s /\ got'[c] = g2
      /\ \A d \in Conns \ {c} : Untouched(d)
  BY <1>3 DEF BytesInv, Untouched
<1>9. Written(c)' = Written(c)
  BY <1>1, <1>2, <1>5, <1>6, <1>8 DEF Written
<1>10. Stream(c)' = Stream(c)
  BY <1>1, <1>3, <1>5, <1>8, <1>9 DEF Stream, Written
<1>11. StreamOf(c)'
  BY <1>1, <1>3, <1>5, <1>8, <1>9, <1>10 DEF StreamInv, StreamOf
<1> QED
  BY <1>7, <1>8, <1>11, StreamOfOne

\* A client that ends its side changes no byte; a reset loses those on their way.
LEMMA EndStep ==
  ASSUME BytesInv, StreamInv, NEW c \in Conns, ClientFin(c) \/ ClientReset(c)
  PROVE  BytesInv' /\ StreamInv'
<1>1. PICK s0 \in SocketType(Byte) : s0 = sock[c]
  BY DEF BytesInv
<1>2. UNCHANGED <<conn, sent, got, connections, closed>>
  BY DEF ClientFin, ClientReset, connVars, clientVars
<1>3. CASE ClientFin(c)
  <2> DEFINE s == [s0 EXCEPT !.fin = TRUE]
  <2>1. sock' = [sock EXCEPT ![c] = s]
    BY <1>1, <1>3 DEF ClientFin
  <2>2. s \in SocketType(Byte) /\ s.out = s0.out /\ s.rx = s0.rx /\ s.err = s0.err
    BY DEF SocketType
  <2> HIDE DEF s
  <2>3. BytesInv'
    BY <1>2, <2>1, <2>2 DEF BytesInv
  <2>4. sock'[c] = s /\ \A d \in Conns \ {c} : Untouched(d)
    BY <1>2, <2>1 DEF BytesInv, Untouched
  <2>5. Written(c)' = Written(c) /\ Stream(c)' = Stream(c)
    BY <1>1, <1>2, <2>2, <2>4 DEF Written, Stream
  <2>6. StreamOf(c)'
    BY <1>1, <1>2, <2>2, <2>4, <2>5 DEF StreamInv, StreamOf
  <2> QED
    BY <2>3, <2>4, <2>6, StreamOfOne
<1>4. CASE ClientReset(c)
  <2> DEFINE s == [s0 EXCEPT !.err = TRUE, !.out = <<>>]
  <2>1. sock' = [sock EXCEPT ![c] = s]
    BY <1>1, <1>4 DEF ClientReset, BytesInv
  <2>2. s \in SocketType(Byte) /\ s.out = <<>> /\ s.err
    <3>1. <<>> \in Seq(Byte)
      BY EmptySeq
    <3> QED
      BY <3>1 DEF SocketType
  <2> HIDE DEF s
  <2>3. BytesInv'
    BY <1>2, <2>1, <2>2 DEF BytesInv
  <2>4. sock'[c] = s /\ \A d \in Conns \ {c} : Untouched(d)
    BY <1>2, <2>1 DEF BytesInv, Untouched
  <2>5. PICK g \in Seq(Byte), o \in Seq(Byte) : g = got[c] /\ o = sock[c].out
    BY PiecesType
  <2>6. Written(c)' = g
    BY <1>2, <2>2, <2>4, <2>5, ConcatEmptySeq DEF Written
  <2>7. g = FirstBytes(Len(g))
    <3>1. g \o o \in Seq(Byte) /\ Len(g \o o) \in Nat
      BY ConcatProperties, LenProperties
    <3>2. g \o o = FirstBytes(Len(g \o o))
      BY <2>5 DEF StreamInv, StreamOf, Written
    <3> QED
      BY <3>1, <3>2, FrontOfBytes
  <2>8. StreamOf(c)'
    BY <1>2, <2>2, <2>4, <2>6, <2>7 DEF StreamInv, StreamOf
  <2> QED
    BY <2>3, <2>4, <2>8, StreamOfOne
<1> QED
  BY <1>3, <1>4

\* The buffers and the streams are sound in every state.
THEOREM StreamInvariance == Spec => [](ThreadInv /\ Apart /\ BytesInv /\ StreamInv)
<1>1. ThreadInv /\ Apart /\ BytesInv /\ StreamInv /\ [Next]_vars => BytesInv' /\ StreamInv'
  <2> SUFFICES ASSUME ThreadInv, Apart, BytesInv, StreamInv, [Next]_vars
               PROVE  BytesInv' /\ StreamInv'
    OBVIOUS
  <2>1. CASE Loop
    BY <2>1, LoopStream
  <2>2. ASSUME NEW c \in Conns,
               ClientSend(c) \/ ClientReceive(c) \/ ClientFin(c) \/ ClientReset(c)
        PROVE  BytesInv' /\ StreamInv'
    BY <2>2, SendStep, ReceiveStep, EndStep
  <2>3. CASE (\E c \in Conns : Accept(c) \/ Age(c)) \/ Stop \/ UNCHANGED vars
    <3>1. UNCHANGED <<conn, sock, sent, got, connections, closed>>
      BY <2>3 DEF Accept, Age, Stop, vars, connVars, kernelVars, clientVars
    <3>2. \A c \in Conns : Untouched(c)
      BY <3>1 DEF Untouched
    <3>3. BytesInv'
      BY <3>1 DEF BytesInv
    <3> QED
      BY <3>2, <3>3, StreamUntouched DEF StreamInv
  <2> QED
    BY <2>1, <2>2, <2>3 DEF Next, Environment
<1> QED
  BY <1>1, BytesInit, ApartInvariance, PTL DEF Spec

\* The echo keeps the stream: what a live connection's client has got, what is on
\* its way and what is still to be read is what the client has sent, in order, and
\* no client ever gets anything else (reactor.c:178-272).
THEOREM EchoIsStream == Spec => []StreamIntact
<1>1. BytesInv /\ StreamInv => StreamIntact
  <2> SUFFICES ASSUME BytesInv, StreamInv, NEW c \in Conns
               PROVE  /\ Live(c) => Stream(c) = FirstBytes(sent[c])
                      /\ got[c] = FirstBytes(Len(got[c]))
    BY DEF StreamIntact, FirstBytes
  <2>1. Live(c) => Stream(c) = FirstBytes(sent[c])
    BY DEF StreamInv, StreamOf, Live
  <2>2. PICK g \in Seq(Byte), o \in Seq(Byte) : g = got[c] /\ o = sock[c].out
    BY PiecesType
  <2>3. g \o o \in Seq(Byte) /\ Len(g \o o) \in Nat
    BY ConcatProperties, LenProperties
  <2>4. g \o o = FirstBytes(Len(g \o o))
    BY <2>2 DEF StreamInv, StreamOf, Written
  <2>5. g = FirstBytes(Len(g))
    BY <2>3, <2>4, FrontOfBytes
  <2> QED
    BY <2>1, <2>2, <2>5
<1> QED
  BY <1>1, StreamInvariance, PTL

-----------------------------------------------------------------------------
(***************************************************************************)
(* The bounds of the table, of a batch and of a round                      *)
(***************************************************************************)

BoundInv ==
  /\ running \in BOOLEAN
  /\ pc \in {"top", "add", "wait", "read", "write", "timer", "stopped"}
  /\ loop_count \in 0 .. TimerEvery - 1
  /\ Len(fds) <= Batch
  /\ Len(read_conns) <= MaxEvents
  /\ Len(write_conns) <= MaxEvents
  /\ Cardinality(connections) <= MaxConns
  /\ connection_count = Cardinality(connections)
  /\ closed \subseteq Conns

\* handle_close_event counts what it takes out of the table.
LEMMA CloseCounts ==
  ASSUME TableInv, BoundInv, NEW dead \in SUBSET Conns, Close(dead)
  PROVE  /\ Cardinality(connections') <= MaxConns
         /\ connection_count' = Cardinality(connections')
         /\ closed' \subseteq Conns
<1>1. /\ connections' = connections \ dead
      /\ Cardinality(connections \ dead)
           = Cardinality(connections) - Cardinality(connections \cap dead)
  BY FS_Difference DEF TableInv, Close
<1>2. /\ IsFiniteSet(connections \cap dead)
      /\ Cardinality(connections \cap dead) \in Nat
      /\ Cardinality(connections) \in Nat
  BY FS_Intersection, FS_CardinalityType DEF TableInv
<1>3. connection_count' = Cardinality(connections) - Cardinality(connections \cap dead)
  <2>1. dead \cap connections = connections \cap dead
    OBVIOUS
  <2> QED
    BY <2>1 DEF Close, BoundInv
<1>4. closed' \subseteq Conns
  BY DEF Close, BoundInv
<1> QED
  BY <1>1, <1>2, <1>3, <1>4, ReactorAssumption DEF BoundInv

\* What is left of a list is no longer than the list.
LEMMA TailLength ==
  ASSUME NEW S, NEW s \in Seq(S), s # <<>>, NEW n \in Nat, Len(s) <= n
  PROVE  Len(Tail(s)) <= n
BY EmptySeq, HeadTailProperties

\* A batch has at most Batch sockets.
LEMMA PopBound ==
  ASSUME TableInv, NEW n \in 0 .. Len(accept_queue), n <= Batch, PopBatch(n)
  PROVE  Len(fds') <= Batch
<1>1. Len(accept_queue) \in Nat /\ \A k \in 1 .. Len(accept_queue) : accept_queue[k] \in Conns
  BY LenProperties, ElementOfSeq DEF TableInv
<1>2. Len(SubSeq(accept_queue, 1, n)) = n
  BY <1>1, SubSeqProperties
<1> QED
  BY <1>2 DEF PopBatch

\* A round has at most MaxEvents connections in either list.
LEMMA WaitBound ==
  ASSUME TableInv, BoundInv, WaitAndClassify
  PROVE  BoundInv'
<1> DEFINE events == [c \in Conns |-> Events(sock[c], interest[c])]
           due == {c \in ready : events[c] # {}}
<1>1. PICK reported \in SUBSET due, dead \in SUBSET Conns :
        /\ Cardinality(reported) = Smaller(MaxEvents, Cardinality(due))
        /\ Close(dead)
        /\ read_conns' \in ListsOf({c \in reported \ dead : "in" \in events[c]})
        /\ write_conns' \in ListsOf({c \in reported \ dead : "out" \in events[c]})
  BY DEF WaitAndClassify, TableInv
<1> DEFINE ins == {c \in reported \ dead : "in" \in events[c]}
           outs == {c \in reported \ dead : "out" \in events[c]}
<1>2. /\ IsFiniteSet(due) /\ Cardinality(due) \in Nat /\ IsFiniteSet(reported)
  <2>1. IsFiniteSet(due)
    BY FS_Subset DEF TableInv
  <2> HIDE DEF due
  <2> QED
    BY <2>1, FS_Subset, FS_CardinalityType
<1>3. Cardinality(reported) <= MaxEvents
  BY <1>1, <1>2, ReactorAssumption DEF Smaller
<1>4. /\ ins \in SUBSET reported /\ outs \in SUBSET reported
      /\ read_conns' \in ListsOf(ins) /\ write_conns' \in ListsOf(outs)
  BY <1>1
<1> HIDE DEF ins, outs, due, events
<1>5. /\ IsFiniteSet(ins) /\ Cardinality(ins) <= Cardinality(reported)
      /\ IsFiniteSet(outs) /\ Cardinality(outs) <= Cardinality(reported)
  BY <1>2, <1>4, FS_Subset
<1>6. Len(read_conns') = Cardinality(ins) /\ Len(write_conns') = Cardinality(outs)
  BY <1>4, <1>5, ListOfSet DEF ListsOf
<1>7. /\ Cardinality(ins) \in Nat /\ Cardinality(outs) \in Nat
      /\ Cardinality(reported) \in Nat /\ MaxEvents \in Nat
  BY <1>2, <1>5, FS_CardinalityType, ReactorAssumption
<1>8. Len(read_conns') <= MaxEvents /\ Len(write_conns') <= MaxEvents
  BY <1>3, <1>5, <1>6, <1>7
<1>9. /\ Cardinality(connections') <= MaxConns
      /\ connection_count' = Cardinality(connections')
      /\ closed' \subseteq Conns
  BY <1>1, CloseCounts
<1> QED
  BY <1>8, <1>9 DEF WaitAndClassify, BoundInv

\* The steps of the loop keep the bounds.
LEMMA LoopBound ==
  ASSUME ThreadInv, Apart, BoundInv, Loop
  PROVE  BoundInv'
<1> USE DEF threadVars, connVars, listVars, kernelVars, ThreadInv
<1>1. CASE Exit \/ WaitInterrupted \/ WaitFails \/ ReadsDone \/ WritesDone
  BY <1>1 DEF Exit, WaitInterrupted, WaitFails, ReadsDone, WritesDone, BoundInv
<1>2. CASE PopNew \/ PopNothing
  <2>1. PICK n \in 0 .. Len(accept_queue) : n <= Batch /\ PopBatch(n)
    <3>1. Len(accept_queue) \in Nat /\ Batch \in Nat
      BY LenProperties, ReactorAssumption DEF TableInv
    <3>2. Smaller(Batch, Len(accept_queue)) <= Batch /\ 0 <= Batch
      BY <3>1 DEF Smaller
    <3> QED
      BY <1>2, <3>2, PopSize DEF PopNew, PopNothing
  <2>2. Len(fds') <= Batch
    BY <2>1, PopBound
  <2>3. loop_count' \in 0 .. TimerEvery - 1
    BY <2>1, ReactorAssumption DEF PopBatch, BoundInv
  <2> QED
    BY <2>1, <2>2, <2>3 DEF PopBatch, BoundInv
<1>3. CASE AddConnection \/ RefuseConnection
  <2>1. fds # <<>> /\ NextFd
    BY <1>3 DEF AddConnection, RefuseConnection, TableInv
  <2>2. Len(fds') <= Batch /\ pc' \in {"wait", "add"}
    BY <2>1, TailLength, ReactorAssumption DEF NextFd, TableInv, BoundInv
  <2>3. Head(fds) \in Conns /\ Head(fds) \notin connections
    <3>1. Head(fds) \in Range(fds) /\ Head(fds) \in Conns
      BY <2>1, HeadInRange, HeadTailProperties DEF TableInv
    <3> QED
      BY <3>1 DEF Apart, Disjoint
  <2>4. CASE AddConnection
    <3>1. /\ Cardinality(connections \cup {Head(fds)}) = Cardinality(connections) + 1
          /\ Cardinality(connections) \in Nat
      BY <2>3, FS_AddElement, FS_CardinalityType DEF TableInv
    <3>2. /\ connections' = connections \cup {Head(fds)}
          /\ connection_count' = connection_count + 1
          /\ Cardinality(connections) < MaxConns
          /\ UNCHANGED <<running, loop_count, read_conns, write_conns, closed>>
      BY <2>4 DEF AddConnection
    <3>3. /\ Cardinality(connections') <= MaxConns
          /\ connection_count' = Cardinality(connections')
      BY <3>1, <3>2, ReactorAssumption DEF BoundInv
    <3> QED
      BY <2>2, <3>2, <3>3 DEF BoundInv
  <2>5. CASE RefuseConnection
    BY <2>2, <2>3, <2>5 DEF RefuseConnection, BoundInv
  <2> QED
    BY <1>3, <2>4, <2>5
<1>4. CASE WaitAndClassify
  BY <1>4, WaitBound
<1>5. CASE ReadBytes
  BY <1>5 DEF ReadBytes, BoundInv
<1>6. CASE ReadFull \/ ReadAgain
  <2>1. Len(read_conns') <= MaxEvents
    BY <1>6, TailLength, ReactorAssumption
    DEF ReadFull, ReadAgain, ReadNext, RoundInv, BoundInv
  <2> QED
    BY <1>6, <2>1 DEF ReadFull, ReadAgain, ReadNext, BoundInv
<1>7. CASE ReadEnds
  <2>1. PICK c \in Conns : Close({c})
    BY <1>7, HeadTailProperties DEF ReadEnds, RoundInv
  <2>2. Len(read_conns') <= MaxEvents
    BY <1>7, TailLength, ReactorAssumption DEF ReadEnds, ReadNext, RoundInv, BoundInv
  <2>3. /\ Cardinality(connections') <= MaxConns
        /\ connection_count' = Cardinality(connections')
        /\ closed' \subseteq Conns
    BY <2>1, CloseCounts
  <2> QED
    BY <1>7, <2>2, <2>3 DEF ReadEnds, ReadNext, BoundInv
<1>8. CASE WriteBytes \/ WriteNothing
  <2>1. Len(write_conns') <= MaxEvents
    BY <1>8, TailLength, ReactorAssumption
    DEF WriteBytes, WriteNothing, WriteNext, RoundInv, BoundInv
  <2> QED
    BY <1>8, <2>1 DEF WriteBytes, WriteNothing, WriteNext, BoundInv
<1>9. CASE WriteFails
  <2>1. PICK c \in Conns : Close({c})
    BY <1>9, HeadTailProperties DEF WriteFails, RoundInv
  <2>2. Len(write_conns') <= MaxEvents
    BY <1>9, TailLength, ReactorAssumption DEF WriteFails, WriteNext, RoundInv, BoundInv
  <2>3. /\ Cardinality(connections') <= MaxConns
        /\ connection_count' = Cardinality(connections')
        /\ closed' \subseteq Conns
    BY <2>1, CloseCounts
  <2> QED
    BY <1>9, <2>2, <2>3 DEF WriteFails, WriteNext, BoundInv
<1>10. CASE Timer
  <2>1. PICK dead \in SUBSET Conns : Close(dead)
    BY <1>10 DEF Timer, TableInv
  <2>2. /\ Cardinality(connections') <= MaxConns
        /\ connection_count' = Cardinality(connections')
        /\ closed' \subseteq Conns
    BY <2>1, CloseCounts
  <2> QED
    BY <1>10, <2>2 DEF Timer, BoundInv
<1> QED
  BY <1>1, <1>2, <1>3, <1>4, <1>5, <1>6, <1>7, <1>8, <1>9, <1>10 DEF Loop

\* A sequence of at most n elements, as TypeOK says it.
LEMMA BoundedSequence ==
  ASSUME NEW S, NEW s \in Seq(S), NEW n \in Nat, Len(s) <= n
  PROVE  s \in UpTo(S, n)
<1>1. s \in [1 .. Len(s) -> S] /\ Len(s) \in 0 .. n
  BY LenProperties
<1> QED
  BY <1>1 DEF UpTo

\* The table, the batch, the lists and the buffers stay within their sizes and
\* the count is that of the table (reactor.c:111-118, 182, 197, 312).
THEOREM TypeCorrect == Spec => []TypeOK
<1>1. Init => BoundInv
  BY FS_EmptySet, ReactorAssumption DEF Init, BoundInv
<1>2. ThreadInv /\ Apart /\ BoundInv /\ [Next]_vars => BoundInv'
  <2> SUFFICES ASSUME ThreadInv, Apart, BoundInv, [Next]_vars
               PROVE  BoundInv'
    OBVIOUS
  <2>1. CASE Loop
    BY <2>1, LoopBound
  <2>2. CASE Environment \/ UNCHANGED vars
    <3>1. /\ running' \in BOOLEAN
          /\ UNCHANGED <<pc, loop_count, fds, listVars, connections, connection_count, closed>>
      BY <2>2 DEF Environment, Accept, ClientSend, ClientReceive, ClientFin, ClientReset, Age,
        Stop, vars, threadVars, connVars, kernelVars, BoundInv
    <3> QED
      BY <3>1 DEF BoundInv, listVars
  <2> QED
    BY <2>1, <2>2 DEF Next
<1>3. ThreadInv /\ BytesInv /\ BoundInv => TypeOK
  <2> SUFFICES ASSUME ThreadInv, BytesInv, BoundInv
               PROVE  TypeOK
    OBVIOUS
  <2>1. Batch \in Nat /\ MaxEvents \in Nat /\ BufSize \in Nat
    BY ReactorAssumption
  <2>2. /\ fds \in UpTo(Conns, Batch)
        /\ read_conns \in UpTo(Conns, MaxEvents)
        /\ write_conns \in UpTo(Conns, MaxEvents)
    BY <2>1, BoundedSequence DEF ThreadInv, TableInv, RoundInv, BoundInv
  <2>3. ASSUME NEW c \in Conns
        PROVE  conn[c] \in [read_buf   : UpTo(Byte, BufSize),
                            write_buf  : UpTo(Byte, BufSize),
                            write_sent : 0 .. BufSize]
    <3>1. PICK k \in ConnType : k = conn[c] /\ Fits(k)
      BY DEF BytesInv
    <3>2. /\ k.read_buf \in Seq(Byte) /\ k.write_buf \in Seq(Byte) /\ k.write_sent \in Nat
          /\ Len(k.read_buf) <= BufSize /\ Len(k.write_buf) <= BufSize
          /\ k.write_sent <= Len(k.write_buf) /\ Len(k.write_buf) \in Nat
      BY <3>1, LenProperties DEF ConnType, Fits
    <3>3. k.read_buf \in UpTo(Byte, BufSize) /\ k.write_buf \in UpTo(Byte, BufSize)
      BY <2>1, <3>2, BoundedSequence
    <3>4. k.write_sent \in 0 .. BufSize
      BY <2>1, <3>2
    <3> QED
      BY <3>1, <3>3, <3>4 DEF ConnType
  <2>4. conn \in [Conns -> [read_buf   : UpTo(Byte, BufSize),
                            write_buf  : UpTo(Byte, BufSize),
                            write_sent : 0 .. BufSize]]
    BY <2>3 DEF BytesInv
  <2>5. interest \in [Conns -> SUBSET {"in", "out"}]
    BY DEF ThreadInv, TableInv
  <2>6. accept_queue \in Seq(Conns) /\ ready \subseteq Conns
    BY DEF ThreadInv, TableInv
  <2> QED
    BY <2>2, <2>4, <2>5, <2>6 DEF TypeOK, ThreadInv, TableInv, BytesInv, BoundInv
<1> QED
  BY <1>1, <1>2, <1>3, StreamInvariance, PTL DEF Spec

-----------------------------------------------------------------------------
(***************************************************************************)
(* No wakeup is lost                                                       *)
(***************************************************************************)

Readable(s) == s.rx # <<>> \/ s.fin \/ s.err
Writable(s) == Room(s) > 0 \/ s.err

\* read_buf has no room left: handle_read_event gives up without a read
\* (reactor.c:182), and nothing but a reset or the timer ends the connection.
Full(k) == Len(k.read_buf) = BufSize

\* A connection waits for EPOLLOUT while it has a reply to send, and only then,
\* unless its read_buf is full.  If its socket is ready for what it waits for,
\* epoll or the round has it.
Attended(c) ==
  /\ Unsent(conn[c]) # <<>> => interest[c] = {"out"}
  /\ interest[c] = {"out"} => Unsent(conn[c]) # <<>> \/ Full(conn[c])
  /\ Unsent(conn[c]) # <<>> /\ Writable(sock[c]) => c \in ready \cup Range(write_conns)
  /\ interest[c] = {"in"} /\ Readable(sock[c])
       => c \in ready \cup Range(read_conns) \/ Full(conn[c])

\* What is written fits into the send space, and a buffer is never kept once it
\* is sent.
Pending(c) ==
  /\ Len(sock[c].out) <= SendSpace
  /\ conn[c].write_buf # <<>> => conn[c].write_sent < Len(conn[c].write_buf)

WakeOf(c) == Pending(c) /\ (c \in connections => Attended(c))

WakeInv == \A c \in Conns : WakeOf(c)

\* What epoll reports for a socket that waits for one direction.
LEMMA EventsOfOne ==
  ASSUME NEW s
  PROVE  /\ Events(s, {"in"}) # {} <=> Readable(s)
         /\ Events(s, {"out"}) # {} <=> Writable(s)
         /\ "in" \in Events(s, {"in"}) <=> Readable(s)
         /\ "out" \in Events(s, {"out"}) <=> Writable(s)
BY DEF Events, Poll, Readable, Writable

\* A connection nothing happens to, except that epoll gets it.
Same(c) ==
  /\ sock'[c] = sock[c] /\ conn'[c] = conn[c] /\ interest'[c] = interest[c]
  /\ c \in connections' => c \in connections
  /\ c \in ready \cup Range(read_conns) => c \in ready' \cup Range(read_conns')
  /\ c \in ready \cup Range(write_conns) => c \in ready' \cup Range(write_conns')

LEMMA WakeSame ==
  ASSUME NEW c \in Conns, WakeOf(c), Same(c)
  PROVE  WakeOf(c)'
BY DEF WakeOf, Attended, Pending, Same

\* What becomes of bytes behind read_buf: a reply, or read_buf is full.
LEMMA EchoedWaits ==
  ASSUME NEW k \in ConnType, Len(k.read_buf) \in Nat \ {0},
         Fits(Echoed(k)), Echoed(k) \in ConnType,
         k.write_buf # <<>> => k.write_sent < Len(k.write_buf),
         k.write_buf = <<>> => k.write_sent = 0
  PROVE  /\ Echoed(k).write_buf # <<>> => Echoed(k).write_sent < Len(Echoed(k).write_buf)
         /\ Unsent(Echoed(k)) # <<>> \/ Full(Echoed(k))
<1> DEFINE e == Echoed(k)
<1>1. CASE k.write_buf = <<>> /\ k.write_sent + Len(k.read_buf) < BufSize
  <2>1. e.write_buf = k.read_buf /\ e.write_sent = 0
    BY <1>1 DEF Echoed, ConnType
  <2>2. Len(Unsent(e)) = Len(k.read_buf)
    BY <2>1, UnsentType
  <2>3. Len(<<>>) = 0
    OBVIOUS
  <2> HIDE DEF e
  <2>4. Unsent(e) # <<>>
    BY <2>2, <2>3
  <2> QED
    BY <2>1, <2>4 DEF e
<1>2. CASE ~(k.write_buf = <<>> /\ k.write_sent + Len(k.read_buf) < BufSize)
  <2>1. e = k /\ Fits(k)
    BY <1>2 DEF Echoed
  <2>2. CASE k.write_buf = <<>>
    <3>1. k.write_sent = 0 /\ BufSize \in Nat
      BY <2>2, ReactorAssumption
    <3>2. Full(k)
      BY <1>2, <2>1, <2>2, <3>1 DEF Full, Fits
    <3> QED
      BY <2>1, <2>2, <3>2
  <2>3. CASE k.write_buf # <<>>
    <3>1. Len(Unsent(k)) = Len(k.write_buf) - k.write_sent
      BY <2>1, UnsentType
    <3>2. Len(k.write_buf) \in Nat /\ k.write_sent \in Nat /\ k.write_sent < Len(k.write_buf)
      BY <2>3, LenProperties DEF ConnType
    <3>3. Len(Unsent(k)) # 0 /\ Len(<<>>) = 0
      BY <3>1, <3>2
    <3>4. Unsent(k) # <<>>
      BY <3>3
    <3> QED
      BY <2>1, <3>2, <3>4
  <2> QED
    BY <2>2, <2>3
<1> QED
  BY <1>1, <1>2

\* handle_read_event has taken bytes for a connection that waits for EPOLLOUT now.
LEMMA ReadWaits ==
  ASSUME NEW k \in ConnType, Fits(k), NEW s \in SocketType(Byte),
         k.write_buf # <<>> => k.write_sent < Len(k.write_buf),
         NEW remaining, remaining = BufSize - Len(k.read_buf), Take(s, remaining) # <<>>,
         NEW e, e = Echoed(Received(k, Take(s, remaining)))
  PROVE  /\ e.write_buf # <<>> => e.write_sent < Len(e.write_buf)
         /\ Unsent(e) # <<>> \/ Full(e)
<1> DEFINE m == Smaller(remaining, Len(s.rx))
           bytes == Take(s, remaining)
           k2 == Received(k, bytes)
<1>1. /\ k.read_buf \in Seq(Byte) /\ Len(k.read_buf) \in Nat
      /\ s.rx \in Seq(Byte) /\ Len(s.rx) \in Nat
      /\ remaining \in Nat /\ BufSize \in Nat
  BY LenProperties, ReactorAssumption DEF ConnType, SocketType, Fits
<1>2. m \in 0 .. Len(s.rx)
  BY <1>1 DEF Smaller
<1>3. bytes \in Seq(Byte)
  <2>1. bytes = SubSeq(s.rx, 1, m)
    BY DEF Take
  <2> HIDE DEF bytes, m
  <2> QED
    BY <1>1, <1>2, <2>1, FrontAndDrop
<1>4. bytes # <<>>
  OBVIOUS
<1>5. e = Echoed(k2)
  OBVIOUS
<1>6. e \in ConnType /\ Fits(e)
  BY ReadKeeps
<1> HIDE DEF bytes, m
<1>7. Len(bytes) \in Nat \ {0}
  BY <1>3, <1>4, EmptySeq, LenProperties
<1>8. /\ k2 \in ConnType /\ k2.read_buf = k.read_buf \o bytes
      /\ k2.write_buf = k.write_buf /\ k2.write_sent = k.write_sent
      /\ Len(k.read_buf \o bytes) = Len(k.read_buf) + Len(bytes)
  <2>1. /\ k.read_buf \o bytes \in Seq(Byte)
        /\ Len(k.read_buf \o bytes) = Len(k.read_buf) + Len(bytes)
    BY <1>1, <1>3, ConcatProperties
  <2> QED
    BY <2>1 DEF ConnType, Received
<1> HIDE DEF k2
<1>9. Len(k2.read_buf) \in Nat \ {0}
  BY <1>1, <1>7, <1>8
<1>10. k2.write_buf = <<>> => k2.write_sent = 0
  BY <1>8, UnsentType
<1> QED
  BY <1>5, <1>6, <1>8, <1>9, <1>10, EchoedWaits

\* write leaves nothing unsent or fills the send space.
LEMMA WriteWaits ==
  ASSUME NEW k \in ConnType, Fits(k), NEW s \in SocketType(Byte),
         Len(s.out) <= SendSpace,
         NEW n, n = Len(Put(s, Unsent(k))), n > 0,
         NEW s2, s2 = AfterWrite(s, Unsent(k)),
         NEW e, Advances(k, n, e)
  PROVE  /\ Len(s2.out) <= SendSpace
         /\ e.write_buf # <<>> => e.write_sent < Len(e.write_buf)
         /\ k.write_sent + n < Len(k.write_buf)
              => Room(s2) = 0 /\ Unsent(k) # <<>> /\ Unsent(e) # <<>>
         /\ k.write_sent + n >= Len(k.write_buf) => Unsent(e) = <<>>
<1> DEFINE u == Unsent(k)
           m == Smaller(Room(s), Len(u))
           bytes == Put(s, u)
<1>1. /\ k.write_buf \in Seq(Byte) /\ k.write_sent \in Nat /\ Len(k.write_buf) \in Nat
      /\ s.out \in Seq(Byte) /\ Len(s.out) \in Nat /\ SendSpace \in Nat
      /\ Room(s) \in Nat /\ Room(s) = SendSpace - Len(s.out)
  BY LenProperties, SendSpaceAssumption DEF ConnType, SocketType, Room
<1>2. u \in Seq(Byte) /\ Len(u) = Len(k.write_buf) - k.write_sent /\ Len(u) \in Nat
  BY UnsentType, LenProperties
<1>3. m \in 0 .. Len(u) /\ m <= Room(s) /\ (m < Len(u) => m = Room(s))
  <2>1. PICK a \in Nat, b \in Nat : a = Room(s) /\ b = Len(u)
    BY <1>1, <1>2
  <2>2. /\ Smaller(a, b) \in 0 .. b /\ Smaller(a, b) <= a
        /\ Smaller(a, b) < b => Smaller(a, b) = a
    BY DEF Smaller
  <2> QED
    BY <2>1, <2>2
<1>4. bytes \in Seq(Byte) /\ Len(bytes) = m
  <2>1. bytes = SubSeq(u, 1, m) /\ u \in Seq(Byte)
    BY <1>2 DEF Put
  <2> HIDE DEF bytes, m, u
  <2> QED
    BY <1>3, <2>1, FrontAndDrop
<1>5. n = m
  BY <1>4
<1>6. s2.out = s.out \o bytes /\ Len(s.out \o bytes) = Len(s.out) + m
  <2>1. s2.out = s.out \o bytes
    BY DEF AfterWrite, SocketType
  <2> HIDE DEF bytes, m, u
  <2> QED
    BY <1>1, <1>4, <2>1, ConcatProperties
<1>7. e \in ConnType /\ Fits(e)
  BY WriteKeeps
<1> HIDE DEF m, u, bytes
<1>8. Len(s2.out) <= SendSpace
  BY <1>1, <1>3, <1>6
<1>9. ASSUME k.write_sent + n < Len(k.write_buf)
      PROVE  /\ Room(s2) = 0 /\ e.write_sent < Len(e.write_buf)
             /\ Unsent(k) # <<>> /\ Unsent(e) # <<>>
  <2>1. m < Len(u)
    BY <1>1, <1>2, <1>3, <1>5, <1>9
  <2>2. Room(s2) = 0
    BY <1>1, <1>3, <1>6, <2>1 DEF Room
  <2>3. e = [k EXCEPT !.write_sent = @ + n]
    BY <1>1, <1>3, <1>5, <1>9 DEF Advances
  <2>4. e.write_sent = k.write_sent + n /\ e.write_buf = k.write_buf
    BY <2>3 DEF ConnType
  <2>5. Len(u) # 0 /\ Len(<<>>) = 0
    BY <1>2, <1>3, <2>1
  <2>6. Unsent(k) # <<>>
    BY <2>5 DEF u
  <2>7. Len(Unsent(e)) = Len(k.write_buf) - (k.write_sent + n)
    BY <1>7, <2>4, UnsentType
  <2>8. Len(Unsent(e)) # 0
    BY <1>1, <1>3, <1>5, <1>9, <2>7
  <2> QED
    BY <1>9, <2>2, <2>4, <2>5, <2>6, <2>8
<1>10. ASSUME k.write_sent + n >= Len(k.write_buf)
      PROVE  e.write_buf = <<>> /\ Unsent(e) = <<>>
  <2>1. e = [k EXCEPT !.write_buf = <<>>, !.write_sent = 0]
    BY <1>1, <1>3, <1>5, <1>10 DEF Advances
  <2>2. e.write_buf = <<>>
    BY <2>1 DEF ConnType
  <2> QED
    BY <1>7, <2>2, UnsentType
<1>11. k.write_sent + n < Len(k.write_buf) \/ k.write_sent + n >= Len(k.write_buf)
  BY <1>1, <1>3, <1>5
<1> QED
  BY <1>8, <1>9, <1>10, <1>11

\* Connections are closed; epoll and the round keep all others.
LEMMA CloseWakes ==
  ASSUME BytesInv, WakeInv, NEW dead, Close(dead), UNCHANGED sock,
         \A c \in Conns \ dead :
           /\ c \in ready \cup Range(read_conns) => c \in ready' \cup Range(read_conns')
           /\ c \in ready \cup Range(write_conns) => c \in ready' \cup Range(write_conns')
  PROVE  WakeInv'
<1>1. ASSUME NEW c \in Conns
      PROVE  WakeOf(c)'
  <2>1. CASE c \in dead
    <3>1. c \notin connections' /\ conn'[c] = NewConn /\ sock'[c] = sock[c]
      BY <2>1 DEF Close
    <3> QED
      BY <3>1 DEF WakeInv, WakeOf, Pending, NewConn
  <2>2. CASE c \notin dead
    <3>1. Same(c)
      BY <2>2 DEF Close, Same
    <3> QED
      BY <3>1, WakeSame DEF WakeInv
  <2> QED
    BY <2>1, <2>2
<1> QED
  BY <1>1 DEF WakeInv

\* epoll_wait hands over what it reports and keeps the rest.
LEMMA WaitWakes ==
  ASSUME ThreadInv, BytesInv, WakeInv, WaitAndClassify
  PROVE  WakeInv'
<1> DEFINE events == [c \in Conns |-> Events(sock[c], interest[c])]
           due == {c \in ready : events[c] # {}}
<1>1. PICK reported \in SUBSET due, dead \in SUBSET Conns :
        /\ dead = {c \in reported : "err" \in events[c]}
        /\ Close(dead)
        /\ ready' = due \ reported
        /\ read_conns' \in ListsOf({c \in reported \ dead : "in" \in events[c]})
        /\ write_conns' \in ListsOf({c \in reported \ dead : "out" \in events[c]})
  BY DEF WaitAndClassify, ThreadInv, TableInv
<1> DEFINE ins == {c \in reported \ dead : "in" \in events[c]}
           outs == {c \in reported \ dead : "out" \in events[c]}
<1>2. IsFiniteSet(ins) /\ IsFiniteSet(outs)
  BY FS_Subset DEF ThreadInv, TableInv
<1>3. Range(read_conns') = ins /\ Range(write_conns') = outs
  <2>1. read_conns' \in ListsOf(ins) /\ write_conns' \in ListsOf(outs)
    BY <1>1
  <2> HIDE DEF ins, outs
  <2> QED
    BY <1>2, <2>1, ListOfSet DEF ListsOf
<1>4. /\ UNCHANGED sock
      /\ Range(read_conns) = {} /\ Range(write_conns) = {}
  BY RangeEmpty DEF WaitAndClassify, ThreadInv, RoundInv
<1>5. ASSUME NEW c \in Conns
      PROVE  WakeOf(c)'
  <2>1. CASE c \in dead
    <3>1. c \notin connections' /\ conn'[c] = NewConn /\ sock'[c] = sock[c]
      BY <1>1, <1>4, <2>1 DEF Close
    <3> QED
      BY <3>1 DEF WakeInv, WakeOf, Pending, NewConn
  <2>2. CASE c \notin dead
    <3>1. /\ sock'[c] = sock[c] /\ conn'[c] = conn[c] /\ interest'[c] = interest[c]
          /\ c \in connections' => c \in connections
      BY <1>1, <1>4, <2>2 DEF Close
    <3>2. Pending(c)'
      BY <3>1 DEF WakeInv, WakeOf, Pending
    <3>3. ASSUME c \in connections'
          PROVE  Attended(c)'
      <4>1. Attended(c)
        BY <3>1, <3>3 DEF WakeInv, WakeOf
      <4>2. CASE interest[c] = {"out"} /\ Unsent(conn[c]) # <<>> /\ Writable(sock[c])
        <5>1. c \in ready /\ events[c] # {} /\ "out" \in events[c]
          BY <1>4, <4>1, <4>2, EventsOfOne DEF Attended
        <5>2. c \in ready' \cup Range(write_conns')
          BY <1>1, <1>3, <2>2, <5>1
        <5> QED
          BY <3>1, <4>1, <4>2, <5>2 DEF Attended
      <4>3. CASE interest[c] = {"in"} /\ Readable(sock[c]) /\ ~Full(conn[c])
        <5>1. c \in ready /\ events[c] # {} /\ "in" \in events[c]
          BY <1>4, <4>1, <4>3, EventsOfOne DEF Attended
        <5>2. c \in ready' \cup Range(read_conns')
          BY <1>1, <1>3, <2>2, <5>1
        <5> QED
          BY <3>1, <4>1, <4>3, <5>2 DEF Attended
      <4> QED
        BY <3>1, <4>1, <4>2, <4>3 DEF Attended
    <3> QED
      BY <3>2, <3>3 DEF WakeOf
  <2> QED
    BY <2>1, <2>2
<1> QED
  BY <1>5 DEF WakeInv

\* A connection is entered: EPOLL_CTL_ADD polls it.
LEMMA AddWakes ==
  ASSUME ThreadInv, BytesInv, WakeInv, AddConnection
  PROVE  WakeInv'
<1>1. PICK c \in Conns : c = Head(fds)
  BY HeadTailProperties DEF ThreadInv, TableInv, AddConnection
<1>2. /\ connections' = connections \cup {c}
      /\ conn' = [conn EXCEPT ![c] = NewConn]
      /\ Arm(c, sock[c], {"in"})
      /\ UNCHANGED <<sock, read_conns, write_conns>>
  BY <1>1 DEF AddConnection, listVars
<1>3. ASSUME NEW d \in Conns \ {c}
      PROVE  WakeOf(d)'
  <2>1. Same(d)
    BY <1>2 DEF Same, Arm
  <2> QED
    BY <2>1, WakeSame DEF WakeInv
<1>4. WakeOf(c)'
  <2>1. /\ sock'[c] = sock[c] /\ conn'[c] = NewConn /\ interest'[c] = {"in"}
        /\ Readable(sock[c]) => c \in ready'
    BY <1>2, EventsOfOne DEF Arm, BytesInv, ThreadInv, TableInv
  <2>2. Unsent(NewConn) = <<>>
    BY UnsentType, NewConnType DEF NewConn
  <2> QED
    BY <2>1, <2>2 DEF WakeInv, WakeOf, Pending, Attended, NewConn
<1> QED
  BY <1>3, <1>4 DEF WakeInv

\* Bytes are read, and the connection waits for EPOLLOUT.
LEMMA ReadWakes ==
  ASSUME ThreadInv, BytesInv, WakeInv, ReadBytes
  PROVE  WakeInv'
<1>1. PICK c \in Conns : c = Head(read_conns) /\ c \in connections
  BY HeadInRange DEF ReadBytes, ThreadInv, RoundInv, TableInv
<1>2. PICK k \in ConnType : k = conn[c] /\ Fits(k)
  BY DEF BytesInv
<1>3. PICK s0 \in SocketType(Byte) : s0 = sock[c]
  BY DEF BytesInv
<1> DEFINE remaining == BufSize - Len(k.read_buf)
           e == Echoed(Received(k, Take(s0, remaining)))
           s == AfterRead(s0, remaining)
<1>4. /\ Take(s0, remaining) # <<>>
      /\ sock' = [sock EXCEPT ![c] = s]
      /\ conn' = [conn EXCEPT ![c] = e]
      /\ Arm(c, s, {"out"})
      /\ UNCHANGED <<connections, read_conns, write_conns>>
  <2>1. /\ Take(sock[c], BufSize - Len(conn[c].read_buf)) # <<>>
        /\ sock' = [sock EXCEPT ![c] = AfterRead(sock[c], BufSize - Len(conn[c].read_buf))]
        /\ Arm(c, AfterRead(sock[c], BufSize - Len(conn[c].read_buf)), {"out"})
    BY <1>1 DEF ReadBytes
  <2>2. conn' = [conn EXCEPT ![c] =
          Echoed(Received(conn[c], Take(sock[c], BufSize - Len(conn[c].read_buf))))]
    BY <1>1 DEF ReadBytes
  <2>3. UNCHANGED <<connections, read_conns, write_conns>>
    BY DEF ReadBytes, listVars
  <2> QED
    BY <1>2, <1>3, <2>1, <2>2, <2>3
<1>5. /\ e.write_buf # <<>> => e.write_sent < Len(e.write_buf)
      /\ Unsent(e) # <<>> \/ Full(e)
      /\ s.out = s0.out
  <2>1. /\ remaining = BufSize - Len(k.read_buf)
        /\ e = Echoed(Received(k, Take(s0, remaining)))
        /\ s = AfterRead(s0, remaining)
        /\ Take(s0, remaining) # <<>>
    BY <1>4
  <2>2. k.write_buf # <<>> => k.write_sent < Len(k.write_buf)
    BY <1>2 DEF WakeInv, WakeOf, Pending
  <2> HIDE DEF remaining, e, s
  <2>3. s.out = s0.out
    BY <1>2, <2>1, ReadKeeps
  <2> QED
    BY <1>2, <2>1, <2>2, <2>3, ReadWaits
<1> HIDE DEF e, s
<1>6. /\ sock'[c] = s /\ conn'[c] = e /\ interest'[c] = {"out"}
      /\ Writable(s) => c \in ready'
  BY <1>4, EventsOfOne DEF Arm, BytesInv, ThreadInv, TableInv
<1>7. WakeOf(c)'
  <2>1. Len(s.out) <= SendSpace
    BY <1>3, <1>5 DEF WakeInv, WakeOf, Pending
  <2> QED
    BY <1>5, <1>6, <2>1 DEF WakeOf, Pending, Attended
<1>8. ASSUME NEW d \in Conns \ {c}
      PROVE  WakeOf(d)'
  <2>1. Same(d)
    BY <1>4 DEF Same, Arm
  <2> QED
    BY <2>1, WakeSame DEF WakeInv
<1> QED
  BY <1>7, <1>8 DEF WakeInv

\* The first connection of the write list has written, and is off the list.
LEMMA WriteWakes ==
  ASSUME ThreadInv, BytesInv, WakeInv, WriteBytes
  PROVE  WakeInv'
<1>1. PICK c \in Conns :
        /\ c = Head(write_conns) /\ c \in connections
        /\ Range(write_conns) = {c} \cup Range(Tail(write_conns))
  BY HeadInRange, RangeTail DEF WriteBytes, ThreadInv, RoundInv, TableInv
<1>2. PICK k \in ConnType : k = conn[c] /\ Fits(k)
  BY DEF BytesInv
<1>3. PICK s0 \in SocketType(Byte) : s0 = sock[c]
  BY DEF BytesInv
<1> DEFINE n == Len(Put(s0, Unsent(k)))
           s == AfterWrite(s0, Unsent(k))
<1>4. PICK e :
        /\ Advances(k, n, e)
        /\ conn' = [conn EXCEPT ![c] = e]
        /\ \/ /\ k.write_sent + n < Len(k.write_buf)
              /\ e = [k EXCEPT !.write_sent = @ + n]
              /\ UNCHANGED <<interest, ready>>
           \/ k.write_sent + n >= Len(k.write_buf) /\ Arm(c, s, {"in"})
  BY <1>1, <1>2, <1>3 DEF WriteBytes, BytesInv, Advances
<1>5. /\ ~s0.err /\ n > 0
      /\ sock' = [sock EXCEPT ![c] = s]
      /\ write_conns' = Tail(write_conns)
      /\ UNCHANGED <<connections, read_conns>>
  BY <1>1, <1>2, <1>3 DEF WriteBytes, WriteNext
<1>6. /\ Len(s.out) <= SendSpace
      /\ e.write_buf # <<>> => e.write_sent < Len(e.write_buf)
      /\ k.write_sent + n < Len(k.write_buf)
           => Room(s) = 0 /\ Unsent(k) # <<>> /\ Unsent(e) # <<>>
      /\ k.write_sent + n >= Len(k.write_buf) => Unsent(e) = <<>>
      /\ s.rx = s0.rx /\ s.err = s0.err
  <2>1. n = Len(Put(s0, Unsent(k))) /\ s = AfterWrite(s0, Unsent(k))
    OBVIOUS
  <2>2. Len(s0.out) <= SendSpace
    BY <1>3 DEF WakeInv, WakeOf, Pending
  <2> HIDE DEF n, s
  <2>3. s.rx = s0.rx /\ s.err = s0.err
    BY <1>2, <1>4, <1>5, <2>1, WriteKeeps
  <2> QED
    BY <1>2, <1>4, <1>5, <2>1, <2>2, <2>3, WriteWaits
<1> HIDE DEF n, s
<1>7. sock'[c] = s /\ conn'[c] = e
  BY <1>4, <1>5 DEF BytesInv
<1>8. Attended(c)'
  <2>1. CASE /\ k.write_sent + n < Len(k.write_buf)
             /\ e = [k EXCEPT !.write_sent = @ + n]
             /\ UNCHANGED <<interest, ready>>
    <3>1. ~Writable(s)
      BY <1>5, <1>6, <2>1 DEF Writable
    <3>2. Unsent(k) # <<>> /\ Unsent(e) # <<>>
      BY <1>6, <2>1
    <3>3. interest[c] = {"out"}
      BY <1>1, <1>2, <3>2 DEF WakeInv, WakeOf, Attended
    <3> QED
      BY <1>7, <2>1, <3>1, <3>2, <3>3 DEF Attended
  <2>2. CASE k.write_sent + n >= Len(k.write_buf) /\ Arm(c, s, {"in"})
    <3>1. /\ Unsent(e) = <<>> /\ interest'[c] = {"in"}
          /\ Readable(s) => c \in ready'
      BY <1>6, <2>2, EventsOfOne DEF Arm, ThreadInv, TableInv
    <3> QED
      BY <1>7, <3>1 DEF Attended
  <2> QED
    BY <1>4, <2>1, <2>2
<1>9. WakeOf(c)'
  BY <1>6, <1>7, <1>8 DEF WakeOf, Pending
<1>10. ASSUME NEW d \in Conns \ {c}
       PROVE  WakeOf(d)'
  <2>1. interest'[d] = interest[d] /\ ready \subseteq ready'
    BY <1>4 DEF Arm, ThreadInv, TableInv
  <2>2. conn'[d] = conn[d] /\ sock'[d] = sock[d]
    BY <1>4, <1>5
  <2>3. Same(d)
    BY <1>1, <1>5, <2>1, <2>2 DEF Same
  <2> QED
    BY <2>3, WakeSame DEF WakeInv
<1> QED
  BY <1>9, <1>10 DEF WakeInv

\* The steps of the loop keep every connection attended to.
LEMMA LoopWakes ==
  ASSUME ThreadInv, BytesInv, WakeInv, Loop
  PROVE  WakeInv'
<1> USE DEF threadVars, connVars, kernelVars, listVars, clientVars
<1>1. CASE \/ Exit \/ WaitInterrupted \/ WaitFails \/ PopNew \/ PopNothing \/ RefuseConnection
           \/ ReadsDone \/ WritesDone
  <2>1. UNCHANGED <<sock, conn, interest, connections, ready, read_conns, write_conns>>
    BY <1>1 DEF Exit, WaitInterrupted, WaitFails, PopNew, PopNothing, PopBatch,
      RefuseConnection, ReadsDone, WritesDone
  <2> QED
    BY <2>1 DEF WakeInv, WakeOf, Attended, Pending
<1>2. CASE AddConnection
  BY <1>2, AddWakes
<1>3. CASE WaitAndClassify
  BY <1>3, WaitWakes
<1>4. CASE ReadBytes
  BY <1>4, ReadWakes
<1>5. CASE WriteBytes
  BY <1>5, WriteWakes
<1>6. CASE ReadFull \/ ReadAgain \/ ReadEnds
  <2>1. PICK c \in Conns :
          /\ c = Head(read_conns)
          /\ Range(read_conns) = {c} \cup Range(Tail(read_conns))
    BY <1>6, HeadInRange, RangeTail DEF ReadFull, ReadAgain, ReadEnds, ThreadInv, RoundInv,
      TableInv
  <2>2. /\ read_conns' = Tail(read_conns)
        /\ UNCHANGED <<sock, write_conns>>
    BY <1>6 DEF ReadFull, ReadAgain, ReadEnds, ReadNext
  <2>3. CASE ReadEnds
    <3>1. Close({c}) /\ ready' = ready \ {c}
      BY <2>1, <2>3 DEF ReadEnds
    <3> QED
      BY <2>1, <2>2, <3>1, CloseWakes
  <2>4. CASE ReadFull \/ ReadAgain
    <3>1. UNCHANGED <<conn, interest, connections, ready>>
      BY <2>4 DEF ReadFull, ReadAgain
    <3>2. Full(conn[c]) \/ ~Readable(sock[c])
      BY <2>1, <2>4 DEF ReadFull, ReadAgain, Full, Readable
    <3>3. WakeOf(c)'
      BY <2>2, <3>1, <3>2 DEF WakeInv, WakeOf, Attended, Pending
    <3>4. \A d \in Conns \ {c} : Same(d)
      BY <2>1, <2>2, <3>1 DEF Same
    <3> QED
      BY <3>3, <3>4, WakeSame DEF WakeInv
  <2> QED
    BY <1>6, <2>3, <2>4
<1>7. CASE WriteNothing \/ WriteFails
  <2>1. PICK c \in Conns :
          /\ c = Head(write_conns)
          /\ Range(write_conns) = {c} \cup Range(Tail(write_conns))
    BY <1>7, HeadInRange, RangeTail DEF WriteNothing, WriteFails, ThreadInv, RoundInv, TableInv
  <2>2. /\ write_conns' = Tail(write_conns)
        /\ UNCHANGED <<sock, read_conns>>
    BY <1>7 DEF WriteNothing, WriteFails, WriteNext
  <2>3. CASE WriteFails
    <3>1. Close({c}) /\ ready' = ready \ {c}
      BY <2>1, <2>3 DEF WriteFails
    <3> QED
      BY <2>1, <2>2, <3>1, CloseWakes
  <2>4. CASE WriteNothing
    <3>1. UNCHANGED <<conn, interest, connections, ready>> /\ Unsent(conn[c]) = <<>>
      BY <2>1, <2>4 DEF WriteNothing
    <3>2. WakeOf(c)'
      BY <2>2, <3>1 DEF WakeInv, WakeOf, Attended, Pending
    <3>3. \A d \in Conns \ {c} : Same(d)
      BY <2>1, <2>2, <3>1 DEF Same
    <3> QED
      BY <3>2, <3>3, WakeSame DEF WakeInv
  <2> QED
    BY <1>7, <2>3, <2>4
<1>8. CASE Timer
  <2>1. PICK dead \in SUBSET Conns : Close(dead) /\ ready' = ready \ dead
    BY <1>8 DEF Timer, ThreadInv, TableInv
  <2>2. UNCHANGED <<sock, read_conns, write_conns>>
    BY <1>8 DEF Timer
  <2> QED
    BY <2>1, <2>2, CloseWakes
<1> QED
  BY <1>1, <1>2, <1>3, <1>4, <1>5, <1>6, <1>7, <1>8 DEF Loop

\* The clients wake the connections that wait for what they do.
LEMMA ClientWakes ==
  ASSUME ThreadInv, BytesInv, WakeInv, NEW c \in Conns,
         ClientSend(c) \/ ClientReceive(c) \/ ClientFin(c) \/ ClientReset(c)
  PROVE  WakeInv'
<1>1. /\ UNCHANGED <<conn, interest, connections, read_conns, write_conns>>
      /\ ready \subseteq ready'
  BY DEF ClientSend, ClientReceive, ClientFin, ClientReset, Wake, connVars, listVars
<1>2. ASSUME NEW d \in Conns \ {c}
      PROVE  WakeOf(d)'
  <2>1. sock'[d] = sock[d]
    BY DEF ClientSend, ClientReceive, ClientFin, ClientReset, BytesInv
  <2>2. Same(d)
    BY <1>1, <2>1 DEF Same
  <2> QED
    BY <2>2, WakeSame DEF WakeInv
<1>3. PICK s0 \in SocketType(Byte) : s0 = sock[c]
  BY DEF BytesInv
<1>4. Len(s0.out) \in Nat /\ Len(s0.out) <= SendSpace /\ SendSpace \in Nat
  BY <1>3, LenProperties, SendSpaceAssumption DEF SocketType, WakeInv, WakeOf, Pending
<1>5. PICK s : s = sock'[c] /\ sock' = [sock EXCEPT ![c] = s]
  BY DEF ClientSend, ClientReceive, ClientFin, ClientReset, BytesInv
<1>6. interest[c] \in {{}, {"in"}, {"out"}}
      /\ (c \in connections => interest[c] # {})
  BY DEF ThreadInv, TableInv
<1>7. CASE ClientSend(c) \/ ClientFin(c)
  <2>1. s.out = s0.out /\ s.err = s0.err
    BY <1>3, <1>5, <1>7 DEF ClientSend, ClientFin, BytesInv, SocketType
  <2>2. interest[c] = {"in"} => c \in ready'
    BY <1>7 DEF ClientSend, ClientFin, Wake
  <2>3. WakeOf(c)'
    BY <1>1, <1>3, <1>5, <2>1, <2>2 DEF WakeInv, WakeOf, Pending, Attended, Writable, Room
  <2> QED
    BY <1>2, <2>3 DEF WakeInv
<1>8. CASE ClientReceive(c)
  <2>1. /\ s0.out # <<>> /\ s = [s0 EXCEPT !.out = Tail(s0.out)]
        /\ Wake(c, IF Room(s0) = 0 THEN {"out"} ELSE {})
    BY <1>3, <1>5, <1>8 DEF ClientReceive, BytesInv
  <2>2. /\ s.out = Tail(s0.out) /\ s.rx = s0.rx /\ s.fin = s0.fin /\ s.err = s0.err
        /\ Len(Tail(s0.out)) = Len(s0.out) - 1
    <3>1. s0.out \in Seq(Byte)
      BY DEF SocketType
    <3> QED
      BY <2>1, <3>1, HeadTailProperties DEF SocketType
  <2>3. Len(s.out) <= SendSpace
    BY <1>4, <2>2
  <2>4. interest[c] = {"out"} => c \in ready' \/ Writable(s0)
    <3>1. Room(s0) = 0 \/ Room(s0) > 0
      BY <1>4 DEF Room
    <3> QED
      BY <2>1, <3>1 DEF Wake, Writable
  <2>5. WakeOf(c)'
    BY <1>1, <1>3, <1>5, <2>2, <2>3, <2>4 DEF WakeInv, WakeOf, Pending, Attended, Readable
  <2> QED
    BY <1>2, <2>5 DEF WakeInv
<1>9. CASE ClientReset(c)
  <2>1. s = [s0 EXCEPT !.err = TRUE, !.out = <<>>]
    BY <1>3, <1>5, <1>9 DEF ClientReset, BytesInv
  <2>2. Len(s.out) <= SendSpace
    <3>1. s.out = <<>> /\ Len(<<>>) = 0
      BY <2>1 DEF SocketType
    <3> QED
      BY <1>4, <3>1
  <2>3. c \in connections => c \in ready'
    BY <1>6, <1>9 DEF ClientReset, Wake
  <2>4. WakeOf(c)'
    BY <1>1, <1>5, <2>2, <2>3 DEF WakeInv, WakeOf, Pending, Attended
  <2> QED
    BY <1>2, <2>4 DEF WakeInv
<1> QED
  BY <1>7, <1>8, <1>9

\* What is due is in hand: a connection with a reply to send waits for EPOLLOUT,
\* and is due as soon as its socket takes a byte; one without waits for EPOLLIN,
\* and is due as soon as there is something to read, unless its read_buf is full.
NoWakeupLost ==
  \A c \in connections :
    LET due == c \in ready \cup Range(read_conns) \cup Range(write_conns) IN
      /\ Unsent(conn[c]) # <<>> =>
           interest[c] = {"out"} /\ (due \/ ~Writable(sock[c]))
      /\ Unsent(conn[c]) = <<>> /\ ~Full(conn[c]) =>
           interest[c] = {"in"} /\ (due \/ ~Readable(sock[c]))

\* No wakeup is lost by the edge triggers, for every number of connections and
\* bytes and all sizes: each EPOLL_CTL_MOD comes after what the loop read or wrote,
\* so that the poll it does, or a later edge, reports what the client has done in
\* between (reactor.c:107-155, 178-272).  Only a connection whose read_buf is full
\* can stall with bytes at hand.
THEOREM WakeupsKept == Spec => []NoWakeupLost
<1>1. Init => WakeInv
  <2> SUFFICES ASSUME Init, NEW c \in Conns
               PROVE  WakeOf(c)
    BY DEF WakeInv
  <2>1. c \notin connections /\ sock[c] = NewSocket /\ conn[c] = NewConn
    BY DEF Init
  <2>2. Len(<<>>) = 0 /\ SendSpace \in Nat
    BY SendSpaceAssumption
  <2> QED
    BY <2>1, <2>2 DEF WakeOf, Pending, NewSocket, NewConn
<1>2. ThreadInv /\ BytesInv /\ WakeInv /\ [Next]_vars => WakeInv'
  <2> SUFFICES ASSUME ThreadInv, BytesInv, WakeInv, [Next]_vars
               PROVE  WakeInv'
    OBVIOUS
  <2>1. CASE Loop
    BY <2>1, LoopWakes
  <2>2. ASSUME NEW c \in Conns,
               ClientSend(c) \/ ClientReceive(c) \/ ClientFin(c) \/ ClientReset(c)
        PROVE  WakeInv'
    BY <2>2, ClientWakes
  <2>3. CASE (\E c \in Conns : Accept(c) \/ Age(c)) \/ Stop \/ UNCHANGED vars
    <3>1. UNCHANGED <<sock, conn, interest, connections, ready, read_conns, write_conns>>
      BY <2>3 DEF Accept, Age, Stop, vars, connVars, kernelVars, listVars
    <3> QED
      BY <3>1 DEF WakeInv, WakeOf, Attended, Pending
  <2> QED
    BY <2>1, <2>2, <2>3 DEF Next, Environment
<1>3. ThreadInv /\ WakeInv => NoWakeupLost
  BY DEF ThreadInv, TableInv, WakeInv, WakeOf, Attended, NoWakeupLost
<1> QED
  BY <1>1, <1>2, <1>3, StreamInvariance, PTL DEF Spec

=============================================================================
