------------------------------ MODULE Sockets ------------------------------
(***************************************************************************)
(* The connected TCP sockets of a server as its epoll loops see them: what *)
(* read, write and the poll mask of a socket return.  A byte is named by   *)
(* its position in the client's stream.  External to the repository:       *)
(* modelled from how reactor.c uses read, write and epoll.                 *)
(*                                                                         *)
(* A socket whose send space was used up raises an edge with its next free *)
(* byte: the kernel remembers a short write, and a poll that finds no      *)
(* space, in SOCK_NOSPACE.                                                 *)
(***************************************************************************)
EXTENDS Naturals, Sequences

CONSTANT SendSpace      \* bytes the kernel takes before write returns EAGAIN

ASSUME SendSpaceAssumption == SendSpace \in Nat \ {0}

\* rx: received and not yet read; fin: the client has shut down its side; err:
\* the connection was reset; out: written and not yet read by the client.
NewSocket == [rx |-> <<>>, fin |-> FALSE, err |-> FALSE, out |-> <<>>]

SocketType(Byte) ==
  [rx : Seq(Byte), fin : BOOLEAN, err : BOOLEAN, out : Seq(Byte)]

Room(s) == SendSpace - Len(s.out)

\* The poll mask: "err" stands for EPOLLERR | EPOLLHUP.
Poll(s) ==
  {e \in {"in", "out", "err"} :
     \/ s.err
     \/ e = "in" /\ (s.rx # <<>> \/ s.fin)
     \/ e = "out" /\ Room(s) > 0}

\* What epoll reports for a socket with this interest.
Events(s, interest) == Poll(s) \cap (interest \cup {"err"})

Smaller(m, n) == IF m < n THEN m ELSE n

\* A successful read or write moves these many bytes.
Take(s, n) == SubSeq(s.rx, 1, Smaller(n, Len(s.rx)))
Put(s, bytes) == SubSeq(bytes, 1, Smaller(Room(s), Len(bytes)))

Drop(seq, n) == SubSeq(seq, n + 1, Len(seq))

AfterRead(s, n) == [s EXCEPT !.rx = Drop(s.rx, Smaller(n, Len(s.rx)))]

AfterWrite(s, bytes) == [s EXCEPT !.out = @ \o Put(s, bytes)]

=============================================================================
