---------------------------- MODULE TicketQueue ----------------------------
(***************************************************************************)
(* What the accept queue promises about its positions, without its slots:  *)
(* pushes take consecutive tickets 1, 2, 3, ..., pops hand the same        *)
(* tickets back in the same order, every ticket once, and never more than  *)
(* Size of them are outstanding.  RingQueue implements this specification. *)
(***************************************************************************)
EXTENDS Integers

CONSTANT Size     \* RING_QUEUE_SIZE

VARIABLES
  claimed,        \* number of tickets given to pushes so far
  taken           \* number of tickets given back to pops so far

vars == <<claimed, taken>>

Init ==
  /\ claimed = 0
  /\ taken = 0

\* A push takes the next n tickets; there is room for all of them.
Claim(n) ==
  /\ claimed + n - taken <= Size
  /\ claimed' = claimed + n
  /\ UNCHANGED taken

\* A pop takes the oldest n outstanding tickets.
Take(n) ==
  /\ taken + n <= claimed
  /\ taken' = taken + n
  /\ UNCHANGED claimed

Next == \E n \in 1 .. Size : Claim(n) \/ Take(n)

Spec == Init /\ [][Next]_vars

\* What a client may rely on: the outstanding tickets are between 0 and Size.
Bounded == claimed - taken \in 0 .. Size

=============================================================================
