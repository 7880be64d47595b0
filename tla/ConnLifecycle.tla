--------------------------- MODULE ConnLifecycle ---------------------------
(***************************************************************************)
(* What the reactor server promises about an accepted socket: it is handed *)
(* to a queue, popped, opened for service and closed, in this order, by    *)
(* nobody twice; it may be refused at every hand-over, and then it is      *)
(* closed.  ReactorThread and ReactorServer implement this specification.  *)
(***************************************************************************)
CONSTANT Conns

VARIABLE state      \* where each client's socket is

Stages == {"new", "queued", "popped", "open", "closed"}

Init == state = [c \in Conns |-> "new"]

\* All sockets of S go from one stage to another.
Move(S, from, to) ==
  /\ \A c \in S : state[c] = from
  /\ state' = [c \in Conns |-> IF c \in S THEN to ELSE state[c]]

Next ==
  \E S \in SUBSET Conns :
    \/ Move(S, "new", "queued")
    \/ Move(S, "new", "closed")
    \/ Move(S, "queued", "popped")
    \/ Move(S, "popped", "open")
    \/ Move(S, "popped", "closed")
    \/ Move(S, "open", "closed")

Spec == Init /\ [][Next]_state

=============================================================================
