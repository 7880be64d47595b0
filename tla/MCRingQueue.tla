---------------------------- MODULE MCRingQueue ----------------------------
(***************************************************************************)
(* RingQueue on small instances for TLC.  Threads are model values and are *)
(* interchangeable within their role.                                      *)
(***************************************************************************)
EXTENDS RingQueue, TLC

ThreadSymmetry == Permutations(Producers) \cup Permutations(Consumers)

=============================================================================
