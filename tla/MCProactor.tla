----------------------------- MODULE MCProactor -----------------------------
(***************************************************************************)
(* Instances of Proactor for TLC: the clients are model values, and the    *)
(* workers are interchangeable.                                            *)
(***************************************************************************)
EXTENDS Proactor, TLC

WorkerSymmetry == Permutations(Workers)

=============================================================================
