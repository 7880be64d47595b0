-------------------------- MODULE MCReactorThread --------------------------
(***************************************************************************)
(* ReactorThread on small instances for TLC.  Connections are model values *)
(* and interchangeable.                                                    *)
(***************************************************************************)
EXTENDS ReactorThread, TLC

ConnSymmetry == Permutations(Conns)

=============================================================================
