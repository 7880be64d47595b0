------------------------------ MODULE MCHybrid ------------------------------
(***************************************************************************)
(* The instances of HybridProactor that TLC checks; the .cfg files give    *)
(* its constants their values.                                             *)
(***************************************************************************)
EXTENDS HybridProactor

=============================================================================
