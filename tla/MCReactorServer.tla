-------------------------- MODULE MCReactorServer --------------------------
(***************************************************************************)
(* ReactorServer on small instances for TLC.  Clients are model values;    *)
(* reactor threads are numbered, they are joined in order.                 *)
(***************************************************************************)
EXTENDS ReactorServer

=============================================================================
