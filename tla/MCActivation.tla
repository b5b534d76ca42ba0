---------------------------- MODULE MCActivation ----------------------------
(***************************************************************************)
(* Activation with three epochs after zero and two rosters: a plan can be  *)
(* superseded, reused out of order and rebound.                            *)
(***************************************************************************)
EXTENDS Activation

=============================================================================
