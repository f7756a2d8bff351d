----------------------------- MODULE MCOutbound -----------------------------
(***************************************************************************)
(* Instance of Outbound for TLC; the bounds are in the configurations.     *)
(***************************************************************************)
EXTENDS Outbound
=============================================================================
