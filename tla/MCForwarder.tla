----------------------------- MODULE MCForwarder -----------------------------
(***************************************************************************)
(* Entry point of TLC for the store-and-forward; forward.cfg gives the     *)
(* constants their values.                                                 *)
(***************************************************************************)
EXTENDS ForwarderProperties
=============================================================================
