---------------------------- MODULE MCOrderStore ----------------------------
(***************************************************************************)
(* The instance of OrderStore for TLC: its constants are all sets of model *)
(* values.                                                                 *)
(***************************************************************************)
EXTENDS OrderStore
=============================================================================
