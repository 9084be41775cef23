--------------------------- MODULE MCClientProxy ---------------------------
(***************************************************************************)
(* ClientProxy for TLC: all of its constants are small numbers.             *)
(***************************************************************************)
EXTENDS ClientProxy
=============================================================================
