--------------------------- MODULE MCWorkConnPool ---------------------------
(***************************************************************************)
(* WorkConnPool for TLC: its constants are small numbers and model values.  *)
(***************************************************************************)
EXTENDS WorkConnPool
=============================================================================
