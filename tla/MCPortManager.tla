--------------------------- MODULE MCPortManager ---------------------------
(***************************************************************************)
(* PortManager for TLC.  The names are interchangeable.                     *)
(***************************************************************************)
EXTENDS PortManager, TLC

NameSymmetry == Permutations(Name)
=============================================================================
