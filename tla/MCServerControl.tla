-------------------------- MODULE MCServerControl --------------------------
(***************************************************************************)
(* ServerControl for TLC.  Names are interchangeable, so the safety run     *)
(* uses their symmetry.                                                     *)
(***************************************************************************)
EXTENDS ServerControl, TLC

NameSymmetry == Permutations(Name)
=============================================================================
