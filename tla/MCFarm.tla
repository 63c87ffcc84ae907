------------------------------- MODULE MCFarm -------------------------------
(***************************************************************************)
(* The farm for TLC.                                                       *)
(***************************************************************************)
EXTENDS FarmProperties

UserSymmetry == Permutations(Users)
=============================================================================
