----------------------------- MODULE MCPactFarm -----------------------------
(***************************************************************************)
(* The farm with its escrows for TLC.                                      *)
(***************************************************************************)
EXTENDS PactFarm

Symmetry == Permutations(EscrowIds) \union Permutations(Users)
=============================================================================
