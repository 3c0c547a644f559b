-------------------------- MODULE MCRefPtrProgram ---------------------------
(* RefPtrProgram on two wrapper objects, the call's three locals and three  *)
(* documents: seven RefPtr variables, so that every alias pattern of two    *)
(* cells and a bystander occurs.                                            *)
EXTENDS RefPtrProgram, TLC

Symmetry == Permutations(Doc)

=============================================================================
