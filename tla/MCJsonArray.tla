---------------------------- MODULE MCJsonArray -----------------------------
(* JsonArray for TLC: values and iterators are interchangeable. *)
EXTENDS JsonArray

Symmetry == Permutations(Node) \cup Permutations(Iter)
=============================================================================
