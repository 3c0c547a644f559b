---------------------------- MODULE MCJsonObject ----------------------------
(* JsonObject for TLC: nodes, iterators, names and values are each           *)
(* interchangeable.                                                          *)
EXTENDS JsonObject

Symmetry == Permutations(Node) \cup Permutations(Iter) \cup Permutations(Key)
              \cup Permutations(Value)
=============================================================================
