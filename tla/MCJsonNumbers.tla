---------------------------- MODULE MCJsonNumbers ---------------------------
(* JsonNumbers for TLC: ints of 2 bits, words of 5, and doubles that hold   *)
(* every integer up to 8 and then every second one.                         *)
EXTENDS JsonNumbers

MCInt32  == {-2, 1}
MCDouble == {-2, 8, 16}

MCText ==
  {[n |-> n, whole |-> TRUE] : n \in {-17, -16, 1, 8, 15, 16, 31, 32}}
    \cup {[n |-> n, whole |-> FALSE] : n \in {-17, -1, 1, 31, 32}}
=============================================================================
