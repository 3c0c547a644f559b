---------------------------- MODULE MCJsonPack ------------------------------
(* JsonPack for TLC.  i, f and b go the same way and so i stands for them;  *)
(* ? is a character no format has.                                          *)
EXTENDS PackGrammar

MCFormat ==
  BoundedSeq({"{", "}", "[", "]", "s", "i", "n", ":", " ", "?"}, 3)
    \cup BoundedSeq({"{", "}", "[", "]", "s"}, 5)
    \cup BoundedSeq({"[", "]", "i", ",", " "}, 4)
    \cup {<<"{", "s", ":", "{", "s", ":", "f", "}", ",", "}", " ">>,
          <<"[", "[", "[", "b", "]", "]", ",", " ", "]", " ", " ">>,
          <<"[", "s", "i", "f", "b", "n", "]", ",">>}

MCParams ==
  {<< >>, <<TRUE>>, <<TRUE, TRUE, TRUE>>, <<TRUE, FALSE, TRUE>>}
    \cup {[k \in 1 .. 7 |-> TRUE]}
=============================================================================
