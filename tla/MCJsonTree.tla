----------------------------- MODULE MCJsonTree -----------------------------
(* JsonTree for TLC: two names, one scalar besides null, a text with an object *)
(* in an object, and a patch that can succeed, fail, and fail half way.        *)
EXTENDS JsonTree

CONSTANT One

MCKey     == {"a", "b"}
MCScalar  == {Null, One}
MCTexts   == {Chain(<<"a">>, Leaf(One)), Chain(<<"a">>, Chain(<<"b">>, Leaf(One)))}
MCPatches == {<< [op |-> "add", path |-> <<"b">>, value |-> Leaf(One)],
                 [op |-> "remove", path |-> <<"a">>] >>}

Symmetry == Permutations(Wrapper) \cup Permutations(Doc)

(* Nodes have no names in the program.  States that differ in them, or in the  *)
(* history, are one: a node is known by the ways that lead to it.              *)
Holders(n) ==
  {<<d, doc[d].mutable>> : d \in {e \in Doc : doc[e].root = n}}
    \cup {<<w, wrap[w].doc>> : w \in {v \in Wrapper : IsOpen(v) /\ wrap[v].val = n}}
WaysFrom(n) ==
  LET ways[i \in 0..MaxDepth] ==
        IF i = 0 THEN {<<n, <<>>, n>>}
        ELSE UNION {{<<n, Append(x[2], k), Child(node, x[3], k)>> : k \in Names(node, x[3])} :
                      x \in ways[i - 1]}
  IN  UNION {ways[i] : i \in 0..MaxDepth}
View ==
  LET held    == {n \in DOMAIN node : Holders(n) # {}}
      ways    == UNION {WaysFrom(n) : n \in held}
      name(n) == {<<Holders(x[1]), x[2]>> : x \in {y \in ways : y[3] = n}}
  IN  << Holders(None), {<<name(n), node[n].doc, node[n].val>> : n \in DOMAIN node} >>
=============================================================================
