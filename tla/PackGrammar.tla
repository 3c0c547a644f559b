---------------------------- MODULE PackGrammar -----------------------------
(***************************************************************************)
(* The language of the formats of JSON.Pack, as a grammar, and what the    *)
(* parser of JsonPack promises in its terms.                               *)
(***************************************************************************)
EXTENDS JsonPack, FiniteSets, FiniteSetsExt

Kept(ch)       == ch \notin Separator
NeedsParam(ch) == ch \in {"s", "i", "f", "b"}

Longest == Max({Len(SelectSeq(f, Kept)) : f \in Format})

Join(S, T) == {s \o t : s \in S, t \in T}
Within(first, S, last) == Join(Join({<<first>>}, S), {<<last>>})

\* Separators left out, the words of n characters that are the items of an
\* array, the members of an object, or a value; ws holds those of 0 .. n - 1.
Values(ws, n) ==
  IF n = 1 THEN {<<ch>> : ch \in {"s", "i", "f", "b", "n"}}
  ELSE Within("[", ws[n - 1].items, "]") \cup Within("{", ws[n - 1].members, "}")

Lengthen(ws, n) ==
  LET value     == Values(ws, n)
      Member(k) == Join({<<"s">>}, ws[k].value)
  IN  Append(ws, [value   |-> value,
                  items   |-> value \cup UNION {Join(ws[k + 1].value, ws[n - k + 1].items)
                                                : k \in 1 .. n - 1},
                  members |-> Member(n) \cup UNION {Join(Member(k), ws[n - k + 1].members)
                                                    : k \in 1 .. n - 1}])

Words ==
  LET empty == [value |-> {}, items |-> {<< >>}, members |-> {<< >>}]
      w[n \in 0 .. Longest] ==
        IF n = 0 THEN <<empty>> ELSE LET ws == w[n - 1] IN Lengthen(ws, n)
      short == w[Longest - 2]    \* two characters of a value are its brackets
  IN  UNION {Values(short, n) : n \in 1 .. Longest}

Grammatical(w) == Len(w) > 1 /\ w \in Words

\* What a call may expect to be packed: the word without its separators is
\* in the grammar, none comes before it and only white space after it, and
\* the provider can read as many parameters as it needs.
Acceptable ==
  LET word   == SelectSeq(format, Kept)
      needed == Len(SelectSeq(word, NeedsParam))
      last   == Max({k \in DOMAIN format : Kept(format[k])} \cup {0})
  IN  /\ Grammatical(word)
      /\ Kept(format[1])
      /\ \A k \in last + 1 .. Len(format) : format[k] \in Space
      /\ needed <= Len(params)
      /\ \A k \in 1 .. needed : params[k]

\* The format that spells v, and the parameters in v, from left to right.
RECURSIVE Spell(_), Taken(_)

Spell(v) ==
  CASE v[1] = "[" -> <<"[">> \o FlattenSeq([k \in DOMAIN v[2] |-> Spell(v[2][k])]) \o <<"]">>
    [] v[1] = "{" -> <<"{">> \o FlattenSeq([k \in DOMAIN v[2] |-> <<"s">> \o Spell(v[2][k][2])])
                     \o <<"}">>
    [] OTHER -> <<v[1]>>

Taken(v) ==
  CASE v[1] = "[" -> FlattenSeq([k \in DOMAIN v[2] |-> Taken(v[2][k])])
    [] v[1] = "{" -> FlattenSeq([k \in DOMAIN v[2] |-> <<v[2][k][1]>> \o Taken(v[2][k][2])])
    [] v[1] = "n" -> << >>
    [] OTHER -> <<v[2]>>

-----------------------------------------------------------------------------
(* Properties *)

\* A call succeeds exactly for the formats of the grammar, with enough
\* parameters; a missing bracket, key or value is always noticed.
PacksTheGrammar == status # "running" => (status = "packed" <=> Acceptable)

\* What is packed has the shape the format spells, and the parameters stand
\* in it in their order, none left out and none used twice.
PacksWhatIsSpelled ==
  status = "packed" =>
    /\ Spell(root) = SelectSeq(format, Kept)
    /\ Taken(root) = [k \in 1 .. index - 2 |-> k + 1]
=============================================================================
