---------------------------- MODULE JsonNumbers -----------------------------
(***************************************************************************)
(* Numbers in an array: how the natives store them, find them, sort them   *)
(* and read them back.  A stored number is a subtype and a word of 64      *)
(* bits; each function looks at the subtype its own way, and reads the     *)
(* word as signed, unsigned, cut to an int, or converted to a double.      *)
(* The widths are constants, so that a small instance has the same order:  *)
(* an int holds less than a double holds exactly, and that is less than    *)
(* what a word holds.  Doubles are integral here, never infinite or NaN.   *)
(***************************************************************************)
EXTENDS Integers, Sequences, FiniteSets, FiniteSetsExt, SequencesExt

CONSTANTS
  IntLimit,     \* 2^31, one more than the largest int
  DoubleLimit,  \* 2^53: a double holds every integer up to it
  LongLimit,    \* 2^63
  Int32,        \* some ints
  Text,         \* some arguments of the Int64 natives, see TextType
  Double,       \* some doubles
  InsertionMax, \* 16 or 32: std::sort of more elements is no insertion sort
  MaxLen        \* bound: elements of the array

ASSUME WidthAssumption ==
  /\ {IntLimit, DoubleLimit, LongLimit} \subseteq Nat \ {0}
  /\ IntLimit < DoubleLimit
  /\ DoubleLimit % 2 = 0
  /\ DoubleLimit < LongLimit

\* A decimal number, which may be out of range; whole is FALSE if other
\* characters follow it.
TextType == [n : Int, whole : BOOLEAN]

Int64  == -LongLimit .. LongLimit - 1
Uint64 == 0 .. 2 * LongLimit - 1

\* The low bits of n, read as an integer with a sign.
AsSigned(n, limit) ==
  LET low == n % (2 * limit) IN IF low >= limit THEN low - 2 * limit ELSE low

\* How far apart doubles of this size are: a power of two.
Ulp[mag \in Nat] == IF mag < DoubleLimit THEN 1 ELSE 2 * Ulp[mag \div 2]

\* n converted to a double: rounded to a multiple of Ulp, ties to the even one.
AsDouble(n) ==
  LET mag   == IF n < 0 THEN -n ELSE n
      ulp   == Ulp[mag]
      q     == mag \div ulp
      twice == 2 * (mag % ulp)
      up    == twice > ulp \/ (twice = ulp /\ q % 2 = 1)
      r     == (IF up THEN q + 1 ELSE q) * ulp
  IN  IF n < 0 THEN -r ELSE r

ASSUME ArgumentAssumption ==
  /\ Int32 \subseteq -IntLimit .. IntLimit - 1
  /\ Text \subseteq TextType
  /\ \A d \in Double : d \in Int /\ AsDouble(d) = d
  /\ InsertionMax \in Nat
  /\ MaxLen \in Nat \ {0, 1}

VARIABLES
  arr,       \* elements [sub, word]; the word of a double is its value
  sent       \* history: how many of each number the caller has put there

vars == <<arr, sent>>

sint(n) == [sub |-> "sint", word |-> n % (2 * LongLimit)]
uint(n) == [sub |-> "uint", word |-> n]
real(d) == [sub |-> "real", word |-> d]

is_sint(v) == v.sub = "sint"
is_uint(v) == v.sub = "uint"
is_int(v)  == v.sub \in {"sint", "uint"}
get_sint(v) == AsSigned(v.word, LongLimit)
get_uint(v) == v.word
get_num(v)  == CASE is_sint(v) -> AsDouble(get_sint(v))
                 [] is_uint(v) -> AsDouble(get_uint(v))
                 [] OTHER -> v.word

\* The number a stored number stands for.
Meaning(v) == IF is_sint(v) THEN get_sint(v) ELSE v.word

TypeOK ==
  /\ Len(arr) <= MaxLen
  /\ \A k \in DOMAIN arr :
       arr[k] \in [sub : {"sint", "uint"}, word : Uint64] \cup {real(d) : d \in Double}
  /\ \A n \in DOMAIN sent : sent[n] \in 1 .. MaxLen

Init == arr = << >> /\ sent = << >>

-----------------------------------------------------------------------------
(* Parsing of 64-bit arguments *)

Refused == << >>

\* std::from_chars
from_chars(t, range) ==
  IF t.n \notin range THEN "out_of_range" ELSE IF t.whole THEN "whole" ELSE "part"

\* The copy of ParseInt64Variant that the natives call.
NativeParseInt64Variant(t) ==
  IF from_chars(t, Int64) = "whole" THEN sint(t.n)
  ELSE IF t.n >= 0 /\ from_chars(t, Uint64) = "whole" THEN uint(t.n)
  ELSE Refused

\* The copy in JsonManager.
ParseInt64VariantSigned(t) ==
  IF from_chars(t, Int64) = "whole" THEN sint(t.n) ELSE Refused

ParseInt64Variant(t) ==
  IF from_chars(t, Int64) = "whole" THEN sint(t.n)
  ELSE IF t.n >= 0 /\ from_chars(t, Int64) = "out_of_range" /\ from_chars(t, Uint64) = "whole"
       THEN uint(t.n)
  ELSE Refused

-----------------------------------------------------------------------------
(* Calls *)

Count(n, more) ==
  [m \in DOMAIN sent \cup {n} |->
     (IF m \in DOMAIN sent THEN sent[m] ELSE 0) + (IF m = n THEN more ELSE 0)]

Put(v, n) ==
  /\ Len(arr) < MaxLen
  /\ arr' = Append(arr, v)
  /\ sent' = Count(n, 1)

ArrayAppendInt(n)    == Put(sint(n), n)
ArrayAppendDouble(d) == Put(real(d), d)
ArrayAppendInt64(t)  ==
  /\ NativeParseInt64Variant(t) # Refused
  /\ Put(NativeParseInt64Variant(t), t.n)

\* All of the texts or, if one of them is refused, no array.
ArrayInitWithInt64(ts) ==
  /\ arr = << >>
  /\ ts # << >>
  /\ \A k \in DOMAIN ts : ParseInt64Variant(ts[k]) # Refused
  /\ arr' = [k \in DOMAIN ts |-> ParseInt64Variant(ts[k])]
  /\ sent' = [n \in {ts[k].n : k \in DOMAIN ts} |->
                Cardinality({k \in DOMAIN ts : ts[k].n = n})]

ReparseUnsigned ==
  /\ arr' = [k \in DOMAIN arr |->
               IF is_sint(arr[k]) THEN uint(get_sint(arr[k])) ELSE arr[k]]
  /\ UNCHANGED sent

\* ToString, and Parse of what it wrote: the reader takes a number without a
\* sign for an unsigned one.  Doubles are written with a point.
Reparse ==
  /\ arr' = [k \in DOMAIN arr |->
               IF is_sint(arr[k]) /\ get_sint(arr[k]) >= 0 THEN uint(get_sint(arr[k]))
               ELSE arr[k]]
  /\ UNCHANGED sent

BelowWrapped(a, b) ==
  \/ is_sint(a) /\ is_sint(b) /\ get_sint(a) < get_sint(b)
  \/ is_uint(a) /\ is_int(b) /\ get_uint(a) < get_uint(b)
  \/ is_sint(a) /\ is_uint(b) /\ get_uint(a) < get_uint(b)
  \/ ~(is_int(a) /\ is_int(b)) /\ get_num(a) < get_num(b)

\* The comparator of ArraySort, for ascending order.
Below(a, b) ==
  \/ is_sint(a) /\ is_sint(b) /\ get_sint(a) < get_sint(b)
  \/ is_uint(a) /\ is_uint(b) /\ get_uint(a) < get_uint(b)
  \/ is_sint(a) /\ is_uint(b) /\ (get_sint(a) < 0 \/ a.word < get_uint(b))
  \/ is_uint(a) /\ is_sint(b) /\ get_sint(b) >= 0 /\ get_uint(a) < b.word
  \/ ~(is_int(a) /\ is_int(b)) /\ get_num(a) < get_num(b)

Compare(a, b, asc) == IF asc THEN Below(a, b) ELSE Below(b, a)

\* An element goes to the front if it belongs before the first, and else after
\* the last one that it does not belong before.
Place(done, v, asc) ==
  LET fits == {k \in DOMAIN done : ~Compare(v, done[k], asc)}
      at   == IF Compare(v, done[1], asc) THEN 0 ELSE Max(fits)
  IN  InsertAt(done, at + 1, v)

\* std::sort of few elements.
InsertionSort(s, asc) ==
  LET sorted[n \in 1 .. Len(s)] ==
        IF n = 1 THEN <<s[1]>> ELSE Place(sorted[n - 1], s[n], asc)
  IN  sorted[Len(s)]

\* The comparator does not contradict itself.
PartialOrder(E, asc) ==
  \A a, b \in E :
    Compare(a, b, asc) => /\ ~Compare(b, a, asc)
                          /\ \A c \in E : Compare(b, c, asc) => Compare(a, c, asc)

\* What std::sort requires: elements that go neither before nor after another
\* are alike.
WeakOrder(E, asc) ==
  /\ PartialOrder(E, asc)
  /\ \A a, c \in E : Compare(a, c, asc) => \A b \in E : Compare(a, b, asc) \/ Compare(b, c, asc)

Shuffle == [n \in 0 .. MaxLen |-> Bijection(1 .. n, 1 .. n)]
Permuted(s) == {[k \in DOMAIN s |-> s[p[k]]] : p \in Shuffle[Len(s)]}

\* What std::sort may leave of s.  More elements than InsertionMax are sorted,
\* with equal ones in any order, if its requirement is met.  Otherwise the
\* behaviour is undefined: the libraries still leave the elements in some order
\* if the comparator is a partial order, because that stops each of their scans
\* at an element they have seen; if not, elements are lost and repeated.
SortOutcomes(s, asc) ==
  IF Len(s) <= InsertionMax THEN {InsertionSort(s, asc)}
  ELSE IF WeakOrder(Range(s), asc)
       THEN {r \in Permuted(s) : \A j, k \in DOMAIN r : j < k => ~Compare(r[k], r[j], asc)}
  ELSE IF PartialOrder(Range(s), asc) THEN Permuted(s)
  ELSE [DOMAIN s -> Range(s)]

ArraySort(asc) ==
  /\ Len(arr) > 1
  /\ UNCHANGED sent
  /\ arr' \in SortOutcomes(arr, asc)

-----------------------------------------------------------------------------
(* What a caller reads *)

IndexOf(Hits) == IF Hits = {} THEN -1 ELSE Min(Hits) - 1

ArrayIndexOfInt64(n) ==
  IndexOf({k \in DOMAIN arr : is_sint(arr[k]) /\ get_sint(arr[k]) = n})

ArrayIndexOfUint64AsInt(n) ==
  IndexOf({k \in DOMAIN arr : is_uint(arr[k]) /\ get_sint(arr[k]) = n})

ArrayIndexOfUint64(n) ==
  IndexOf({k \in DOMAIN arr : is_uint(arr[k]) /\ get_uint(arr[k]) = n})

\* json_arr_index_of_integer64
IndexOfInt64(t) ==
  IF is_sint(NativeParseInt64Variant(t)) THEN ArrayIndexOfInt64(t.n)
  ELSE ArrayIndexOfUint64(t.n)

\* json_arr_get_integer64, and GetFloat of a double.
ArrayGetInt64Any(k) ==
  IF is_int(arr[k]) THEN get_sint(arr[k]) ELSE arr[k].word

ArrayGetInt64(k) ==
  IF is_sint(arr[k]) THEN get_sint(arr[k]) ELSE IF is_uint(arr[k]) THEN get_uint(arr[k])
  ELSE arr[k].word

Next ==
  \/ \E n \in Int32 : ArrayAppendInt(n)
  \/ \E d \in Double : ArrayAppendDouble(d)
  \/ \E t \in Text : ArrayAppendInt64(t)
  \/ \E s, t \in Text : ArrayInitWithInt64(<<s, t>>)
  \/ Reparse
  \/ \E asc \in BOOLEAN : ArraySort(asc)

Spec == Init /\ [][Next]_vars

-----------------------------------------------------------------------------
(* Properties *)

Valid == {t \in Text : NativeParseInt64Variant(t) # Refused}

\* Reading the array gives the numbers that were put there, each as often,
\* also after it was sorted, or written and parsed again.
ReadsBack ==
  LET Times(n) == Cardinality({k \in DOMAIN arr : ArrayGetInt64(k) = n})
  IN  /\ \A n \in DOMAIN sent : Times(n) = sent[n]
      /\ \A k \in DOMAIN arr : ArrayGetInt64(k) \in DOMAIN sent

\* FromInt64 and PushInt64, which use different copies of ParseInt64Variant,
\* take the same texts: those of a number that either kind of 64-bit integer
\* can hold.
BothTakeTheSame ==
  arr = << >> =>
    \A s, t \in Text :
      LET Fits(x) == x.whole /\ x.n \in Int64 \cup Uint64
      IN  /\ ENABLED ArrayInitWithInt64(<<s, t>>) <=> Fits(s) /\ Fits(t)
          /\ ENABLED ArrayAppendInt64(t) <=> Fits(t)

\* IndexOfInt64 finds a number just appended from the same text, and never
\* points at another number.
FindsAppended ==
  [][\A t \in Valid :
       /\ ArrayAppendInt64(t) => IndexOfInt64(t)' >= 0
       /\ IndexOfInt64(t)' >= 0 => Meaning(arr'[IndexOfInt64(t)' + 1]) = t.n]_vars

Ordered(s, asc) ==
  \A j, k \in DOMAIN s :
    j < k => IF asc THEN Meaning(s[j]) <= Meaning(s[k]) ELSE Meaning(s[k]) <= Meaning(s[j])

Exact(s) ==
  \/ \A k \in DOMAIN s : is_int(s[k])
  \/ \A k \in DOMAIN s : AsDouble(Meaning(s[k])) = Meaning(s[k])

\* However the numbers got there and of whichever subtypes they are, the
\* comparator is a partial order on them: the least that std::sort needs, to
\* stay within the elements of a long array.  And Sort orders integers of any sign
\* and size by their value, and any numbers that doubles hold exactly.
SortIsSound ==
  [][\A asc \in BOOLEAN : ArraySort(asc) =>
       /\ PartialOrder(Range(arr), asc)
       /\ Exact(arr) => Ordered(arr', asc)]_vars

\* As json.inc says of IndexOfInt64: it returns the index of the first
\* matching element, or -1 if there is none.
FindsFirst ==
  \A t \in Valid :
    IndexOfInt64(t) = IndexOf({k \in DOMAIN arr : is_int(arr[k]) /\ Meaning(arr[k]) = t.n})
=============================================================================
