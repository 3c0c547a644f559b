------------------------- MODULE JsonNumbers_proofs -------------------------
(* For every width of the integers and not only for the few bits that TLC   *)
(* counts with: what the parser and the comparator of JsonNumbers do, and   *)
(* that the array gives back, finds and sorts the numbers put there.        *)
EXTENDS JsonNumbers, FiniteSetTheorems, SequenceTheorems, WellFoundedInduction, TLAPS

-----------------------------------------------------------------------------
(* Induction, stated with sets so that the provers can use it *)

\* Every set of natural numbers has a least member.
LEMMA LeastNatural ==
  ASSUME NEW S \in SUBSET Nat, S # {}
  PROVE  \E m \in S : \A k \in S : m <= k
<1> DEFINE R == {p \in Nat \X Nat : p[1] < p[2]}
<1>1. IsWellFoundedOn(R, Nat)
  <2>1. R = OpToRel(<, Nat)
    BY Zenon DEF OpToRel
  <2> QED BY <2>1, NatLessThanWellFounded
<1>2. \A x, y \in Nat : x < y => <<x, y>> \in R
  OBVIOUS
<1> HIDE DEF R
<1>3. PICK m \in S : \A k \in S : <<k, m>> \notin R
  BY <1>1, WFMin
<1>4. \A k \in S : m <= k
  <2> TAKE k \in S
  <2>1. k \in Nat /\ m \in Nat
    OBVIOUS
  <2>2. ~(k < m)
    BY <1>2, <1>3, <2>1
  <2> QED BY <2>1, <2>2
<1> QED BY <1>4

\* A set of natural numbers that has a member in 0 .. n and is not empty above
\* has a greatest one there.
LEMMA GreatestNatural ==
  ASSUME NEW n \in Nat, NEW S \in SUBSET (0 .. n), S # {}
  PROVE  \E m \in S : \A k \in S : k <= m
<1> DEFINE T == {n - k : k \in S}
<1>1. T \in SUBSET Nat /\ T # {}
  <2>1. \A k \in S : k \in Int /\ n - k \in Nat
    OBVIOUS
  <2> QED BY <2>1
<1>2. PICK m \in T : \A k \in T : m <= k
  <2> HIDE DEF T
  <2> QED BY <1>1, LeastNatural
<1>3. PICK g \in S : m = n - g
  BY <1>2
<1>4. \A k \in S : n - g <= n - k
  BY <1>2, <1>3
<1>5. \A k \in S : k <= g
  <2> TAKE k \in S
  <2>1. k \in 0 .. n /\ g \in 0 .. n
    OBVIOUS
  <2> QED BY <1>4, <2>1
<1> QED BY <1>5

\* To show that all numbers have a property, one shows it of the set of those
\* that do.
LEMMA NaturalInduction ==
  ASSUME NEW S, 0 \in S, \A n \in S \cap Nat : n + 1 \in S
  PROVE  Nat \subseteq S
<1> SUFFICES ASSUME Nat \ S # {} PROVE FALSE
  OBVIOUS
<1> DEFINE T == Nat \ S
<1>1. PICK m \in T : \A k \in T : m <= k
  <2>1. T \in SUBSET Nat /\ T # {}
    OBVIOUS
  <2> HIDE DEF T
  <2> QED BY <2>1, LeastNatural
<1>2. m \in Nat /\ m # 0
  BY <1>1
<1>3. m - 1 \in Nat /\ ~(m <= m - 1)
  BY <1>2
<1>4. m - 1 \in S
  BY <1>1, <1>3
<1>5. m - 1 + 1 \in S
  BY <1>3, <1>4
<1> QED BY <1>1, <1>2, <1>5

Integer == [sub : {"sint", "uint"}, word : Uint64]

\* The word of a signed integer reads as itself.
LEMMA SignedWord ==
  ASSUME NEW n \in Int64
  PROVE  /\ n % (2 * LongLimit) \in Uint64
         /\ AsSigned(n % (2 * LongLimit), LongLimit) = n
<1>1. LongLimit \in Nat \ {0}
  BY WidthAssumption
<1>2. PICK L \in Nat : L = LongLimit /\ L > 0
  BY <1>1
<1>3. n \in -L .. L - 1
  BY <1>2 DEF Int64
<1>4. PICK w \in Int : w = n % (2 * L)
  BY <1>2, <1>3
<1>5. w = IF n < 0 THEN n + 2 * L ELSE n
  <2>1. CASE n < 0
    <3>1. 0 <= n + 2 * L /\ n + 2 * L < 2 * L
      BY <1>2, <1>3, <2>1
    <3>2. (n + 2 * L) % (2 * L) = n + 2 * L
      BY <1>2, <1>3, <3>1
    <3>3. n % (2 * L) = (n + 2 * L) % (2 * L)
      BY <1>2, <1>3
    <3> QED BY <1>4, <2>1, <3>2, <3>3
  <2>2. CASE n >= 0
    BY <1>2, <1>3, <1>4, <2>2
  <2> QED BY <1>3, <2>1, <2>2
<1>6. w \in 0 .. 2 * L - 1
  BY <1>2, <1>3, <1>5
<1>7. w % (2 * L) = w
  BY <1>2, <1>6
<1>8. (IF w >= L THEN w - 2 * L ELSE w) = n
  BY <1>2, <1>3, <1>5
<1> QED
  BY <1>2, <1>4, <1>6, <1>7, <1>8 DEF Uint64, AsSigned

\* A stored signed integer means a number below LongLimit, which is not
\* negative exactly if the word is that number.
LEMMA WordMeaning ==
  ASSUME NEW v \in Integer
  PROVE  /\ v.word \in Uint64
         /\ v.sub = "sint" => /\ get_sint(v) \in Int64
                              /\ get_sint(v) >= 0 => get_sint(v) = v.word
<1>1. PICK L \in Nat : L = LongLimit /\ L > 0
  BY WidthAssumption
<1>2. PICK w \in 0 .. 2 * L - 1 : w = v.word
  BY <1>1 DEF Integer, Uint64
<1>3. w % (2 * L) = w
  BY <1>1, <1>2
<1>4. get_sint(v) = IF w >= L THEN w - 2 * L ELSE w
  BY <1>1, <1>2, <1>3 DEF get_sint, AsSigned
<1> QED
  BY <1>1, <1>2, <1>4 DEF Int64, Uint64

\* The comparator of ArraySort orders integers of either subtype by the
\* numbers they stand for, whatever the sign and the size.
THEOREM BelowIsNumericOrder ==
  \A a, b \in Integer : Below(a, b) <=> Meaning(a) < Meaning(b)
<1> SUFFICES ASSUME NEW a \in Integer, NEW b \in Integer
             PROVE  Below(a, b) <=> Meaning(a) < Meaning(b)
  OBVIOUS
<1>1. PICK L \in Nat : L = LongLimit /\ L > 0
  BY WidthAssumption
<1>2. a.sub \in {"sint", "uint"} /\ b.sub \in {"sint", "uint"}
  BY DEF Integer
<1>3. a.word \in 0 .. 2 * L - 1 /\ b.word \in 0 .. 2 * L - 1
  BY <1>1, WordMeaning DEF Uint64
<1>4. CASE a.sub = "sint" /\ b.sub = "sint"
  BY <1>4 DEF Below, Meaning, is_sint, is_uint, is_int
<1>5. CASE a.sub = "uint" /\ b.sub = "uint"
  BY <1>5 DEF Below, Meaning, is_sint, is_uint, is_int, get_uint
<1>6. CASE a.sub = "sint" /\ b.sub = "uint"
  <2>1. get_sint(a) \in -L .. L - 1 /\ (get_sint(a) >= 0 => get_sint(a) = a.word)
    BY <1>1, <1>6, WordMeaning DEF Int64
  <2>2. Below(a, b) <=> get_sint(a) < 0 \/ a.word < b.word
    BY <1>6 DEF Below, is_sint, is_uint, is_int, get_uint
  <2>3. Meaning(a) = get_sint(a) /\ Meaning(b) = b.word
    BY <1>6 DEF Meaning, is_sint
  <2> QED BY <1>1, <1>3, <2>1, <2>2, <2>3
<1>7. CASE a.sub = "uint" /\ b.sub = "sint"
  <2>1. get_sint(b) \in -L .. L - 1 /\ (get_sint(b) >= 0 => get_sint(b) = b.word)
    BY <1>1, <1>7, WordMeaning DEF Int64
  <2>2. Below(a, b) <=> get_sint(b) >= 0 /\ a.word < b.word
    BY <1>7 DEF Below, is_sint, is_uint, is_int, get_uint
  <2>3. Meaning(a) = a.word /\ Meaning(b) = get_sint(b)
    BY <1>7 DEF Meaning, is_sint
  <2> QED BY <1>1, <1>3, <2>1, <2>2, <2>3
<1> QED
  BY <1>2, <1>4, <1>5, <1>6, <1>7

\* Both copies of ParseInt64Variant take exactly the texts of a number that a
\* signed or an unsigned 64-bit integer can hold, agree on the subtype, and
\* store that number.
THEOREM ParsersAgree ==
  \A t \in TextType :
    LET Fits == t.whole /\ t.n \in Int64 \cup Uint64
    IN  /\ ParseInt64Variant(t) = NativeParseInt64Variant(t)
        /\ Fits => ParseInt64Variant(t) \in Integer /\ Meaning(ParseInt64Variant(t)) = t.n
        /\ ~Fits => ParseInt64Variant(t) = Refused
<1> SUFFICES ASSUME NEW t \in TextType
             PROVE  LET Fits == t.whole /\ t.n \in Int64 \cup Uint64
                    IN  /\ ParseInt64Variant(t) = NativeParseInt64Variant(t)
                        /\ Fits => /\ ParseInt64Variant(t) \in Integer
                                   /\ Meaning(ParseInt64Variant(t)) = t.n
                        /\ ~Fits => ParseInt64Variant(t) = Refused
  OBVIOUS
<1>1. PICK L \in Nat : L = LongLimit /\ L > 0
  BY WidthAssumption
<1>2. t.n \in Int /\ t.whole \in BOOLEAN
  BY DEF TextType
<1>3. t.n \in Int64 <=> -L <= t.n /\ t.n < L
  BY <1>1, <1>2 DEF Int64
<1>4. t.n \in Uint64 <=> 0 <= t.n /\ t.n < 2 * L
  BY <1>1, <1>2 DEF Uint64
<1>5. \A range \in {Int64, Uint64} :
        /\ from_chars(t, range) = "whole" <=> t.n \in range /\ t.whole
        /\ from_chars(t, range) = "out_of_range" <=> t.n \notin range
  BY <1>2 DEF from_chars
<1>6. CASE t.whole /\ t.n \in Int64
  <2>1. ParseInt64Variant(t) = sint(t.n) /\ NativeParseInt64Variant(t) = sint(t.n)
    BY <1>2, <1>5, <1>6 DEF ParseInt64Variant, NativeParseInt64Variant
  <2>2. sint(t.n) \in Integer /\ Meaning(sint(t.n)) = t.n
    BY <1>6, SignedWord DEF sint, Integer, Meaning, is_sint, get_sint
  <2> QED BY <1>6, <2>1, <2>2
<1>7. CASE t.whole /\ t.n \notin Int64 /\ t.n \in Uint64
  <2>1. t.n >= 0
    BY <1>2, <1>4, <1>7
  <2>2. from_chars(t, Int64) = "out_of_range" /\ from_chars(t, Uint64) = "whole"
    BY <1>5, <1>7
  <2>3. ParseInt64Variant(t) = uint(t.n) /\ NativeParseInt64Variant(t) = uint(t.n)
    BY <1>2, <2>1, <2>2 DEF ParseInt64Variant, NativeParseInt64Variant
  <2>4. uint(t.n) \in Integer /\ Meaning(uint(t.n)) = t.n
    BY <1>7 DEF uint, Integer, Meaning, is_sint
  <2> QED BY <1>7, <2>3, <2>4
<1>8. CASE ~(t.whole /\ t.n \in Int64 \cup Uint64)
  <2>1. from_chars(t, Int64) # "whole" /\ from_chars(t, Uint64) # "whole"
    BY <1>5, <1>8
  <2>2. ParseInt64Variant(t) = Refused /\ NativeParseInt64Variant(t) = Refused
    BY <2>1 DEF ParseInt64Variant, NativeParseInt64Variant
  <2> QED BY <1>8, <2>2
<1> QED
  BY <1>6, <1>7, <1>8

-----------------------------------------------------------------------------
(* Numbers in a sequence *)

Elem == Integer \cup {real(d) : d \in Double}

Matching(s, n) == {k \in DOMAIN s : Meaning(s[k]) = n}
Times(s, n) == Cardinality(Matching(s, n))

LEMMA ElemMeaning ==
  ASSUME NEW v \in Elem
  PROVE  Meaning(v) \in Int
<1>1. CASE v \in Integer
  <2>1. v.word \in Int
    BY <1>1, WordMeaning, WidthAssumption DEF Uint64
  <2>2. is_sint(v) => get_sint(v) \in Int
    BY <1>1, WordMeaning, WidthAssumption DEF Int64, is_sint
  <2> QED BY <2>1, <2>2 DEF Meaning
<1>2. CASE v \in {real(d) : d \in Double}
  <2>1. PICK d \in Double : v = real(d)
    BY <1>2
  <2>2. d \in Int
    BY ArgumentAssumption
  <2>3. Meaning(v) = d
    BY <2>1 DEF Meaning, real, is_sint
  <2> QED BY <2>2, <2>3
<1> QED BY <1>1, <1>2 DEF Elem

\* new is s with v put in at place p.
Inserted(new, s, p, v) ==
  /\ p \in 1 .. Len(s) + 1
  /\ Len(new) = Len(s) + 1
  /\ new[p] = v
  /\ \A k \in 1 .. p - 1 : new[k] = s[k]
  /\ \A k \in p .. Len(s) : new[k + 1] = s[k]

LEMMA AppendInserts ==
  ASSUME NEW S, NEW s \in Seq(S), NEW v \in S
  PROVE  Append(s, v) \in Seq(S) /\ Inserted(Append(s, v), s, Len(s) + 1, v)
<1>1. Len(s) \in Nat /\ Append(s, v) \in Seq(S)
  OBVIOUS
<1>2. /\ Len(Append(s, v)) = Len(s) + 1
      /\ Append(s, v)[Len(s) + 1] = v
      /\ \A k \in 1 .. Len(s) : Append(s, v)[k] = s[k]
  OBVIOUS
<1>3. \A k \in (Len(s) + 1) .. Len(s) : Append(s, v)[k + 1] = s[k]
  BY <1>1
<1> QED BY <1>1, <1>2, <1>3 DEF Inserted

LEMMA InsertAtInserts ==
  ASSUME NEW S, NEW s \in Seq(S), NEW v \in S, NEW p \in 1 .. Len(s) + 1
  PROVE  InsertAt(s, p, v) \in Seq(S) /\ Inserted(InsertAt(s, p, v), s, p, v)
<1> DEFINE l  == SubSeq(s, 1, p - 1)
           r  == SubSeq(s, p, Len(s))
           m  == <<v>>
           lm == l \o m
           new == lm \o r
<1>1. Len(s) \in Nat
  OBVIOUS
<1>2. l \in Seq(S) /\ Len(l) = p - 1 /\ \A k \in 1 .. p - 1 : l[k] = s[k]
  BY <1>1
<1>3. r \in Seq(S) /\ Len(r) = Len(s) - p + 1 /\ \A k \in 1 .. Len(s) - p + 1 : r[k] = s[p + k - 1]
  BY <1>1
<1>4. m \in Seq(S) /\ Len(m) = 1 /\ m[1] = v
  OBVIOUS
<1> HIDE DEF l, r, m
<1>12. /\ lm \in Seq(S)
      /\ Len(lm) = Len(l) + Len(m)
      /\ \A k \in 1 .. Len(l) + Len(m) : lm[k] = IF k <= Len(l) THEN l[k] ELSE m[k - Len(l)]
  <2>1. l \in Seq(S) /\ m \in Seq(S)
    BY <1>2, <1>4
  <2> QED BY <2>1, ConcatProperties
<1> HIDE DEF lm
<1>5. Len(lm) = p
  BY <1>1, <1>2, <1>4, <1>12
<1>6. lm[p] = v /\ \A k \in 1 .. p - 1 : lm[k] = s[k]
  <2>1. \A k \in 1 .. (p - 1) + 1 : lm[k] = IF k <= p - 1 THEN l[k] ELSE m[k - (p - 1)]
    BY <1>2, <1>4, <1>12
  <2>2. p \in 1 .. (p - 1) + 1 /\ ~(p <= p - 1) /\ p - (p - 1) = 1
    BY <1>1
  <2>3. lm[p] = v
    BY <1>4, <2>1, <2>2
  <2>4. \A k \in 1 .. p - 1 : k \in 1 .. (p - 1) + 1 /\ k <= p - 1
    BY <1>1
  <2> QED BY <1>2, <2>1, <2>3, <2>4
<1>7. new \in Seq(S) /\ Len(new) = Len(s) + 1
  BY <1>1, <1>3, <1>5, <1>12, ConcatProperties
<1>8. \A k \in 1 .. p : new[k] = lm[k]
  BY <1>1, <1>3, <1>5, <1>12, ConcatProperties
<1>9. \A k \in p .. Len(s) : new[k + 1] = s[k]
  <2> TAKE k \in p .. Len(s)
  <2>1. /\ k + 1 - p \in 1 .. Len(s) - p + 1 /\ p + (k + 1 - p) - 1 = k
        /\ k + 1 \in 1 .. Len(s) + 1 /\ ~(k + 1 <= p)
    BY <1>1
  <2>2. new[k + 1] = r[k + 1 - p]
    BY <1>1, <1>3, <1>5, <1>12, <2>1, ConcatProperties
  <2> QED BY <1>3, <2>1, <2>2
<1> HIDE DEF new
<1>10. InsertAt(s, p, v) = new
  BY DEF InsertAt, new, lm, l, m, r
<1>11. new[p] = v /\ \A k \in 1 .. p - 1 : new[k] = s[k]
  BY <1>1, <1>6, <1>8
<1> QED BY <1>7, <1>9, <1>10, <1>11 DEF Inserted

LEMMA TimesBounded ==
  ASSUME NEW S, NEW s \in Seq(S), NEW n
  PROVE  /\ IsFiniteSet(Matching(s, n))
         /\ Times(s, n) \in 0 .. Len(s)
<1>1. Len(s) \in Nat /\ DOMAIN s = 1 .. Len(s)
  OBVIOUS
<1>2. IsFiniteSet(1 .. Len(s)) /\ Cardinality(1 .. Len(s)) = Len(s)
  BY <1>1, FS_Interval, SMTT(30)
<1>3. Matching(s, n) \in SUBSET (1 .. Len(s))
  BY <1>1 DEF Matching
<1>4. IsFiniteSet(Matching(s, n)) /\ Cardinality(Matching(s, n)) <= Len(s)
  BY <1>2, <1>3, FS_Subset
<1> QED BY <1>1, <1>4, FS_CardinalityType DEF Times

\* A number that is put in is found once more, and every other as often as
\* before.
LEMMA TimesInserted ==
  ASSUME NEW S, NEW s \in Seq(S), NEW new \in Seq(S), NEW p, NEW v, Inserted(new, s, p, v), NEW n
  PROVE  Times(new, n) = Times(s, n) + (IF Meaning(v) = n THEN 1 ELSE 0)
<1> DEFINE A == Matching(s, n)
           B == Matching(new, n)
           R == B \ {p}
<1>1. Len(s) \in Nat /\ DOMAIN s = 1 .. Len(s) /\ DOMAIN new = 1 .. Len(s) + 1 /\ p \in 1 .. Len(s) + 1
  BY DEF Inserted
<1>2. IsFiniteSet(A) /\ IsFiniteSet(B)
  BY TimesBounded
<1>3. Cardinality(R) = Cardinality(A)
  <2> DEFINE f == [k \in A |-> IF k < p THEN k ELSE k + 1]
  <2>1. f \in [A -> R]
    BY <1>1 DEF Inserted, Matching
  <2>2. \A j, k \in A : f[j] = f[k] => j = k
    BY <1>1 DEF Matching
  <2>3. \A m \in R : \E k \in A : f[k] = m
    <3> TAKE m \in R
    <3>1. m \in 1 .. Len(s) + 1 /\ m # p /\ Meaning(new[m]) = n
      BY <1>1 DEF Matching
    <3>2. CASE m < p
      <4>1. m \in A
        BY <1>1, <3>1, <3>2 DEF Inserted, Matching
      <4> QED BY <3>2, <4>1
    <3>3. CASE m > p
      <4>1. m - 1 \in p .. Len(s) /\ (m - 1) + 1 = m
        BY <1>1, <3>1, <3>3
      <4>2. m - 1 \in A /\ ~(m - 1 < p)
        BY <1>1, <3>1, <4>1 DEF Inserted, Matching
      <4> QED BY <4>1, <4>2
    <3> QED BY <1>1, <3>1, <3>2, <3>3
  <2> HIDE DEF f, A, R
  <2>4. f \in Bijection(A, R)
    BY <2>1, <2>2, <2>3 DEF Bijection, Injection, Surjection, IsInjective
  <2>5. ExistsBijection(A, R)
    BY <2>4 DEF ExistsBijection
  <2> QED BY <1>2, <2>5, FS_Bijection
<1>4. p \in B <=> Meaning(v) = n
  BY <1>1 DEF Inserted, Matching
<1>5. Cardinality(R) = IF p \in B THEN Cardinality(B) - 1 ELSE Cardinality(B)
  BY <1>2, FS_RemoveElement
<1>6. Cardinality(A) \in Nat /\ Cardinality(B) \in Nat
  BY <1>2, FS_CardinalityType
<1> HIDE DEF A, B, R
<1>7. Cardinality(B) = Cardinality(A) + (IF Meaning(v) = n THEN 1 ELSE 0)
  BY <1>3, <1>4, <1>5, <1>6
<1> QED BY <1>7 DEF A, B, Times

-----------------------------------------------------------------------------
(* Doubles *)

\* u gives the distances of the doubles up to n.
UlpsTo(u, n) ==
  u = [m \in 0 .. n |-> IF m < DoubleLimit THEN 1 ELSE 2 * u[m \div 2]]

LEMMA Half ==
  ASSUME NEW m \in Nat
  PROVE  /\ m \div 2 \in Nat
         /\ 2 * (m \div 2) <= m /\ m <= 2 * (m \div 2) + 1
         /\ m > 0 => m \div 2 < m
         /\ \A n \in Nat : m <= n => m \div 2 <= n \div 2
OBVIOUS

LEMMA UlpsExist ==
  ASSUME NEW n \in Nat
  PROVE  \E u : UlpsTo(u, n)
<1>1. PICK D \in Nat : D = DoubleLimit /\ D > 0
  BY WidthAssumption
<1> DEFINE G == {k \in Nat : \E u : UlpsTo(u, k)}
<1>2. 0 \in G
  <2>1. [m \in 0 .. 0 |-> 1] = [m \in 0 .. 0 |-> IF m < DoubleLimit THEN 1 ELSE 2 * [i \in 0 .. 0 |-> 1][m \div 2]]
    BY <1>1
  <2>2. UlpsTo([m \in 0 .. 0 |-> 1], 0)
    BY <2>1 DEF UlpsTo
  <2> QED BY <2>2
<1>3. \A k \in G \cap Nat : k + 1 \in G
  <2> SUFFICES ASSUME NEW k \in Nat, NEW u, UlpsTo(u, k)
               PROVE  k + 1 \in G
    OBVIOUS
  <2> DEFINE more == [m \in 0 .. k + 1 |-> IF m <= k THEN u[m]
                                          ELSE IF m < DoubleLimit THEN 1 ELSE 2 * u[m \div 2]]
  <2>1. \A m \in 0 .. k : more[m] = u[m]
    OBVIOUS
  <2>2. ASSUME NEW m \in 0 .. k + 1, ~(m < DoubleLimit)
        PROVE  m \div 2 \in 0 .. k /\ more[m \div 2] = u[m \div 2]
    <3>1. m \in Nat /\ m > 0 /\ m <= k + 1
      BY <1>1, <2>2
    <3>2. m \div 2 \in Nat /\ m \div 2 < m
      BY <3>1, Half
    <3>3. m \div 2 \in 0 .. k
      BY <3>1, <3>2
    <3> QED BY <2>1, <3>3
  <2>3. ASSUME NEW m \in 0 .. k + 1
        PROVE  more[m] = IF m < DoubleLimit THEN 1 ELSE 2 * more[m \div 2]
    <3>1. CASE m <= k
      <4>1. m \in 0 .. k /\ more[m] = u[m]
        BY <3>1
      <4>2. u[m] = IF m < DoubleLimit THEN 1 ELSE 2 * u[m \div 2]
        BY <4>1 DEF UlpsTo
      <4> QED BY <2>2, <4>1, <4>2
    <3>2. CASE ~(m <= k)
      BY <2>2, <3>2
    <3> QED BY <3>1, <3>2
  <2>4. more = [m \in 0 .. k + 1 |-> more[m]]
    OBVIOUS
  <2>5. UlpsTo(more, k + 1)
    <3> HIDE DEF more
    <3> QED BY <2>3, <2>4 DEF UlpsTo
  <2> HIDE DEF more
  <2> QED BY <2>5
<1> HIDE DEF G
<1>4. n \in G
  BY <1>2, <1>3, NaturalInduction
<1> QED BY <1>4 DEF G

LEMMA UlpsUnique ==
  ASSUME NEW u, NEW v, NEW n \in Nat, NEW k \in Nat, UlpsTo(u, n), UlpsTo(v, k), n <= k
  PROVE  \A m \in 0 .. n : u[m] = v[m]
<1>1. PICK D \in Nat : D = DoubleLimit /\ D > 0
  BY WidthAssumption
<1> DEFINE Bad == {m \in 0 .. n : u[m] # v[m]}
<1> SUFFICES ASSUME Bad # {} PROVE FALSE
  OBVIOUS
<1>2. PICK m \in Bad : \A i \in Bad : m <= i
  <2>1. Bad \in SUBSET Nat
    OBVIOUS
  <2> HIDE DEF Bad
  <2> QED BY <2>1, LeastNatural
<1>3. m \in 0 .. n /\ m \in 0 .. k /\ m \in Nat
  BY <1>2
<1>4. u[m] = (IF m < DoubleLimit THEN 1 ELSE 2 * u[m \div 2])
      /\ v[m] = (IF m < DoubleLimit THEN 1 ELSE 2 * v[m \div 2])
  BY <1>3 DEF UlpsTo
<1>5. ~(m < DoubleLimit)
  BY <1>2, <1>4
<1>6. m \div 2 \in Nat /\ m \div 2 < m /\ m \div 2 \in 0 .. n /\ ~(m <= m \div 2)
  <2>1. m > 0
    BY <1>1, <1>3, <1>5
  <2>2. m \div 2 \in Nat /\ m \div 2 < m
    BY <1>3, <2>1, Half
  <2> QED BY <1>3, <2>2
<1>7. m \div 2 \notin Bad
  BY <1>2, <1>6
<1>8. u[m \div 2] = v[m \div 2]
  BY <1>6, <1>7
<1> QED BY <1>2, <1>4, <1>5, <1>8

\* Ulp is what its definition says.
LEMMA UlpRecursion ==
  \A m \in Nat : Ulp[m] = IF m < DoubleLimit THEN 1 ELSE 2 * Ulp[m \div 2]
<1>1. PICK D \in Nat : D = DoubleLimit /\ D > 0
  BY WidthAssumption
<1> DEFINE upto(n) == CHOOSE u : UlpsTo(u, n)
           all == [n \in Nat |-> upto(n)[n]]
<1>2. \A n \in Nat : UlpsTo(upto(n), n)
  BY UlpsExist
<1>3. ASSUME NEW n \in Nat, ~(n < DoubleLimit)
      PROVE  upto(n)[n \div 2] = all[n \div 2]
  <2>1. n > 0
    BY <1>1, <1>3
  <2>2. n \div 2 \in Nat /\ n \div 2 <= n
    BY <2>1, Half
  <2>3. PICK h \in Nat : h = n \div 2
    BY <2>2
  <2>4. UlpsTo(upto(h), h) /\ UlpsTo(upto(n), n) /\ h <= n
    BY <1>2, <2>2, <2>3
  <2> HIDE DEF upto
  <2>5. \A m \in 0 .. h : upto(h)[m] = upto(n)[m]
    BY <2>4, UlpsUnique
  <2>6. h \in 0 .. h
    BY <2>3
  <2> QED BY <2>3, <2>5, <2>6
<1>4. ASSUME NEW n \in Nat
      PROVE  all[n] = IF n < DoubleLimit THEN 1 ELSE 2 * all[n \div 2]
  <2>1. UlpsTo(upto(n), n) /\ n \in 0 .. n
    BY <1>2
  <2> HIDE DEF upto
  <2>2. upto(n)[n] = IF n < DoubleLimit THEN 1 ELSE 2 * upto(n)[n \div 2]
    BY <2>1 DEF UlpsTo
  <2> HIDE DEF all
  <2>3. all[n] = upto(n)[n]
    BY DEF all
  <2> QED BY <1>3, <2>2, <2>3
<1>5. all = [n \in Nat |-> IF n < DoubleLimit THEN 1 ELSE 2 * all[n \div 2]]
  <2>1. all = [n \in Nat |-> all[n]]
    OBVIOUS
  <2> HIDE DEF all
  <2> QED BY <1>4, <2>1
<1> HIDE DEF all
<1>6. Ulp = [n \in Nat |-> IF n < DoubleLimit THEN 1 ELSE 2 * Ulp[n \div 2]]
  BY <1>5, Zenon DEF Ulp
<1> QED BY <1>6

\* Every number lies below DoubleLimit steps of its Ulp, and not below half as
\* many unless the step is 1.
LEMMA UlpFits ==
  ASSUME NEW m \in Nat
  PROVE  /\ Ulp[m] \in Nat /\ Ulp[m] > 0
         /\ m < DoubleLimit * Ulp[m]
         /\ Ulp[m] = 1 \/ DoubleLimit * Ulp[m] <= 2 * m
<1>1. PICK D \in Nat : D = DoubleLimit /\ D > 0
  BY WidthAssumption
<1> DEFINE Fits(n) == /\ Ulp[n] \in Nat /\ Ulp[n] > 0
                      /\ n < D * Ulp[n]
                      /\ Ulp[n] = 1 \/ D * Ulp[n] <= 2 * n
           Bad == {n \in Nat : ~Fits(n)}
<1> SUFFICES ASSUME Bad # {} PROVE FALSE
  BY <1>1
<1>2. PICK n \in Bad : \A i \in Bad : n <= i
  <2>1. Bad \in SUBSET Nat
    OBVIOUS
  <2> HIDE DEF Bad
  <2> QED BY <2>1, LeastNatural
<1>3. n \in Nat /\ ~Fits(n)
  BY <1>2
<1>4. CASE n < D
  <2>1. Ulp[n] = 1
    BY <1>1, <1>3, <1>4, UlpRecursion
  <2> QED BY <1>1, <1>3, <1>4, <2>1
<1>5. CASE ~(n < D)
  <2>1. PICK h \in Nat : h = n \div 2 /\ 2 * h <= n /\ n <= 2 * h + 1 /\ h < n
    <3>1. n > 0
      BY <1>1, <1>3, <1>5
    <3> QED BY <1>3, <3>1, Half
  <2>2. Ulp[n] = 2 * Ulp[h]
    BY <1>1, <1>3, <1>5, <2>1, UlpRecursion
  <2>3. ~(n <= h)
    BY <1>3, <2>1
  <2>4. Fits(h)
    BY <1>2, <2>1, <2>3
  <2>5. PICK u \in Nat : u = Ulp[h]
    BY <2>4
  <2>6. PICK p \in Nat : p = D * u
    BY <1>1
  <2>7. u > 0 /\ h < p /\ (u = 1 \/ p <= 2 * h) /\ D * (2 * u) = 2 * p
    BY <1>1, <2>4, <2>5, <2>6
  <2>8. n < 2 * p
    BY <1>3, <2>1, <2>6, <2>7
  <2>9. 2 * p <= 2 * n
    <3>1. CASE u = 1
      BY <1>1, <1>3, <1>5, <2>6, <3>1
    <3>2. CASE p <= 2 * h
      BY <1>3, <2>1, <2>6, <3>2
    <3> QED BY <2>7, <3>1, <3>2
  <2>10. Ulp[n] = 2 * u /\ 2 * u \in Nat /\ 2 * u > 0
    BY <2>2, <2>5, <2>7
  <2>11. D * Ulp[n] = 2 * p
    BY <2>7, <2>10
  <2>12. Fits(n)
    BY <2>8, <2>9, <2>10, <2>11
  <2> QED BY <1>3, <2>12
<1> QED BY <1>4, <1>5

\* A greater number has the same step or one at least twice as large.
LEMMA UlpGrows ==
  ASSUME NEW m \in Nat, NEW n \in Nat, m <= n
  PROVE  Ulp[m] = Ulp[n] \/ 2 * Ulp[m] <= Ulp[n]
<1>1. PICK D \in Nat : D = DoubleLimit /\ D > 0
  BY WidthAssumption
<1> DEFINE Grows(i, k) == Ulp[i] = Ulp[k] \/ 2 * Ulp[i] <= Ulp[k]
           Bad == {k \in Nat : \E i \in 0 .. k : ~Grows(i, k)}
<1> SUFFICES ASSUME Bad # {} PROVE FALSE
  <2>1. Bad = {}
    OBVIOUS
  <2>2. n \notin Bad /\ m \in 0 .. n
    BY <2>1
  <2> QED BY <2>2
<1>2. PICK k \in Bad : \A i \in Bad : k <= i
  <2>1. Bad \in SUBSET Nat
    OBVIOUS
  <2> HIDE DEF Bad
  <2> QED BY <2>1, LeastNatural
<1>3. PICK i \in 0 .. k : k \in Nat /\ i \in Nat /\ i <= k /\ ~Grows(i, k)
  BY <1>2
<1>4. Ulp[i] \in Nat /\ Ulp[k] \in Nat /\ Ulp[i] > 0 /\ Ulp[k] > 0
  BY <1>3, UlpFits
<1>5. CASE k < D
  <2>1. i < D
    BY <1>1, <1>3, <1>5
  <2>2. Ulp[i] = 1 /\ Ulp[k] = 1
    BY <1>1, <1>3, <1>5, <2>1, UlpRecursion
  <2> QED BY <1>3, <2>2
<1>6. CASE ~(k < D)
  <2>1. PICK h \in Nat : h = k \div 2 /\ h < k
    <3>1. k > 0
      BY <1>1, <1>3, <1>6
    <3> QED BY <1>3, <3>1, Half
  <2>2. Ulp[k] = 2 * Ulp[h] /\ Ulp[h] \in Nat /\ Ulp[h] > 0
    BY <1>1, <1>3, <1>6, <2>1, UlpRecursion, UlpFits
  <2>3. CASE i < D
    <3>1. Ulp[i] = 1
      BY <1>1, <1>3, <2>3, UlpRecursion
    <3> QED BY <1>3, <2>2, <3>1
  <2>4. CASE ~(i < D)
    <3>1. PICK g \in Nat : g = i \div 2 /\ g <= h
      BY <1>3, <2>1, Half
    <3>2. Ulp[i] = 2 * Ulp[g] /\ Ulp[g] \in Nat
      BY <1>1, <1>3, <2>4, <3>1, UlpRecursion, UlpFits
    <3>3. h \notin Bad /\ g \in 0 .. h
      <4>1. ~(k <= h)
        BY <1>3, <2>1
      <4> QED BY <1>2, <3>1, <4>1
    <3>4. Grows(g, h)
      BY <3>3
    <3> QED BY <1>3, <2>2, <3>2, <3>4
  <2> QED BY <2>3, <2>4
<1> QED BY <1>5, <1>6

\* A size rounded to a multiple of u, as AsDouble does.
Rounded(m, u) ==
  LET q     == m \div u
      twice == 2 * (m % u)
      up    == twice > u \/ (twice = u /\ q % 2 = 1)
  IN  (IF up THEN q + 1 ELSE q) * u

Steps(m, u) ==
  LET q     == m \div u
      twice == 2 * (m % u)
      up    == twice > u \/ (twice = u /\ q % 2 = 1)
  IN  IF up THEN q + 1 ELSE q

LEMMA Division ==
  ASSUME NEW m \in Nat, NEW u \in Nat, u > 0
  PROVE  /\ m \div u \in Nat /\ (m % u) \in Nat /\ (m % u) < u
         /\ ((m \div u) * u) + (m % u) = m
OBVIOUS

LEMMA TimesMonotone ==
  ASSUME NEW a \in Nat, NEW b \in Nat, NEW c \in Nat, a <= b
  PROVE  a * c <= b * c /\ c * a <= c * b
OBVIOUS

LEMMA StepsFacts ==
  ASSUME NEW m \in Nat, NEW u \in Nat, u > 0
  PROVE  /\ Steps(m, u) \in Nat
         /\ m \div u <= Steps(m, u) /\ Steps(m, u) <= (m \div u) + 1
         /\ Rounded(m, u) = Steps(m, u) * u
<1>1. PICK q \in Nat : q = m \div u
  BY Division
<1>2. Steps(m, u) \in {q, q + 1} /\ Rounded(m, u) = Steps(m, u) * u
  BY <1>1 DEF Steps, Rounded
<1> QED BY <1>1, <1>2

\* Rounding to multiples of the same number keeps the order.
LEMMA StepsMonotone ==
  ASSUME NEW m \in Nat, NEW n \in Nat, m <= n, NEW u \in Nat, u > 0
  PROVE  Steps(m, u) <= Steps(n, u)
<1>1. PICK q \in Nat, r \in Nat : q = m \div u /\ r = m % u /\ (q * u) + r = m /\ r < u
  BY Division
<1>2. PICK p \in Nat, t \in Nat : p = n \div u /\ t = n % u /\ (p * u) + t = n /\ t < u
  BY Division
<1>3. q <= p
  <2> SUFFICES ASSUME p + 1 <= q PROVE FALSE
    BY <1>1, <1>2
  <2>1. (p + 1) * u <= q * u /\ (p + 1) * u = (p * u) + u
    BY <1>1, <1>2, TimesMonotone
  <2>2. PICK a \in Nat, b \in Nat : a = p * u /\ b = q * u
    BY <1>1, <1>2
  <2> QED BY <1>1, <1>2, <2>1, <2>2
<1>4. CASE q = p
  <2>1. r <= t
    <3>1. PICK a \in Nat : a = p * u
      BY <1>2
    <3> QED BY <1>1, <1>2, <1>4, <3>1
  <2> QED BY <1>1, <1>2, <1>4, <2>1 DEF Steps
<1>5. CASE q # p
  <2>1. q + 1 <= p
    BY <1>1, <1>2, <1>3, <1>5
  <2>2. Steps(m, u) <= q + 1 /\ p <= Steps(n, u) /\ Steps(m, u) \in Nat /\ Steps(n, u) \in Nat
    BY <1>1, <1>2, StepsFacts
  <2> QED BY <1>1, <1>2, <2>1, <2>2
<1> QED BY <1>4, <1>5

\* A larger step only leads further.
LEMMA RoundedMonotone ==
  ASSUME NEW m \in Nat, NEW n \in Nat, m <= n
  PROVE  /\ Rounded(m, Ulp[m]) \in Nat /\ Rounded(n, Ulp[n]) \in Nat
         /\ Rounded(m, Ulp[m]) <= Rounded(n, Ulp[n])
<1>1. PICK H \in Nat, D \in Nat : D = DoubleLimit /\ D = 2 * H /\ D > 0
  <2>1. DoubleLimit \in Nat /\ DoubleLimit > 0 /\ DoubleLimit % 2 = 0
    BY WidthAssumption
  <2>2. DoubleLimit \div 2 \in Nat /\ DoubleLimit = 2 * (DoubleLimit \div 2)
    BY <2>1
  <2> QED BY <2>1, <2>2
<1>2. PICK u \in Nat : u = Ulp[m] /\ u > 0 /\ m < D * u
  BY <1>1, UlpFits
<1>3. PICK v \in Nat : v = Ulp[n] /\ v > 0 /\ (v = 1 \/ D * v <= 2 * n)
  BY <1>1, UlpFits
<1>4. PICK a \in Nat : a = Steps(m, u) /\ a <= (m \div u) + 1 /\ Rounded(m, u) = a * u
  BY <1>2, StepsFacts
<1>5. PICK b \in Nat : b = Steps(n, v) /\ n \div v <= b /\ Rounded(n, v) = b * v
  BY <1>3, StepsFacts
<1>6. a * u \in Nat /\ b * v \in Nat
  BY <1>4, <1>5
<1>7. CASE u = v
  <2>1. a <= b
    BY <1>2, <1>4, <1>5, <1>7, StepsMonotone
  <2>2. a * u <= b * v
    BY <1>4, <1>5, <1>7, <2>1, TimesMonotone
  <2> QED BY <1>2, <1>3, <1>4, <1>5, <1>6, <2>2
<1>8. CASE u # v
  <2>1. 2 * u <= v
    BY <1>2, <1>3, <1>8, UlpGrows
  <2>2. a <= D
    <3>1. PICK q \in Nat, r \in Nat : q = m \div u /\ r = m % u /\ (q * u) + r = m /\ r < u
      BY <1>2, Division
    <3>2. ~(D <= q)
      <4> SUFFICES ASSUME D <= q PROVE FALSE
        OBVIOUS
      <4>1. D * u <= q * u
        BY <1>1, <3>1, TimesMonotone
      <4>2. PICK x \in Nat, y \in Nat : x = D * u /\ y = q * u
        BY <1>1, <3>1
      <4> QED BY <1>2, <3>1, <4>1, <4>2
    <3> QED BY <1>1, <1>4, <3>1, <3>2
  <2>3. H <= b
    <3>1. PICK p \in Nat, t \in Nat : p = n \div v /\ (p * v) + t = n /\ t < v
      BY <1>3, Division
    <3>2. v # 1
      BY <1>2, <2>1
    <3>3. H * v <= n
      <4>1. D * v = 2 * (H * v)
        BY <1>1
      <4>2. PICK x \in Nat : x = H * v
        BY <1>1
      <4> QED BY <1>3, <3>2, <4>1, <4>2
    <3>4. ~(p + 1 <= H)
      <4> SUFFICES ASSUME p + 1 <= H PROVE FALSE
        OBVIOUS
      <4>1. (p + 1) * v <= H * v /\ (p + 1) * v = (p * v) + v
        BY <1>1, <3>1, TimesMonotone
      <4>2. PICK x \in Nat, y \in Nat : x = H * v /\ y = p * v
        BY <1>1, <3>1
      <4> QED BY <3>1, <3>3, <4>1, <4>2
    <3> QED BY <1>1, <1>5, <3>1, <3>4
  <2>4. a * u <= D * u /\ H * v <= b * v
    BY <1>1, <2>2, <2>3, TimesMonotone
  <2>5. D * u <= H * v
    <3>1. D * u = H * (2 * u)
      BY <1>1
    <3>2. H * (2 * u) <= H * v
      BY <1>1, <2>1, TimesMonotone
    <3> QED BY <3>1, <3>2
  <2>6. a * u <= b * v
    <3>1. PICK x \in Nat, y \in Nat : x = D * u /\ y = H * v
      BY <1>1
    <3> QED BY <1>6, <2>4, <2>5, <3>1
  <2> QED BY <1>2, <1>3, <1>4, <1>5, <1>6, <2>6
<1> QED BY <1>7, <1>8

\* Conversion to double keeps the order, though not strictly.
LEMMA AsDoubleMonotone ==
  ASSUME NEW m \in Int, NEW n \in Int, m <= n
  PROVE  AsDouble(m) \in Int /\ AsDouble(n) \in Int /\ AsDouble(m) <= AsDouble(n)
<1>1. \A k \in Int : AsDouble(k) = IF k < 0 THEN -Rounded(-k, Ulp[-k]) ELSE Rounded(k, Ulp[k])
  BY DEF AsDouble, Rounded
<1>2. \A k \in Nat : Rounded(k, Ulp[k]) \in Nat
  BY RoundedMonotone
<1>3. CASE m < 0 /\ n < 0
  <2>1. -n \in Nat /\ -m \in Nat /\ -n <= -m
    BY <1>3
  <2>2. Rounded(-n, Ulp[-n]) <= Rounded(-m, Ulp[-m])
    BY <2>1, RoundedMonotone
  <2> QED BY <1>1, <1>2, <1>3, <2>1, <2>2
<1>4. CASE m < 0 /\ n >= 0
  BY <1>1, <1>2, <1>4
<1>5. CASE m >= 0
  BY <1>1, <1>2, <1>5, RoundedMonotone
<1> QED BY <1>3, <1>4, <1>5

-----------------------------------------------------------------------------
(* Sorting *)

LEMMA NumIsDouble ==
  ASSUME NEW v \in Elem
  PROVE  Meaning(v) \in Int /\ get_num(v) = AsDouble(Meaning(v))
<1>1. CASE is_int(v)
  BY <1>1, ElemMeaning DEF get_num, Meaning, is_int, is_sint, is_uint, get_uint
<1>2. CASE ~is_int(v)
  <2>1. PICK d \in Double : v = real(d)
    BY <1>2 DEF Elem, Integer, is_int
  <2>2. AsDouble(d) = d
    BY ArgumentAssumption
  <2>3. Meaning(v) = d /\ get_num(v) = d
    BY <2>1 DEF get_num, Meaning, real, is_sint, is_uint
  <2> QED BY <2>2, <2>3, ElemMeaning
<1> QED BY <1>1, <1>2

\* The comparator never goes against the numbers, and is strict with them where
\* it looks at doubles that differ.
LEMMA BelowFacts ==
  ASSUME NEW a \in Elem, NEW b \in Elem
  PROVE  LET x == Meaning(a)
             y == Meaning(b)
         IN  /\ x \in Int /\ y \in Int /\ AsDouble(x) \in Int /\ AsDouble(y) \in Int
             /\ Below(a, b) => x < y /\ AsDouble(x) <= AsDouble(y)
             /\ is_int(a) /\ is_int(b) => (Below(a, b) <=> x < y)
             /\ ~(is_int(a) /\ is_int(b)) => (Below(a, b) <=> AsDouble(x) < AsDouble(y))
<1> DEFINE x == Meaning(a)
           y == Meaning(b)
<1>1. x \in Int /\ y \in Int /\ get_num(a) = AsDouble(x) /\ get_num(b) = AsDouble(y)
  BY NumIsDouble
<1>2. is_int(a) /\ is_int(b) => (Below(a, b) <=> x < y)
  <2>1. ASSUME is_int(a), is_int(b) PROVE a \in Integer /\ b \in Integer
    BY <2>1 DEF Elem, is_int, real
  <2> QED BY <2>1, BelowIsNumericOrder
<1>3. ~(is_int(a) /\ is_int(b)) => (Below(a, b) <=> AsDouble(x) < AsDouble(y))
  BY <1>1 DEF Below, is_int, is_sint, is_uint
<1> HIDE DEF x, y
<1>4. AsDouble(x) \in Int /\ AsDouble(y) \in Int
  BY <1>1, AsDoubleMonotone
<1>5. x <= y => AsDouble(x) <= AsDouble(y)
  BY <1>1, AsDoubleMonotone
<1>6. y <= x => AsDouble(y) <= AsDouble(x)
  BY <1>1, AsDoubleMonotone
<1>7. Below(a, b) => x < y /\ AsDouble(x) <= AsDouble(y)
  BY <1>1, <1>2, <1>3, <1>4, <1>5, <1>6
<1> QED BY <1>1, <1>2, <1>3, <1>4, <1>7 DEF x, y

\* The comparator of ArraySort is a partial order on whatever numbers an array
\* can hold, of any subtypes and beyond what doubles tell apart.
LEMMA ComparatorNeverContradicts ==
  ASSUME NEW E \in SUBSET Elem, NEW asc
  PROVE  PartialOrder(E, asc)
<1>1. ASSUME NEW a \in Elem, NEW b \in Elem, Below(a, b)
      PROVE  /\ ~Below(b, a)
             /\ \A c \in Elem : Below(b, c) => Below(a, c)
  <2> DEFINE x == Meaning(a)
             y == Meaning(b)
  <2>1. x \in Int /\ y \in Int /\ x < y /\ (Below(b, a) => y < x)
    BY <1>1, BelowFacts
  <2>2. ~Below(b, a)
    BY <2>1
  <2>3. ASSUME NEW c \in Elem, Below(b, c) PROVE Below(a, c)
    <3> DEFINE z == Meaning(c)
    <3>1. z \in Int /\ AsDouble(x) \in Int /\ AsDouble(y) \in Int /\ AsDouble(z) \in Int
      BY BelowFacts
    <3>2. /\ y < z /\ AsDouble(x) <= AsDouble(y) /\ AsDouble(y) <= AsDouble(z)
          /\ ~(is_int(a) /\ is_int(b)) => AsDouble(x) < AsDouble(y)
          /\ ~(is_int(b) /\ is_int(c)) => AsDouble(y) < AsDouble(z)
      BY <1>1, <2>3, BelowFacts
    <3>3. /\ is_int(a) /\ is_int(c) => (Below(a, c) <=> x < z)
          /\ ~(is_int(a) /\ is_int(c)) => (Below(a, c) <=> AsDouble(x) < AsDouble(z))
      BY BelowFacts
    <3> HIDE DEF x, y, z
    <3>4. CASE is_int(a) /\ is_int(c)
      BY <2>1, <3>1, <3>2, <3>3, <3>4
    <3>5. CASE ~(is_int(a) /\ is_int(c))
      <4>1. AsDouble(x) < AsDouble(z)
        BY <3>1, <3>2, <3>5
      <4> QED BY <3>3, <3>5, <4>1
    <3> QED BY <3>4, <3>5
  <2> QED BY <2>2, <2>3
<1>2. CASE asc
  BY <1>1, <1>2 DEF PartialOrder, Compare
<1>3. CASE ~asc
  <2>1. ASSUME NEW a \in E, NEW b \in E, Below(b, a)
        PROVE  /\ ~Below(a, b)
               /\ \A c \in E : Below(c, b) => Below(c, a)
    BY <1>1, <2>1
  <2> QED BY <1>3, <2>1 DEF PartialOrder, Compare
<1> QED BY <1>2, <1>3

\* a may stand before b in a sorted array.
InOrder(a, b, asc) == IF asc THEN Meaning(a) <= Meaning(b) ELSE Meaning(b) <= Meaning(a)

\* The comparator orders the numbers in E by what they stand for.
Numeric(E, asc) == \A a, b \in E : Compare(a, b, asc) <=> ~InOrder(b, a, asc)

LEMMA OrderIsLinear ==
  ASSUME NEW a \in Elem, NEW b \in Elem, NEW c \in Elem, NEW asc
  PROVE  /\ InOrder(a, b, asc) \/ InOrder(b, a, asc)
         /\ InOrder(a, b, asc) /\ InOrder(b, c, asc) => InOrder(a, c, asc)
BY ElemMeaning DEF InOrder

\* Where Place puts v: after an element v does not belong before, if there is
\* one, and before elements it belongs before.
Placed(new, done, p, v, asc) ==
  /\ Inserted(new, done, p, v)
  /\ p = 1 => Compare(v, done[1], asc)
  /\ p > 1 => /\ ~Compare(v, done[p - 1], asc)
              /\ \A k \in p .. Len(done) : Compare(v, done[k], asc)

LEMMA PlaceFacts ==
  ASSUME NEW S, NEW done \in Seq(S), done # << >>, NEW v \in S, NEW asc
  PROVE  /\ Place(done, v, asc) \in Seq(S)
         /\ \E p : Placed(Place(done, v, asc), done, p, v, asc)
<1> DEFINE fits == {k \in DOMAIN done : ~Compare(v, done[k], asc)}
           at   == IF Compare(v, done[1], asc) THEN 0 ELSE Max(fits)
<1>1. Len(done) \in Nat /\ Len(done) > 0 /\ DOMAIN done = 1 .. Len(done)
  BY EmptySeq
<1>2. at \in 0 .. Len(done)
      /\ (at = 0 => Compare(v, done[1], asc))
      /\ (at > 0 => ~Compare(v, done[at], asc) /\ \A k \in at + 1 .. Len(done) : Compare(v, done[k], asc))
  <2>1. CASE Compare(v, done[1], asc)
    BY <1>1, <2>1
  <2>2. CASE ~Compare(v, done[1], asc)
    <3>1. fits \in SUBSET (0 .. Len(done)) /\ 1 \in fits
      BY <1>1, <2>2
    <3> HIDE DEF fits
    <3>2. \E m \in fits : \A k \in fits : m >= k
      <4>1. PICK m \in fits : \A k \in fits : k <= m
        BY <1>1, <3>1, GreatestNatural
      <4>2. \A k \in fits : m \in Int /\ k \in Int
        BY <1>1, <3>1
      <4> QED BY <4>1, <4>2
    <3>3. Max(fits) \in fits /\ \A k \in fits : Max(fits) >= k
      BY <3>2, Zenon DEF Max
    <3>4. PICK m \in fits : m = Max(fits) /\ m = at /\ \A k \in fits : m >= k
      BY <2>2, <3>3
    <3> HIDE DEF at
    <3>5. m \in 1 .. Len(done) /\ ~Compare(v, done[m], asc)
      BY <1>1, <3>4 DEF fits
    <3>6. \A k \in m + 1 .. Len(done) : Compare(v, done[k], asc)
      <4> TAKE k \in m + 1 .. Len(done)
      <4>1. ~(m >= k) /\ k \in DOMAIN done
        BY <1>1, <3>5
      <4>2. k \notin fits
        BY <3>4, <4>1
      <4> QED BY <4>1, <4>2 DEF fits
    <3> QED BY <1>1, <3>4, <3>5, <3>6
  <2> QED BY <2>1, <2>2
<1>3. Place(done, v, asc) = InsertAt(done, at + 1, v)
  BY Zenon DEF Place
<1> HIDE DEF at
<1>4. PICK p \in 1 .. Len(done) + 1 : p = at + 1
  BY <1>1, <1>2
<1>5. Place(done, v, asc) = InsertAt(done, p, v)
  BY <1>3, <1>4
<1>6. Place(done, v, asc) \in Seq(S) /\ Inserted(Place(done, v, asc), done, p, v)
  BY <1>5, InsertAtInserts
<1>7. /\ p = 1 => Compare(v, done[1], asc)
      /\ p > 1 => /\ ~Compare(v, done[p - 1], asc)
                  /\ \A k \in p .. Len(done) : Compare(v, done[k], asc)
  <2>1. p - 1 = at /\ (p = 1 <=> at = 0) /\ (p > 1 <=> at > 0)
    BY <1>1, <1>2, <1>4
  <2> QED BY <1>2, <1>4, <2>1
<1> QED BY <1>6, <1>7 DEF Placed

\* An ordered array stays ordered when Place adds an element, if the comparator
\* is numeric.
LEMMA PlaceOrders ==
  ASSUME NEW E \in SUBSET Elem, NEW done \in Seq(E), NEW new \in Seq(E), NEW v \in E, NEW p, NEW asc,
         done # << >>, Numeric(E, asc), Placed(new, done, p, v, asc),
         \A j, k \in 1 .. Len(done) : j < k => InOrder(done[j], done[k], asc)
  PROVE  \A j, k \in 1 .. Len(new) : j < k => InOrder(new[j], new[k], asc)
<1>1. Len(done) \in Nat /\ Len(done) > 0 /\ Len(new) = Len(done) + 1 /\ p \in 1 .. Len(done) + 1
  BY EmptySeq DEF Placed, Inserted
<1>2. \A k \in 1 .. Len(done) : done[k] \in E /\ done[k] \in Elem
  OBVIOUS
<1>3. v \in Elem
  OBVIOUS
<1>4. /\ \A k \in 1 .. p - 1 : new[k] = done[k]
      /\ new[p] = v
      /\ \A k \in p + 1 .. Len(done) + 1 : k - 1 \in p .. Len(done) /\ new[k] = done[k - 1]
  <2>1. \A k \in p .. Len(done) : new[k + 1] = done[k]
    BY DEF Placed, Inserted
  <2>2. \A k \in p + 1 .. Len(done) + 1 : k - 1 \in p .. Len(done) /\ (k - 1) + 1 = k
    BY <1>1
  <2>3. \A k \in p + 1 .. Len(done) + 1 : new[k] = done[k - 1]
    BY <2>1, <2>2
  <2> QED BY <2>2, <2>3 DEF Placed, Inserted
<1>5. ASSUME NEW k \in 1 .. p - 1 PROVE InOrder(done[k], v, asc)
  <2>1. p > 1 /\ p - 1 \in 1 .. Len(done) /\ k \in 1 .. Len(done)
    BY <1>1
  <2>2. ~Compare(v, done[p - 1], asc)
    BY <2>1 DEF Placed
  <2>3. InOrder(done[p - 1], v, asc)
    BY <1>2, <2>1, <2>2 DEF Numeric
  <2>4. k = p - 1 \/ InOrder(done[k], done[p - 1], asc)
    BY <1>1, <2>1
  <2> QED BY <1>2, <1>3, <2>1, <2>3, <2>4, OrderIsLinear
<1>6. ASSUME NEW k \in p .. Len(done) PROVE InOrder(v, done[k], asc)
  <2>1. k \in 1 .. Len(done) /\ 1 \in 1 .. Len(done)
    BY <1>1
  <2>2. CASE p > 1
    <3>1. Compare(v, done[k], asc)
      BY <2>2 DEF Placed
    <3>2. ~InOrder(done[k], v, asc)
      BY <1>2, <2>1, <3>1 DEF Numeric
    <3> QED BY <1>2, <1>3, <2>1, <3>2, OrderIsLinear
  <2>3. CASE p = 1
    <3>1. Compare(v, done[1], asc)
      BY <2>3 DEF Placed
    <3>2. ~InOrder(done[1], v, asc)
      BY <1>2, <2>1, <3>1 DEF Numeric
    <3>3. InOrder(v, done[1], asc)
      BY <1>2, <1>3, <2>1, <3>2, OrderIsLinear
    <3>4. k = 1 \/ InOrder(done[1], done[k], asc)
      BY <1>1, <2>1
    <3> QED BY <1>2, <1>3, <2>1, <3>3, <3>4, OrderIsLinear
  <2> QED BY <1>1, <2>2, <2>3
<1>7. SUFFICES ASSUME NEW j \in 1 .. Len(done) + 1, NEW k \in 1 .. Len(done) + 1, j < k
               PROVE  InOrder(new[j], new[k], asc)
  BY <1>1
<1>8. CASE k < p
  <2>1. j \in 1 .. p - 1 /\ k \in 1 .. p - 1 /\ j \in 1 .. Len(done) /\ k \in 1 .. Len(done)
    BY <1>1, <1>7, <1>8
  <2>2. InOrder(done[j], done[k], asc)
    BY <1>7, <2>1
  <2> QED BY <1>4, <2>1, <2>2
<1>9. CASE k = p
  <2>1. j \in 1 .. p - 1
    BY <1>1, <1>7, <1>9
  <2> QED BY <1>4, <1>5, <1>9, <2>1
<1>10. CASE k > p
  <2>1. k \in p + 1 .. Len(done) + 1 /\ k - 1 \in p .. Len(done) /\ k - 1 \in 1 .. Len(done)
    BY <1>1, <1>10
  <2>2. new[k] = done[k - 1]
    BY <1>4, <2>1
  <2>3. CASE j < p
    <3>1. j \in 1 .. p - 1 /\ j \in 1 .. Len(done) /\ j < k - 1
      BY <1>1, <2>1, <2>3
    <3>2. InOrder(done[j], done[k - 1], asc)
      BY <2>1, <3>1
    <3> QED BY <1>4, <2>2, <3>1, <3>2
  <2>4. CASE j = p
    BY <1>4, <1>6, <2>1, <2>2, <2>4
  <2>5. CASE j > p
    <3>1. j \in p + 1 .. Len(done) + 1 /\ j - 1 \in 1 .. Len(done) /\ j - 1 < k - 1
      BY <1>1, <1>7, <2>1, <2>5
    <3>2. InOrder(done[j - 1], done[k - 1], asc)
      BY <2>1, <3>1
    <3> QED BY <1>4, <2>2, <3>1, <3>2
  <2> QED BY <1>1, <2>3, <2>4, <2>5
<1> QED BY <1>1, <1>8, <1>9, <1>10

\* The prefixes of s, sorted one after the other.
SortedPrefixes(s, asc, f) ==
  /\ f[1] = <<s[1]>>
  /\ \A i \in 1 .. Len(s) - 1 : f[i + 1] = Place(f[i], s[i + 1], asc)

LEMMA SortRecursion ==
  ASSUME NEW S, NEW s \in Seq(S), s # << >>, NEW asc
  PROVE  \E f : SortedPrefixes(s, asc, f) /\ InsertionSort(s, asc) = f[Len(s)]
<1> DEFINE Good(f, m) == f = [i \in 1 .. m |-> IF i = 1 THEN <<s[1]>> ELSE Place(f[i - 1], s[i], asc)]
           G == {m \in Nat : \E f : Good(f, m)}
<1>1. 0 \in G
  <2>1. Good([i \in 1 .. 0 |-> <<s[1]>>], 0)
    OBVIOUS
  <2> QED BY <2>1
<1>2. \A m \in G \cap Nat : m + 1 \in G
  <2> SUFFICES ASSUME NEW m \in Nat, NEW f, Good(f, m)
               PROVE  m + 1 \in G
    OBVIOUS
  <2> DEFINE more == [i \in 1 .. m + 1 |->
                        IF i = m + 1 THEN IF i = 1 THEN <<s[1]>> ELSE Place(f[m], s[i], asc) ELSE f[i]]
  <2>1. \A i \in 1 .. m : i # m + 1 /\ i \in 1 .. m + 1 /\ more[i] = f[i]
    OBVIOUS
  <2>2. \A i \in 1 .. m + 1 : more[i] = IF i = 1 THEN <<s[1]>> ELSE Place(more[i - 1], s[i], asc)
    <3> TAKE i \in 1 .. m + 1
    <3>1. CASE i = m + 1
      <4>1. i = 1 \/ (i # 1 /\ i - 1 = m /\ m \in 1 .. m)
        BY <3>1
      <4> QED BY <2>1, <3>1, <4>1
    <3>2. CASE i # m + 1
      <4>1. i \in 1 .. m /\ (i = 1 \/ i - 1 \in 1 .. m)
        BY <3>2
      <4>2. f[i] = IF i = 1 THEN <<s[1]>> ELSE Place(f[i - 1], s[i], asc)
        BY <4>1
      <4> QED BY <2>1, <4>1, <4>2
    <3> QED BY <3>1, <3>2
  <2>3. more = [i \in 1 .. m + 1 |-> more[i]]
    OBVIOUS
  <2>4. Good(more, m + 1)
    <3> HIDE DEF more
    <3> QED BY <2>2, <2>3
  <2> HIDE DEF Good
  <2> QED BY <2>4
<1>3. Len(s) \in G /\ Len(s) \in Nat \ {0}
  <2> HIDE DEF G
  <2> QED BY <1>1, <1>2, NaturalInduction, EmptySeq
<1> DEFINE sorted == CHOOSE f : Good(f, Len(s))
<1>4. Good(sorted, Len(s))
  <2> HIDE DEF Good
  <2> QED BY <1>3
<1>5. InsertionSort(s, asc) = sorted[Len(s)]
  BY Zenon DEF InsertionSort
<1>6. SortedPrefixes(s, asc, sorted)
  <2> HIDE DEF sorted
  <2>1. sorted[1] = <<s[1]>>
    BY <1>3, <1>4
  <2>2. ASSUME NEW i \in 1 .. Len(s) - 1 PROVE sorted[i + 1] = Place(sorted[i], s[i + 1], asc)
    <3>1. i + 1 \in 1 .. Len(s) /\ i + 1 # 1 /\ (i + 1) - 1 = i
      BY <1>3
    <3> QED BY <1>4, <3>1
  <2> QED BY <2>1, <2>2 DEF SortedPrefixes
<1> QED BY <1>5, <1>6

LEMMA PrefixInserts ==
  ASSUME NEW S, NEW s \in Seq(S), NEW i \in 1 .. Len(s) - 1
  PROVE  /\ SubSeq(s, 1, i) \in Seq(S) /\ SubSeq(s, 1, i + 1) \in Seq(S)
         /\ Inserted(SubSeq(s, 1, i + 1), SubSeq(s, 1, i), i + 1, s[i + 1])
<1>1. Len(s) \in Nat /\ \A k \in 1 .. Len(s) : s[k] \in S
  OBVIOUS
<1>2. /\ SubSeq(s, 1, i) \in Seq(S) /\ Len(SubSeq(s, 1, i)) = i
      /\ \A k \in 1 .. i : SubSeq(s, 1, i)[k] = s[k]
  BY <1>1, SubSeqProperties
<1>3. /\ SubSeq(s, 1, i + 1) \in Seq(S) /\ Len(SubSeq(s, 1, i + 1)) = i + 1
      /\ \A k \in 1 .. i + 1 : SubSeq(s, 1, i + 1)[k] = s[k]
  BY <1>1, SubSeqProperties
<1> QED BY <1>1, <1>2, <1>3 DEF Inserted

\* Sorting moves elements and changes none; with a numeric comparator it puts
\* them in order.
LEMMA SortFacts ==
  ASSUME NEW E \in SUBSET Elem, NEW s \in Seq(E), s # << >>, NEW asc
  PROVE  /\ InsertionSort(s, asc) \in Seq(E)
         /\ Len(InsertionSort(s, asc)) = Len(s)
         /\ \A n : Times(InsertionSort(s, asc), n) = Times(s, n)
         /\ Numeric(E, asc) =>
              \A j, k \in 1 .. Len(s) :
                j < k => InOrder(InsertionSort(s, asc)[j], InsertionSort(s, asc)[k], asc)
<1>1. Len(s) \in Nat \ {0} /\ \A k \in 1 .. Len(s) : s[k] \in E
  BY EmptySeq
<1>2. PICK f : SortedPrefixes(s, asc, f) /\ InsertionSort(s, asc) = f[Len(s)]
  BY SortRecursion
<1> DEFINE Sorted(i) == /\ f[i] \in Seq(E) /\ f[i] # << >>
                        /\ Len(f[i]) = i
                        /\ \A n : Times(f[i], n) = Times(SubSeq(s, 1, i), n)
                        /\ Numeric(E, asc) =>
                             \A j, k \in 1 .. Len(f[i]) : j < k => InOrder(f[i][j], f[i][k], asc)
           G == {i \in Nat : i >= 1 /\ i <= Len(s) => Sorted(i)}
<1>3. 0 \in G
  OBVIOUS
<1>4. Sorted(1)
  <2>1. f[1] = <<s[1]>> /\ s[1] \in E
    BY <1>1, <1>2 DEF SortedPrefixes
  <2>2. SubSeq(s, 1, 1) = <<s[1]>>
    <3>1. /\ SubSeq(s, 1, 1) \in Seq(E) /\ Len(SubSeq(s, 1, 1)) = 1
          /\ SubSeq(s, 1, 1)[1] = s[1]
      BY <1>1, SubSeqProperties
    <3>2. PICK q \in Seq(E) : q = SubSeq(s, 1, 1)
      BY <3>1
    <3>3. Len(q) = 1 /\ q[1] = s[1]
      BY <3>1, <3>2
    <3>4. <<s[1]>> \in Seq(E) /\ Len(<<s[1]>>) = 1 /\ <<s[1]>>[1] = s[1]
      BY <2>1
    <3>5. q = <<s[1]>>
      BY <3>3, <3>4, SeqEqual
    <3> QED BY <3>2, <3>5
  <2>3. f[1] \in Seq(E) /\ f[1] # << >> /\ Len(f[1]) = 1
    BY <2>1
  <2>4. \A n : Times(f[1], n) = Times(SubSeq(s, 1, 1), n)
    BY <2>1, <2>2
  <2>5. \A j, k \in 1 .. Len(f[1]) : ~(j < k)
    BY <2>3
  <2> QED BY <2>3, <2>4, <2>5
<1>5. ASSUME NEW i \in 1 .. Len(s) - 1, Sorted(i) PROVE Sorted(i + 1)
  <2>1. s[i + 1] \in E
    BY <1>1
  <2>2. f[i + 1] = Place(f[i], s[i + 1], asc)
    BY <1>2 DEF SortedPrefixes
  <2>3. f[i + 1] \in Seq(E) /\ \E p : Placed(f[i + 1], f[i], p, s[i + 1], asc)
    BY <1>5, <2>1, <2>2, PlaceFacts
  <2>4. PICK p : Placed(f[i + 1], f[i], p, s[i + 1], asc)
    BY <2>3
  <2>5. Inserted(f[i + 1], f[i], p, s[i + 1])
    BY <2>4 DEF Placed
  <2>6. Len(f[i + 1]) = i + 1
    BY <1>5, <2>5 DEF Inserted
  <2>7. f[i + 1] # << >>
    <3>1. i + 1 # 0
      BY <1>1
    <3> QED BY <2>6, <3>1
  <2>8. ASSUME NEW n PROVE Times(f[i + 1], n) = Times(SubSeq(s, 1, i + 1), n)
    <3>1. Times(f[i + 1], n) = Times(f[i], n) + (IF Meaning(s[i + 1]) = n THEN 1 ELSE 0)
      BY <1>5, <2>3, <2>5, TimesInserted
    <3>2. Times(SubSeq(s, 1, i + 1), n) = Times(SubSeq(s, 1, i), n) + (IF Meaning(s[i + 1]) = n THEN 1 ELSE 0)
      <4>1. /\ SubSeq(s, 1, i) \in Seq(E) /\ SubSeq(s, 1, i + 1) \in Seq(E)
            /\ Inserted(SubSeq(s, 1, i + 1), SubSeq(s, 1, i), i + 1, s[i + 1])
        BY PrefixInserts
      <4>2. PICK q \in Seq(E), r \in Seq(E) : q = SubSeq(s, 1, i) /\ r = SubSeq(s, 1, i + 1)
        BY <4>1
      <4>3. PICK k, x : k = i + 1 /\ x = s[i + 1]
        OBVIOUS
      <4>4. Inserted(r, q, k, x)
        BY <4>1, <4>2, <4>3
      <4>5. Times(r, n) = Times(q, n) + (IF Meaning(x) = n THEN 1 ELSE 0)
        BY <4>4, TimesInserted
      <4> QED BY <4>2, <4>3, <4>5
    <3> QED BY <1>5, <3>1, <3>2
  <2>9. ASSUME Numeric(E, asc)
        PROVE  \A j, k \in 1 .. Len(f[i + 1]) : j < k => InOrder(f[i + 1][j], f[i + 1][k], asc)
    BY <1>5, <2>1, <2>3, <2>4, <2>9, PlaceOrders, SMTT(30)
  <2> QED BY <2>3, <2>6, <2>7, <2>8, <2>9
<1>6. \A i \in G \cap Nat : i + 1 \in G
  <2> SUFFICES ASSUME NEW i \in Nat, i >= 1 /\ i <= Len(s) => Sorted(i), i + 1 <= Len(s)
               PROVE  Sorted(i + 1)
    OBVIOUS
  <2> HIDE DEF Sorted
  <2>1. CASE i = 0
    BY <1>4, <2>1
  <2>2. CASE i >= 1
    <3>1. i \in 1 .. Len(s) - 1 /\ i <= Len(s)
      BY <1>1, <2>2
    <3> QED BY <1>5, <2>2, <3>1
  <2> QED BY <2>1, <2>2
<1>7. Sorted(Len(s))
  <2>1. Len(s) \in G
    <3> HIDE DEF G
    <3> QED BY <1>1, <1>3, <1>6, NaturalInduction
  <2> HIDE DEF Sorted
  <2> QED BY <1>1, <2>1
<1>8. SubSeq(s, 1, Len(s)) = s
  BY SubSeqFull
<1> QED BY <1>2, <1>7, <1>8

\* Elements in another order are the same elements.
LEMMA PermutedFacts ==
  ASSUME NEW E, NEW s \in Seq(E), Len(s) <= MaxLen, NEW r \in Permuted(s)
  PROVE  /\ r \in Seq(E) /\ Len(r) = Len(s)
         /\ \A n : Times(r, n) = Times(s, n)
<1>1. Len(s) \in Nat /\ Len(s) \in 0 .. MaxLen /\ DOMAIN s = 1 .. Len(s) /\ \A k \in 1 .. Len(s) : s[k] \in E
  BY ArgumentAssumption
<1>2. PICK p \in Bijection(1 .. Len(s), 1 .. Len(s)) : r = [k \in DOMAIN s |-> s[p[k]]]
  BY <1>1 DEF Permuted, Shuffle
<1>3. /\ p \in [1 .. Len(s) -> 1 .. Len(s)]
      /\ \A j, k \in 1 .. Len(s) : p[j] = p[k] => j = k
      /\ \A m \in 1 .. Len(s) : \E k \in 1 .. Len(s) : p[k] = m
  BY DEF Bijection, Injection, Surjection, IsInjective
<1>4. r = [k \in 1 .. Len(s) |-> s[p[k]]] /\ \A k \in 1 .. Len(s) : s[p[k]] \in E
  BY <1>1, <1>2, <1>3
<1>5. r \in Seq(E) /\ Len(r) = Len(s)
  BY <1>1, <1>4, IsASeq
<1>6. ASSUME NEW n PROVE Times(r, n) = Times(s, n)
  <2> DEFINE A == Matching(r, n)
             B == Matching(s, n)
             f == [k \in A |-> p[k]]
  <2>1. \A k \in 1 .. Len(s) : r[k] = s[p[k]]
    BY <1>4
  <2>2. A \subseteq 1 .. Len(s) /\ B \subseteq 1 .. Len(s)
    BY <1>1, <1>4 DEF Matching
  <2>3. \A k \in 1 .. Len(s) : k \in A <=> p[k] \in B
    BY <1>1, <1>3, <1>4, <2>1 DEF Matching
  <2> HIDE DEF A, B
  <2>4. f \in [A -> B] /\ (\A j, k \in A : f[j] = f[k] => j = k) /\ (\A m \in B : \E k \in A : f[k] = m)
    BY <1>3, <2>2, <2>3
  <2> HIDE DEF f
  <2>5. ExistsBijection(A, B)
    <3>1. f \in Bijection(A, B)
      BY <2>4 DEF Bijection, Injection, Surjection, IsInjective
    <3> QED BY <3>1 DEF ExistsBijection
  <2>6. IsFiniteSet(A) /\ IsFiniteSet(B)
    BY <1>5, TimesBounded DEF A, B
  <2>7. Cardinality(A) = Cardinality(B)
    BY <2>5, <2>6, FS_Bijection
  <2> QED BY <2>7 DEF A, B, Times
<1> QED BY <1>5, <1>6

\* A sort of any length moves elements and changes none; with a numeric
\* comparator it puts them in order.
LEMMA OutcomeFacts ==
  ASSUME NEW E \in SUBSET Elem, NEW s \in Seq(E), s # << >>, Len(s) <= MaxLen,
         NEW asc, NEW r \in SortOutcomes(s, asc)
  PROVE  /\ r \in Seq(E) /\ Len(r) = Len(s)
         /\ \A n : Times(r, n) = Times(s, n)
         /\ Numeric(E, asc) => \A j, k \in 1 .. Len(s) : j < k => InOrder(r[j], r[k], asc)
<1>1. CASE Len(s) <= InsertionMax
  <2>1. r = InsertionSort(s, asc)
    BY <1>1 DEF SortOutcomes
  <2> QED BY <2>1, SortFacts
<1>2. CASE ~(Len(s) <= InsertionMax)
  <2>1. Range(s) \in SUBSET E /\ Range(s) \in SUBSET Elem
    BY DEF Range
  <2>2. PartialOrder(Range(s), asc)
    BY <2>1, ComparatorNeverContradicts
  <2>3. /\ r \in Permuted(s)
        /\ WeakOrder(Range(s), asc) => \A j, k \in DOMAIN r : j < k => ~Compare(r[k], r[j], asc)
    BY <1>2, <2>2 DEF SortOutcomes
  <2>4. r \in Seq(E) /\ Len(r) = Len(s) /\ \A n : Times(r, n) = Times(s, n)
    BY <2>3, PermutedFacts
  <2>5. ASSUME Numeric(E, asc), NEW j \in 1 .. Len(s), NEW k \in 1 .. Len(s), j < k
        PROVE  InOrder(r[j], r[k], asc)
    <3>1. ASSUME NEW a \in E, NEW b \in E, NEW c \in E, Compare(a, c, asc)
          PROVE  Compare(a, b, asc) \/ Compare(b, c, asc)
      <4>1. ~InOrder(c, a, asc)
        BY <2>5, <3>1 DEF Numeric
      <4>2. ~InOrder(c, b, asc) \/ ~InOrder(b, a, asc)
        BY <4>1, OrderIsLinear
      <4> QED BY <2>5, <4>2 DEF Numeric
    <3>2. WeakOrder(Range(s), asc)
      BY <2>1, <2>2, <3>1 DEF WeakOrder
    <3>3. j \in DOMAIN r /\ k \in DOMAIN r /\ r[j] \in E /\ r[k] \in E
      BY <2>4
    <3>4. ~Compare(r[k], r[j], asc)
      BY <2>3, <2>5, <3>2, <3>3
    <3> QED BY <2>5, <3>3, <3>4 DEF Numeric
  <2> QED BY <2>4, <2>5
<1> QED BY <1>1, <1>2

-----------------------------------------------------------------------------
(* The array *)

\* What the array holds is what was put there, each number as often.
IInv ==
  /\ arr \in Seq(Elem)
  /\ Len(arr) <= MaxLen
  /\ \A n \in DOMAIN sent : sent[n] = Times(arr, n) /\ sent[n] >= 1
  /\ \A k \in DOMAIN arr : Meaning(arr[k]) \in DOMAIN sent

LEMMA Stored ==
  /\ \A n \in Int64 : sint(n) \in Integer /\ Meaning(sint(n)) = n
  /\ \A n \in Uint64 : uint(n) \in Integer /\ Meaning(uint(n)) = n
  /\ \A d \in Double : real(d) \in Elem /\ Meaning(real(d)) = d
<1>1. ASSUME NEW n \in Int64 PROVE sint(n) \in Integer /\ Meaning(sint(n)) = n
  BY SignedWord DEF sint, Integer, Meaning, is_sint, get_sint
<1>2. ASSUME NEW n \in Uint64 PROVE uint(n) \in Integer /\ Meaning(uint(n)) = n
  BY DEF uint, Integer, Meaning, is_sint
<1>3. ASSUME NEW d \in Double PROVE real(d) \in Elem /\ Meaning(real(d)) = d
  BY DEF real, Elem, Meaning, is_sint
<1> QED BY <1>1, <1>2, <1>3

\* A text that is taken is stored as the number it says.
LEMMA Taken ==
  ASSUME NEW t \in Text
  PROVE  /\ ParseInt64Variant(t) = NativeParseInt64Variant(t)
         /\ ParseInt64Variant(t) # Refused =>
              /\ ParseInt64Variant(t) \in Elem
              /\ Meaning(ParseInt64Variant(t)) = t.n
              /\ is_sint(ParseInt64Variant(t)) \/ is_uint(ParseInt64Variant(t))
<1>1. t \in TextType
  BY ArgumentAssumption
<1>2. ParseInt64Variant(t) = NativeParseInt64Variant(t)
  BY <1>1, ParsersAgree
<1>3. ParseInt64Variant(t) # Refused =>
        ParseInt64Variant(t) \in Integer /\ Meaning(ParseInt64Variant(t)) = t.n
  BY <1>1, ParsersAgree
<1> QED BY <1>2, <1>3 DEF Elem, Integer, is_sint, is_uint

LEMMA PutHolds ==
  ASSUME IInv, NEW v \in Elem, Put(v, Meaning(v))
  PROVE  IInv'
<1> DEFINE n == Meaning(v)
<1>1. Len(arr) \in Nat /\ Len(arr) < MaxLen /\ MaxLen \in Nat /\ arr' = Append(arr, v) /\ arr \in Seq(Elem)
  BY ArgumentAssumption DEF Put, IInv
<1>2. arr' \in Seq(Elem) /\ Inserted(arr', arr, Len(arr) + 1, v)
  BY <1>1, AppendInserts
<1>3. /\ DOMAIN sent' = DOMAIN sent \cup {n}
      /\ \A m \in DOMAIN sent' :
           sent'[m] = (IF m \in DOMAIN sent THEN sent[m] ELSE 0) + (IF m = n THEN 1 ELSE 0)
  BY DEF Put, Count
<1> HIDE DEF n
<1>4. ASSUME NEW m PROVE Times(arr', m) = Times(arr, m) + (IF m = n THEN 1 ELSE 0)
  <2>1. Times(arr', m) = Times(arr, m) + (IF Meaning(v) = m THEN 1 ELSE 0)
    <3>1. PICK new \in Seq(Elem), q \in Seq(Elem), p \in Nat : new = arr' /\ q = arr /\ p = Len(arr) + 1
      BY <1>1, <1>2
    <3>2. Inserted(new, q, p, v)
      BY <1>2, <3>1
    <3>3. Times(new, m) = Times(q, m) + (IF Meaning(v) = m THEN 1 ELSE 0)
      BY <3>2, TimesInserted
    <3> QED BY <3>1, <3>3
  <2> QED BY <2>1 DEF n
<1>5. ASSUME NEW m, m \notin DOMAIN sent PROVE Times(arr, m) = 0
  <2>1. Matching(arr, m) = {}
    BY <1>5 DEF IInv, Matching
  <2> QED BY <2>1, FS_EmptySet DEF Times
<1>6. \A m : Times(arr, m) \in Nat
  BY <1>1, TimesBounded
<1>7. ASSUME NEW m \in DOMAIN sent' PROVE sent'[m] = Times(arr', m) /\ sent'[m] >= 1
  <2>1. CASE m \in DOMAIN sent
    <3>1. sent[m] = Times(arr, m) /\ sent[m] >= 1
      BY <2>1 DEF IInv
    <3> QED BY <1>3, <1>4, <1>6, <2>1, <3>1
  <2>2. CASE m \notin DOMAIN sent
    <3>1. m = n
      BY <1>3, <2>2
    <3> QED BY <1>3, <1>4, <1>5, <2>2, <3>1
  <2> QED BY <2>1, <2>2
<1>8. Len(arr') = Len(arr) + 1
  BY <1>2 DEF Inserted
<1>9. \A k \in DOMAIN arr' : Meaning(arr'[k]) \in DOMAIN sent'
  <2> TAKE k \in DOMAIN arr'
  <2>1. k \in 1 .. Len(arr) + 1
    BY <1>1, <1>2, <1>8
  <2>2. CASE k = Len(arr) + 1
    BY <1>2, <1>3, <2>2 DEF Inserted, n
  <2>3. CASE k # Len(arr) + 1
    <3>1. k \in 1 .. Len(arr) /\ k \in DOMAIN arr /\ k \in 1 .. (Len(arr) + 1) - 1
      BY <1>1, <2>1, <2>3
    <3>2. arr'[k] = arr[k]
      BY <1>2, <3>1 DEF Inserted
    <3> QED BY <1>3, <3>1, <3>2 DEF IInv
  <2> QED BY <2>2, <2>3
<1> QED BY <1>1, <1>2, <1>7, <1>8, <1>9 DEF IInv

LEMMA InitWithHolds ==
  ASSUME IInv, NEW s \in Text, NEW t \in Text, ArrayInitWithInt64(<<s, t>>)
  PROVE  IInv'
<1> DEFINE ts == <<s, t>>
<1>1. DOMAIN ts = {1, 2} /\ \A k \in {1, 2} : ts[k] \in Text
  OBVIOUS
<1>2. /\ \A k \in DOMAIN ts : ParseInt64Variant(ts[k]) # Refused
      /\ arr' = [k \in DOMAIN ts |-> ParseInt64Variant(ts[k])]
      /\ sent' = [n \in {ts[k].n : k \in DOMAIN ts} |-> Cardinality({k \in DOMAIN ts : ts[k].n = n})]
  BY DEF ArrayInitWithInt64
<1> HIDE DEF ts
<1>3. DOMAIN arr' = {1, 2} /\ \A k \in {1, 2} : arr'[k] \in Elem /\ Meaning(arr'[k]) = ts[k].n
  BY <1>1, <1>2, Taken
<1>4. arr' \in Seq(Elem) /\ Len(arr') = 2
  <2>1. {1, 2} = 1 .. 2
    OBVIOUS
  <2>2. arr' = [k \in 1 .. 2 |-> ParseInt64Variant(ts[k])]
    BY <1>1, <1>2, <2>1
  <2>3. \A k \in 1 .. 2 : ParseInt64Variant(ts[k]) \in Elem
    BY <1>1, <1>2, <2>1, Taken
  <2> QED BY <2>2, <2>3, IsASeq
<1>5. ASSUME NEW n \in DOMAIN sent' PROVE sent'[n] = Times(arr', n) /\ sent'[n] >= 1
  <2>1. {k \in DOMAIN ts : ts[k].n = n} = Matching(arr', n)
    BY <1>1, <1>3 DEF Matching
  <2>2. sent'[n] = Times(arr', n)
    BY <1>2, <2>1 DEF Times
  <2>3. Matching(arr', n) # {}
    BY <1>2, <1>5, <2>1
  <2>4. Times(arr', n) \in Nat /\ IsFiniteSet(Matching(arr', n))
    BY <1>4, TimesBounded
  <2>5. Times(arr', n) # 0
    BY <2>3, <2>4, FS_EmptySet DEF Times
  <2> QED BY <2>2, <2>4, <2>5
<1>6. \A k \in DOMAIN arr' : Meaning(arr'[k]) \in DOMAIN sent'
  BY <1>1, <1>2, <1>3
<1> QED BY <1>4, <1>5, <1>6, ArgumentAssumption DEF IInv

\* Two arrays with the same numbers at the same places hold every number as
\* often.
LEMMA TimesSame ==
  ASSUME NEW s, NEW r, DOMAIN s = DOMAIN r, \A k \in DOMAIN s : Meaning(s[k]) = Meaning(r[k]), NEW n
  PROVE  Times(s, n) = Times(r, n)
<1>1. Matching(s, n) = Matching(r, n)
  BY DEF Matching
<1> QED BY <1>1 DEF Times

LEMMA ReparseHolds ==
  ASSUME IInv, Reparse
  PROVE  IInv'
<1>1. arr \in Seq(Elem) /\ Len(arr) \in Nat /\ DOMAIN arr = 1 .. Len(arr)
  BY DEF IInv
<1>2. arr' = [k \in 1 .. Len(arr) |->
                IF is_sint(arr[k]) /\ get_sint(arr[k]) >= 0 THEN uint(get_sint(arr[k])) ELSE arr[k]]
  BY <1>1 DEF Reparse
<1>3. ASSUME NEW k \in 1 .. Len(arr) PROVE arr'[k] \in Elem /\ Meaning(arr'[k]) = Meaning(arr[k])
  <2>1. arr[k] \in Elem
    BY <1>1
  <2>2. CASE is_sint(arr[k]) /\ get_sint(arr[k]) >= 0
    <3>1. arr[k] \in Integer
      BY <2>1, <2>2 DEF Elem, is_sint, real
    <3>2. get_sint(arr[k]) \in Uint64
      BY <2>2, <3>1, WordMeaning DEF is_sint
    <3>3. uint(get_sint(arr[k])) \in Elem /\ Meaning(uint(get_sint(arr[k]))) = get_sint(arr[k])
      BY <3>2, Stored DEF Elem
    <3> QED BY <1>2, <2>2, <3>3 DEF Meaning
  <2>3. CASE ~(is_sint(arr[k]) /\ get_sint(arr[k]) >= 0)
    BY <1>2, <2>1, <2>3
  <2> QED BY <2>2, <2>3
<1>4. arr' \in Seq(Elem) /\ Len(arr') = Len(arr) /\ DOMAIN arr' = DOMAIN arr
  <2>1. arr' = [k \in 1 .. Len(arr) |-> arr'[k]]
    BY <1>2
  <2> QED BY <1>1, <1>3, <2>1, IsASeq
<1>5. \A n : Times(arr', n) = Times(arr, n)
  BY <1>1, <1>3, <1>4, TimesSame
<1>6. sent' = sent
  BY DEF Reparse
<1> QED BY <1>1, <1>3, <1>4, <1>5, <1>6 DEF IInv

LEMMA SortHolds ==
  ASSUME IInv, NEW asc, ArraySort(asc)
  PROVE  IInv'
<1>1. /\ arr \in Seq(Elem) /\ Len(arr) > 1 /\ Len(arr) <= MaxLen
      /\ arr' \in SortOutcomes(arr, asc) /\ sent' = sent
  BY DEF IInv, ArraySort
<1>2. arr # << >>
  BY <1>1
<1>3. arr' \in Seq(Elem) /\ Len(arr') = Len(arr) /\ \A n : Times(arr', n) = Times(arr, n)
  BY <1>1, <1>2, OutcomeFacts
<1>4. ASSUME NEW k \in DOMAIN arr' PROVE Meaning(arr'[k]) \in DOMAIN sent
  <2> DEFINE n == Meaning(arr'[k])
  <2>1. k \in Matching(arr', n)
    BY <1>4 DEF Matching
  <2>2. IsFiniteSet(Matching(arr', n)) /\ IsFiniteSet(Matching(arr, n))
    BY <1>1, <1>3, TimesBounded
  <2> HIDE DEF n
  <2>3. Times(arr', n) # 0
    BY <2>1, <2>2, FS_EmptySet DEF Times
  <2>4. Matching(arr, n) # {}
    BY <1>3, <2>3, FS_EmptySet, SMTT(30) DEF Times
  <2>5. PICK j \in DOMAIN arr : Meaning(arr[j]) = n
    BY <2>4 DEF Matching
  <2> QED BY <2>5 DEF IInv, n
<1> QED BY <1>1, <1>3, <1>4 DEF IInv

LEMMA InvariantHolds == Spec => []IInv
<1>1. Init => IInv
  BY ArgumentAssumption DEF Init, IInv
<1>2. IInv /\ [Next]_vars => IInv'
  <2> SUFFICES ASSUME IInv, [Next]_vars PROVE IInv'
    OBVIOUS
  <2>1. ASSUME NEW n \in Int32, ArrayAppendInt(n) PROVE IInv'
    <3>1. n \in Int64
      BY ArgumentAssumption, WidthAssumption DEF Int64
    <3>2. sint(n) \in Elem /\ Meaning(sint(n)) = n
      BY <3>1, Stored DEF Elem
    <3> QED BY <2>1, <3>2, PutHolds DEF ArrayAppendInt
  <2>2. ASSUME NEW d \in Double, ArrayAppendDouble(d) PROVE IInv'
    <3>1. real(d) \in Elem /\ Meaning(real(d)) = d
      BY Stored
    <3> QED BY <2>2, <3>1, PutHolds DEF ArrayAppendDouble
  <2>3. ASSUME NEW t \in Text, ArrayAppendInt64(t) PROVE IInv'
    <3>1. /\ NativeParseInt64Variant(t) \in Elem
          /\ Meaning(NativeParseInt64Variant(t)) = t.n
          /\ Put(NativeParseInt64Variant(t), t.n)
      BY <2>3, Taken DEF ArrayAppendInt64
    <3> QED BY <3>1, PutHolds
  <2>4. ASSUME NEW s \in Text, NEW t \in Text, ArrayInitWithInt64(<<s, t>>) PROVE IInv'
    BY <2>4, InitWithHolds
  <2>5. CASE Reparse
    BY <2>5, ReparseHolds
  <2>6. ASSUME NEW asc \in BOOLEAN, ArraySort(asc) PROVE IInv'
    BY <2>6, SortHolds
  <2>7. CASE UNCHANGED vars
    BY <2>7 DEF vars, IInv
  <2> QED BY <2>1, <2>2, <2>3, <2>4, <2>5, <2>6, <2>7 DEF Next
<1> QED BY <1>1, <1>2, PTL DEF Spec

\* The array never holds anything but numbers of the subtypes that the natives
\* store, and never more of one than its length allows.
THEOREM NumbersTypeOK == Spec => []TypeOK
<1>1. ASSUME IInv PROVE TypeOK
  <2>1. arr \in Seq(Elem) /\ Len(arr) \in Nat /\ Len(arr) <= MaxLen /\ MaxLen \in Nat
    BY <1>1, ArgumentAssumption DEF IInv
  <2>2. \A k \in DOMAIN arr :
          arr[k] \in [sub : {"sint", "uint"}, word : Uint64] \cup {real(d) : d \in Double}
    BY <2>1 DEF Elem, Integer
  <2>3. \A n \in DOMAIN sent : sent[n] \in 1 .. MaxLen
    <3> TAKE n \in DOMAIN sent
    <3>1. Times(arr, n) \in 0 .. Len(arr) /\ sent[n] = Times(arr, n) /\ sent[n] >= 1
      BY <1>1, <2>1, TimesBounded DEF IInv
    <3> QED BY <2>1, <3>1
  <2> QED BY <2>1, <2>2, <2>3 DEF TypeOK
<1> QED BY <1>1, InvariantHolds, PTL

\* Whatever the width of the integers: GetInt64, GetInt and GetFloat read from
\* the array the numbers that were put there, each as often, also after any
\* number of sorts and of round trips through text.
THEOREM ReadsWhatWasPut == Spec => []ReadsBack
<1>1. ASSUME IInv PROVE ReadsBack
  <2>1. ASSUME NEW k \in DOMAIN arr PROVE ArrayGetInt64(k) = Meaning(arr[k])
    BY DEF ArrayGetInt64, Meaning, get_uint
  <2>2. ASSUME NEW n PROVE {k \in DOMAIN arr : ArrayGetInt64(k) = n} = Matching(arr, n)
    BY <2>1 DEF Matching
  <2>3. \A n \in DOMAIN sent : Cardinality({k \in DOMAIN arr : ArrayGetInt64(k) = n}) = sent[n]
    BY <1>1, <2>2 DEF IInv, Times
  <2>4. \A k \in DOMAIN arr : ArrayGetInt64(k) \in DOMAIN sent
    BY <1>1, <2>1 DEF IInv
  <2> QED BY <2>3, <2>4 DEF ReadsBack
<1> QED BY <1>1, InvariantHolds, PTL

LEMMA FoundIndex ==
  ASSUME NEW s \in Seq(Elem), NEW Hits \in SUBSET (DOMAIN s)
  PROVE  /\ Hits # {} => IndexOf(Hits) >= 0
         /\ IndexOf(Hits) >= 0 => IndexOf(Hits) + 1 \in Hits
<1>1. Len(s) \in Nat /\ DOMAIN s = 1 .. Len(s)
  OBVIOUS
<1>2. CASE Hits = {}
  BY <1>2 DEF IndexOf
<1>3. CASE Hits # {}
  <2>1. Hits \in SUBSET Nat
    BY <1>1
  <2>2. \E m \in Hits : \A k \in Hits : m =< k
    BY <1>3, <2>1, LeastNatural
  <2>3. Min(Hits) \in Hits
    BY <2>2, Zenon DEF Min
  <2>4. PICK m \in Hits : m = Min(Hits)
    BY <2>3
  <2>5. m \in 1 .. Len(s) /\ IndexOf(Hits) = m - 1
    BY <1>1, <1>3, <2>4 DEF IndexOf
  <2> QED BY <1>1, <2>5
<1> QED BY <1>2, <1>3

\* Where IndexOfInt64 looks for a text that is taken.
Hits64(s, t) ==
  IF is_sint(NativeParseInt64Variant(t)) THEN {k \in DOMAIN s : is_sint(s[k]) /\ get_sint(s[k]) = t.n}
  ELSE {k \in DOMAIN s : is_uint(s[k]) /\ get_uint(s[k]) = t.n}

LEMMA HitsMean ==
  ASSUME NEW s \in Seq(Elem), NEW t
  PROVE  /\ Hits64(s, t) \in SUBSET (DOMAIN s)
         /\ \A k \in Hits64(s, t) : Meaning(s[k]) = t.n
BY DEF Hits64, Meaning, is_sint, is_uint, get_uint

\* Whatever the width of the integers and the length of the array: a number
\* that PushInt64 took is found by IndexOfInt64 of the same text, which never
\* points at another number.
THEOREM FindsWhatWasAppended == Spec => FindsAppended
<1> DEFINE Found(t) ==
      /\ ArrayAppendInt64(t) => IndexOfInt64(t)' >= 0
      /\ IndexOfInt64(t)' >= 0 => Meaning(arr'[IndexOfInt64(t)' + 1]) = t.n
<1>1. ASSUME IInv', IInv, NEW t \in Valid PROVE Found(t)
  <2>1. t \in Text /\ NativeParseInt64Variant(t) # Refused
    BY DEF Valid
  <2>2. arr' \in Seq(Elem) /\ arr \in Seq(Elem)
    BY <1>1 DEF IInv
  <2>3. IndexOfInt64(t)' = IndexOf(Hits64(arr', t))
    BY DEF IndexOfInt64, ArrayIndexOfInt64, ArrayIndexOfUint64, Hits64
  <2>4. /\ Hits64(arr', t) # {} => IndexOf(Hits64(arr', t)) >= 0
        /\ IndexOf(Hits64(arr', t)) >= 0 => IndexOf(Hits64(arr', t)) + 1 \in Hits64(arr', t)
    BY <2>2, HitsMean, FoundIndex
  <2>5. ASSUME ArrayAppendInt64(t) PROVE Hits64(arr', t) # {}
    <3> DEFINE v == NativeParseInt64Variant(t)
    <3>1. arr' = Append(arr, v) /\ v \in Elem /\ Meaning(v) = t.n /\ (is_sint(v) \/ is_uint(v))
      BY <2>1, <2>5, Taken DEF ArrayAppendInt64, Put
    <3>2. Inserted(arr', arr, Len(arr) + 1, v) /\ Len(arr) \in Nat
      BY <2>2, <3>1, AppendInserts
    <3>3. Len(arr) + 1 \in DOMAIN arr' /\ arr'[Len(arr) + 1] = v
      BY <2>2, <3>2 DEF Inserted
    <3>4. Len(arr) + 1 \in Hits64(arr', t)
      BY <3>1, <3>3 DEF Hits64, Meaning, is_sint, is_uint, get_uint
    <3> QED BY <3>4
  <2> QED BY <2>2, <2>3, <2>4, <2>5, HitsMean
<1>2. ASSUME IInv, IInv', [Next]_vars PROVE [\A t \in Valid : Found(t)]_vars
  BY <1>1, <1>2
<1> QED BY <1>2, InvariantHolds, PTL DEF Spec, FindsAppended

\* The comparator is numeric on integers, and on numbers a double holds.
LEMMA CompareIsNumeric ==
  ASSUME NEW E \in SUBSET Elem, NEW asc \in BOOLEAN,
         \/ \A v \in E : is_int(v)
         \/ \A v \in E : AsDouble(Meaning(v)) = Meaning(v)
  PROVE  Numeric(E, asc)
<1>1. ASSUME NEW a \in E, NEW b \in E PROVE Below(a, b) <=> Meaning(a) < Meaning(b)
  <2>1. a \in Elem /\ b \in Elem
    OBVIOUS
  <2>2. CASE is_int(a) /\ is_int(b)
    <3>1. a \in Integer /\ b \in Integer
      BY <2>1, <2>2 DEF Elem, is_int, real
    <3> QED BY <3>1, BelowIsNumericOrder
  <2>3. CASE ~(is_int(a) /\ is_int(b))
    <3>1. Below(a, b) <=> get_num(a) < get_num(b)
      BY <2>3 DEF Below, is_int, is_sint, is_uint
    <3>2. AsDouble(Meaning(a)) = Meaning(a) /\ AsDouble(Meaning(b)) = Meaning(b)
      BY <2>3
    <3>3. \A v : get_num(v) = IF is_int(v) THEN AsDouble(Meaning(v)) ELSE Meaning(v)
      BY DEF get_num, Meaning, is_int, is_sint, is_uint, get_uint
    <3>4. get_num(a) = Meaning(a) /\ get_num(b) = Meaning(b)
      BY <3>2, <3>3
    <3> QED BY <3>1, <3>4
  <2> QED BY <2>2, <2>3
<1>2. ASSUME NEW a \in E, NEW b \in E PROVE Compare(a, b, asc) <=> ~InOrder(b, a, asc)
  <2>1. Meaning(a) \in Int /\ Meaning(b) \in Int
    BY ElemMeaning
  <2>2. (Below(a, b) <=> Meaning(a) < Meaning(b)) /\ (Below(b, a) <=> Meaning(b) < Meaning(a))
    BY <1>1
  <2> QED BY <2>1, <2>2 DEF Compare, InOrder
<1> QED BY <1>2 DEF Numeric

\* Whatever the width of the integers and the length of the array, below and
\* above what std::sort sorts by insertion: the comparator of ArraySort is a
\* partial order on the numbers it is given, so that each scan of a long array
\* finds an element to stop at; and Sort leaves integers of any sign and size in
\* the order of their values, and any numbers that doubles hold exactly.
THEOREM SortsByValue == Spec => SortIsSound
<1>1. ASSUME IInv, NEW asc \in BOOLEAN, ArraySort(asc), Exact(arr)
      PROVE  Ordered(arr', asc)
  <2>1. /\ arr \in Seq(Elem) /\ Len(arr) \in Nat /\ Len(arr) > 1 /\ Len(arr) <= MaxLen
        /\ arr' \in SortOutcomes(arr, asc)
    BY <1>1 DEF IInv, ArraySort
  <2>2. PICK E \in SUBSET Elem : E = {arr[k] : k \in DOMAIN arr}
    <3>1. \A k \in DOMAIN arr : arr[k] \in Elem
      BY <2>1
    <3>2. {arr[k] : k \in DOMAIN arr} \subseteq Elem
      BY <3>1
    <3> QED BY <3>2
  <2>3. arr \in Seq(E) /\ arr # << >>
    <3>1. DOMAIN arr = 1 .. Len(arr) /\ \A k \in 1 .. Len(arr) : arr[k] \in E
      BY <2>1, <2>2
    <3>2. arr = [k \in 1 .. Len(arr) |-> arr[k]]
      BY <2>1, <3>1
    <3> QED BY <2>1, <3>1, <3>2, IsASeq
  <2>4. Numeric(E, asc)
    BY <1>1, <2>2, CompareIsNumeric DEF Exact
  <2>5. /\ arr' \in Seq(E) /\ Len(arr') = Len(arr)
        /\ \A j, k \in 1 .. Len(arr) : j < k => InOrder(arr'[j], arr'[k], asc)
    BY <2>1, <2>3, <2>4, OutcomeFacts
  <2>6. DOMAIN arr' = 1 .. Len(arr)
    BY <2>5
  <2> QED BY <2>5, <2>6 DEF Ordered, InOrder
<1>2. ASSUME IInv PROVE \A asc \in BOOLEAN : PartialOrder(Range(arr), asc)
  <2>1. arr \in Seq(Elem)
    BY <1>2 DEF IInv
  <2>2. Range(arr) \in SUBSET Elem
    BY <2>1 DEF Range
  <2> QED BY <2>2, ComparatorNeverContradicts
<1>3. ASSUME IInv, [Next]_vars
      PROVE  [\A asc \in BOOLEAN : ArraySort(asc) =>
                /\ PartialOrder(Range(arr), asc)
                /\ Exact(arr) => Ordered(arr', asc)]_vars
  BY <1>1, <1>2, <1>3
<1> QED BY <1>3, InvariantHolds, PTL DEF Spec, SortIsSound
=============================================================================
