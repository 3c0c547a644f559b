--------------------------- MODULE MutRing_proofs ---------------------------
(* Rings of any length: what is on a ring after each of yyjson's operations, *)
(* and what still holds on a damaged one.                                    *)
EXTENDS MutRing, FiniteSetTheorems, SequenceTheorems, WellFoundedInduction, TLAPS

-----------------------------------------------------------------------------
(* Induction, stated with sets so that the provers can use it *)

\* Every set of natural numbers has a least member.
LEMMA LeastNatural ==
  ASSUME NEW S \in SUBSET Nat, S # {}
  PROVE  \E m \in S : \A k \in S : m <= k
<1> DEFINE R == {p \in Nat \X Nat : p[1] < p[2]}
<1>1. IsWellFoundedOn(R, Nat)
  <2>1. R = OpToRel(<, Nat)
    BY Zenon DEF OpToRel
  <2> QED BY <2>1, NatLessThanWellFounded
<1>2. \A x, y \in Nat : x < y => <<x, y>> \in R
  OBVIOUS
<1> HIDE DEF R
<1>3. PICK m \in S : \A k \in S : <<k, m>> \notin R
  BY <1>1, WFMin
<1>4. \A k \in S : m <= k
  <2> TAKE k \in S
  <2>1. k \in Nat /\ m \in Nat
    OBVIOUS
  <2>2. ~(k < m)
    BY <1>2, <1>3, <2>1
  <2> QED BY <2>1, <2>2
<1> QED BY <1>4

\* To show that all numbers have a property, one shows it of the set of those
\* that do.
LEMMA NaturalInduction ==
  ASSUME NEW S, 0 \in S, \A n \in S \cap Nat : n + 1 \in S
  PROVE  Nat \subseteq S
<1> SUFFICES ASSUME Nat \ S # {} PROVE FALSE
  OBVIOUS
<1> DEFINE T == Nat \ S
<1>1. PICK m \in T : \A k \in T : m <= k
  <2>1. T \in SUBSET Nat /\ T # {}
    OBVIOUS
  <2> HIDE DEF T
  <2> QED BY <2>1, LeastNatural
<1>2. m \in Nat /\ m # 0
  BY <1>1
<1>3. m - 1 \in Nat /\ ~(m <= m - 1)
  BY <1>2
<1>4. m - 1 \in S
  BY <1>1, <1>3
<1>5. m - 1 + 1 \in S
  BY <1>3, <1>4
<1> QED BY <1>1, <1>2, <1>5

-----------------------------------------------------------------------------
(* Walking along the links *)

\* The places on the way from p, the k-th included.
Way(L, p, k, w) ==
  /\ w[0] = p
  /\ \A j \in 1 .. k : w[j] = L.next[w[j - 1]]

LEMMA WalkRecursion ==
  ASSUME NEW L, NEW p, NEW k \in Nat
  PROVE  \E w : Way(L, p, k, w) /\ Walk(L, p, k) = w[k]
<1> DEFINE Good(w, m) == w = [j \in 0 .. m |-> IF j = 0 THEN p ELSE L.next[w[j - 1]]]
           S == {m \in Nat : \E w : Good(w, m)}
<1>1. 0 \in S
  <2>1. Good([j \in 0 .. 0 |-> p], 0)
    OBVIOUS
  <2> QED BY <2>1
<1>2. \A m \in S \cap Nat : m + 1 \in S
  <2> SUFFICES ASSUME NEW m \in Nat, NEW w, Good(w, m)
               PROVE  m + 1 \in S
    OBVIOUS
  <2> DEFINE more == [j \in 0 .. m + 1 |-> IF j = m + 1 THEN L.next[w[m]] ELSE w[j]]
  <2>1. Good(more, m + 1)
    OBVIOUS
  <2> HIDE DEF Good
  <2> QED BY <2>1
<1>3. k \in S
  <2> HIDE DEF S
  <2> QED BY <1>1, <1>2, NaturalInduction
<1> DEFINE way == CHOOSE w : Good(w, k)
<1>4. Good(way, k)
  <2> HIDE DEF Good
  <2> QED BY <1>3
<1>5. Walk(L, p, k) = way[k]
  BY Zenon DEF Walk
<1>6. Way(L, p, k, way)
  <2> HIDE DEF way
  <2> QED BY <1>4 DEF Way
<1> QED BY <1>5, <1>6

\* There is one way, however far it is followed.
LEMMA WayUnique ==
  ASSUME NEW L, NEW p, NEW k \in Nat, NEW l \in Nat, k <= l, NEW v, NEW w,
         Way(L, p, k, v), Way(L, p, l, w)
  PROVE  v[k] = w[k]
<1> DEFINE S == {j \in Nat : j <= k => v[j] = w[j]}
<1>1. 0 \in S
  BY DEF Way
<1>2. \A j \in S \cap Nat : j + 1 \in S
  <2> SUFFICES ASSUME NEW j \in Nat, j \in S, j + 1 <= k
               PROVE  v[j + 1] = w[j + 1]
    OBVIOUS
  <2>1. v[j] = w[j] /\ j + 1 \in 1 .. k /\ j + 1 \in 1 .. l /\ (j + 1) - 1 = j
    OBVIOUS
  <2> QED BY <2>1 DEF Way
<1>3. k \in S
  <2> HIDE DEF S
  <2> QED BY <1>1, <1>2, NaturalInduction
<1> QED BY <1>3

LEMMA WalkNone == ASSUME NEW L, NEW p PROVE Walk(L, p, 0) = p
BY WalkRecursion DEF Way

LEMMA WalkNext ==
  ASSUME NEW L, NEW p, NEW k \in Nat
  PROVE  Walk(L, p, k + 1) = L.next[Walk(L, p, k)]
<1>1. PICK v : Way(L, p, k, v) /\ Walk(L, p, k) = v[k]
  BY WalkRecursion
<1>2. k + 1 \in Nat
  OBVIOUS
<1>3. PICK w : Way(L, p, k + 1, w) /\ Walk(L, p, k + 1) = w[k + 1]
  BY <1>2, WalkRecursion
<1>4. v[k] = w[k]
  <2>1. k <= k + 1
    OBVIOUS
  <2> QED BY <1>1, <1>2, <1>3, <2>1, WayUnique
<1>5. w[k + 1] = L.next[w[k]]
  <2>1. k + 1 \in 1 .. k + 1 /\ (k + 1) - 1 = k
    OBVIOUS
  <2> QED BY <1>3, <2>1 DEF Way
<1> QED BY <1>1, <1>3, <1>4, <1>5

LEMMA WalkOne == ASSUME NEW L, NEW p PROVE Walk(L, p, 1) = L.next[p]
<1>1. Walk(L, p, 0 + 1) = L.next[Walk(L, p, 0)]
  BY WalkNext
<1> QED BY <1>1, WalkNone

\* A walk stays in a set that the links do not leave.
LEMMA WalkStays ==
  ASSUME NEW L, NEW S, \A n \in S : L.next[n] \in S, NEW p \in S, NEW k \in Nat
  PROVE  Walk(L, p, k) \in S
<1> DEFINE T == {j \in Nat : Walk(L, p, j) \in S}
<1>1. 0 \in T
  BY WalkNone
<1>2. \A j \in T \cap Nat : j + 1 \in T
  BY WalkNext
<1>3. k \in T
  <2> HIDE DEF T
  <2> QED BY <1>1, <1>2, NaturalInduction
<1> QED BY <1>3

-----------------------------------------------------------------------------
(* Any ring, damaged or not: the values S have been linked at some time, and *)
(* no link leads out of them.                                                *)

RecordType == [next : [Node -> Node \cup {Null}], ptr : Node \cup {Null}, len : Nat]

Loose(L, S) ==
  /\ L \in RecordType
  /\ S \subseteq Node
  /\ \A n \in Node : n \in S <=> L.next[n] # Null
  /\ \A n \in S : L.next[n] \in S

\* Once there are such values, the end of the ring is one of them.
EndIn(L, S) == S # {} => L.ptr \in S

\* What a call may rely on.
Usual(L, S) ==
  /\ Loose(L, S)
  /\ EndIn(L, S)
  /\ L.len <= Cardinality(S)

LEMMA LinkedFacts ==
  ASSUME NEW S \in SUBSET Node
  PROVE  /\ IsFiniteSet(S)
         /\ Cardinality(S) \in Nat
         /\ Cardinality(S) <= Cardinality(Node)
         /\ Cardinality(Node) \in Nat /\ Cardinality(Node) < SizeMax /\ SizeMax \in Nat
         /\ \A v \in Node \ S : Cardinality(S \cup {v}) = Cardinality(S) + 1
         /\ Cardinality(S) > 0 => S # {}
<1>1. IsFiniteSet(Node) /\ Cardinality(Node) < SizeMax /\ SizeMax \in Nat
  BY NodeAssumption
<1>2. IsFiniteSet(S) /\ Cardinality(S) <= Cardinality(Node)
  BY <1>1, FS_Subset
<1>3. Cardinality(S) \in Nat /\ Cardinality(Node) \in Nat
  BY <1>1, <1>2, FS_CardinalityType
<1>4. \A v \in Node \ S : Cardinality(S \cup {v}) = Cardinality(S) + 1
  BY <1>2, FS_AddElement
<1>5. S = {} => Cardinality(S) = 0
  BY FS_EmptySet
<1> QED BY <1>1, <1>2, <1>3, <1>4, <1>5

LEMMA UsualFacts ==
  ASSUME NEW L, NEW S, Usual(L, S)
  PROVE  /\ L \in ListType
         /\ L.len \in Nat /\ L.len < SizeMax
         /\ L.len > 0 => S # {} /\ L.ptr \in S
<1>1. L \in RecordType /\ S \subseteq Node /\ L.len <= Cardinality(S) /\ EndIn(L, S)
  BY DEF Usual, Loose
<1>2. /\ Cardinality(S) \in Nat /\ Cardinality(S) <= Cardinality(Node)
      /\ Cardinality(Node) \in Nat /\ Cardinality(Node) < SizeMax /\ SizeMax \in Nat
      /\ Cardinality(S) > 0 => S # {}
  BY <1>1, LinkedFacts
<1>3. L.len \in Nat
  BY <1>1 DEF RecordType
<1>4. L.len \in Count
  BY <1>1, <1>2, <1>3 DEF Count
<1>5. L \in ListType
  BY <1>1, <1>4 DEF RecordType, ListType
<1> QED BY <1>1, <1>2, <1>3, <1>5 DEF EndIn

LEMMA LooseWalk ==
  ASSUME NEW L, NEW S, Loose(L, S), NEW p \in S, NEW k \in Nat
  PROVE  Walk(L, p, k) \in S
BY WalkStays DEF Loose

\* Each operation gives such a ring again, and a length that is as expected.
LEMMA LinkLoose ==
  ASSUME NEW L, NEW S, Loose(L, S), EndIn(L, S), NEW v \in Node, NEW prev \in S,
         NEW last \in BOOLEAN
  PROVE  LET M == Link(L, prev, v, last)
         IN  Loose(M, S \cup {v}) /\ EndIn(M, S \cup {v}) /\ M.len = L.len + 1
<1> DEFINE T  == S \cup {v}
           nx == [L.next EXCEPT ![prev] = v, ![v] = L.next[prev]]
           e  == IF last THEN v ELSE L.ptr
<1>1. L \in RecordType /\ S \subseteq Node /\ prev \in Node
  BY DEF Loose
<1>2. L.next \in [Node -> Node \cup {Null}] /\ L.ptr \in S /\ L.len \in Nat
  BY <1>1 DEF RecordType, EndIn
<1>3. nx \in [Node -> Node \cup {Null}]
  BY <1>1, <1>2
<1>4. \A n \in Node : nx[n] = IF n = v THEN L.next[prev] ELSE IF n = prev THEN v ELSE L.next[n]
  BY <1>1, <1>2
<1>5. /\ Null \notin Node
      /\ \A n \in Node : n \in S <=> L.next[n] # Null
      /\ \A n \in S : L.next[n] \in S
  BY NodeAssumption DEF Loose
<1>6. Link(L, prev, v, last) = [next |-> nx, ptr |-> e, len |-> L.len + 1]
  BY DEF Link
<1>7. e \in Node \cup {Null} /\ L.len + 1 \in Nat /\ e \in T
  BY <1>1, <1>2
<1> HIDE DEF nx, e
<1>8. \A n \in Node : n \in T <=> nx[n] # Null
  BY <1>1, <1>4, <1>5
<1>9. \A n \in T : nx[n] \in T
  BY <1>1, <1>4, <1>5
<1>10. T \subseteq Node
  BY <1>1
<1> HIDE DEF T
<1> DEFINE M == [next |-> nx, ptr |-> e, len |-> L.len + 1]
<1>11. M \in RecordType /\ M.next = nx /\ M.ptr = e /\ M.len = L.len + 1
  BY <1>3, <1>7 DEF RecordType
<1> HIDE DEF M
<1>12. Loose(M, T) /\ EndIn(M, T)
  BY <1>7, <1>8, <1>9, <1>10, <1>11 DEF Loose, EndIn
<1> QED BY <1>6, <1>11, <1>12 DEF M, T

LEMMA InsertLoose ==
  ASSUME NEW L, NEW S, Loose(L, S), EndIn(L, S), L.len > 0 => S # {},
         NEW v \in Node, NEW i \in 0 .. L.len
  PROVE  LET M == arr_insert(L, v, i)
         IN  Loose(M, S \cup {v}) /\ EndIn(M, S \cup {v}) /\ M.len = L.len + 1
<1>1. L \in RecordType /\ L.len \in Nat /\ L.next \in [Node -> Node \cup {Null}]
  BY DEF Loose, RecordType
<1>2. CASE L.len = 0
  <2> DEFINE nx == [L.next EXCEPT ![v] = v]
             M  == [next |-> nx, ptr |-> v, len |-> 1]
  <2>1. arr_insert(L, v, i) = M
    BY <1>2 DEF arr_insert
  <2>2. nx \in [Node -> Node \cup {Null}] /\ \A n \in Node : nx[n] = IF n = v THEN v ELSE L.next[n]
    BY <1>1
  <2> HIDE DEF nx
  <2>3. M \in RecordType /\ M.next = nx /\ M.ptr = v /\ M.len = L.len + 1
    BY <1>2, <2>2 DEF RecordType
  <2> HIDE DEF M
  <2>4. Loose(M, S \cup {v}) /\ EndIn(M, S \cup {v})
    BY <2>2, <2>3, NodeAssumption DEF Loose, EndIn
  <2> QED BY <2>1, <2>3, <2>4
<1>3. CASE L.len # 0
  <2>1. L.ptr \in S
    BY <1>1, <1>3 DEF EndIn
  <2>2. Walk(L, L.ptr, i) \in S
    BY <1>1, <2>1, LooseWalk
  <2>3. \/ arr_insert(L, v, i) = Link(L, L.ptr, v, TRUE)
        \/ arr_insert(L, v, i) = Link(L, Walk(L, L.ptr, i), v, FALSE)
    BY <1>3 DEF arr_insert
  <2>4. PICK prev \in S, last \in BOOLEAN : arr_insert(L, v, i) = Link(L, prev, v, last)
    BY <2>1, <2>2, <2>3
  <2> QED BY <2>4, LinkLoose
<1> QED BY <1>2, <1>3

LEMMA ReplaceLoose ==
  ASSUME NEW L, NEW S, Loose(L, S), EndIn(L, S), S # {}, NEW v \in Node,
         NEW i \in 0 .. L.len - 1
  PROVE  LET M == arr_replace(L, i, v)
         IN  Loose(M, S \cup {v}) /\ EndIn(M, S \cup {v}) /\ M.len = L.len
<1> DEFINE prev == Walk(L, L.ptr, i)
           old  == L.next[prev]
           T    == S \cup {v}
<1>1. /\ L \in RecordType /\ S \subseteq Node /\ L.len \in Nat /\ L.len > 0
      /\ L.next \in [Node -> Node \cup {Null}] /\ L.ptr \in S
      /\ Null \notin Node
      /\ \A n \in Node : n \in S <=> L.next[n] # Null
      /\ \A n \in S : L.next[n] \in S
  BY NodeAssumption DEF Loose, RecordType, EndIn
<1>2. prev \in S /\ old \in S
  BY <1>1, LooseWalk
<1>3. CASE L.len = 1
  <2> DEFINE nx == [L.next EXCEPT ![v] = v]
             M  == [next |-> nx, ptr |-> v, len |-> 1]
  <2>1. arr_replace(L, i, v) = M
    BY <1>3 DEF arr_replace
  <2>2. nx \in [Node -> Node \cup {Null}] /\ \A n \in Node : nx[n] = IF n = v THEN v ELSE L.next[n]
    BY <1>1
  <2> HIDE DEF nx
  <2>3. M \in RecordType /\ M.next = nx /\ M.ptr = v /\ M.len = L.len
    BY <1>3, <2>2 DEF RecordType
  <2> HIDE DEF M
  <2>4. Loose(M, T) /\ EndIn(M, T)
    BY <1>1, <2>2, <2>3 DEF Loose, EndIn
  <2> QED BY <2>1, <2>3, <2>4
<1>4. CASE L.len # 1
  <2> DEFINE nx == [L.next EXCEPT ![prev] = v, ![v] = L.next[old]]
             e  == IF L.ptr = old THEN v ELSE L.ptr
             M  == [next |-> nx, ptr |-> e, len |-> L.len]
  <2>1. arr_replace(L, i, v) = M
    BY <1>4 DEF arr_replace
  <2> HIDE DEF prev, old
  <2>2. /\ nx \in [Node -> Node \cup {Null}]
        /\ \A n \in Node : nx[n] = IF n = v THEN L.next[old] ELSE IF n = prev THEN v ELSE L.next[n]
    BY <1>1, <1>2
  <2>3. e \in T /\ e \in Node
    BY <1>1
  <2> HIDE DEF nx, e
  <2>4. M \in RecordType /\ M.next = nx /\ M.ptr = e /\ M.len = L.len
    BY <1>1, <2>2, <2>3 DEF RecordType
  <2> HIDE DEF M
  <2>5. \A n \in Node : n \in T <=> nx[n] # Null
    BY <1>1, <1>2, <2>2
  <2>6. \A n \in T : nx[n] \in T
    BY <1>1, <1>2, <2>2
  <2>7. Loose(M, T) /\ EndIn(M, T)
    BY <1>1, <2>3, <2>4, <2>5, <2>6 DEF Loose, EndIn
  <2> QED BY <2>1, <2>4, <2>7
<1> QED BY <1>3, <1>4

\* One link is set to a value that is there, the end maybe moved.
LEMMA RelinkLoose ==
  ASSUME NEW L, NEW S, Loose(L, S), NEW prev \in S, NEW to \in S, NEW e \in S \cup {L.ptr},
         NEW m \in Nat, NEW M, M = [next |-> [L.next EXCEPT ![prev] = to], ptr |-> e, len |-> m]
  PROVE  Loose(M, S) /\ (EndIn(L, S) => EndIn(M, S)) /\ M.len = m
<1> DEFINE nx == [L.next EXCEPT ![prev] = to]
<1>1. /\ L \in RecordType /\ S \subseteq Node
      /\ L.next \in [Node -> Node \cup {Null}] /\ L.ptr \in Node \cup {Null}
      /\ Null \notin Node
      /\ \A n \in Node : n \in S <=> L.next[n] # Null
      /\ \A n \in S : L.next[n] \in S
  BY NodeAssumption DEF Loose, RecordType
<1>2. nx \in [Node -> Node \cup {Null}] /\ \A n \in Node : nx[n] = IF n = prev THEN to ELSE L.next[n]
  BY <1>1
<1> HIDE DEF nx
<1>3. M \in RecordType /\ M.next = nx /\ M.ptr = e /\ M.len = m
  BY <1>1, <1>2 DEF RecordType, nx
<1>4. Loose(M, S)
  BY <1>1, <1>2, <1>3 DEF Loose
<1>5. EndIn(L, S) => EndIn(M, S)
  BY <1>3 DEF EndIn
<1> QED BY <1>3, <1>4, <1>5

LEMMA ClearLoose ==
  ASSUME NEW L, NEW S, Loose(L, S)
  PROVE  Loose(arr_clear(L), S) /\ (EndIn(L, S) => EndIn(arr_clear(L), S)) /\ arr_clear(L).len = 0
<1>1. arr_clear(L) \in RecordType /\ arr_clear(L).next = L.next /\ arr_clear(L).ptr = L.ptr
      /\ arr_clear(L).len = 0
  BY DEF arr_clear, Loose, RecordType
<1> QED BY <1>1 DEF Loose, EndIn

LEMMA UnlinkLoose ==
  ASSUME NEW L, NEW S, Usual(L, S), NEW prev \in S, NEW n \in 0 .. L.len, NEW tail \in BOOLEAN
  PROVE  LET M == Unlink(L, prev, n, tail)
         IN  Loose(M, S) /\ EndIn(M, S) /\ M.len = L.len - n
<1>1. Loose(L, S) /\ EndIn(L, S) /\ L.len \in Nat /\ L.len < SizeMax /\ SizeMax \in Nat
  BY UsualFacts, NodeAssumption DEF Usual
<1>2. Sz(L.len - n) = L.len - n
  <2>1. L.len - n \in 0 .. SizeMax
    BY <1>1
  <2>2. \A x \in 0 .. SizeMax : x % (SizeMax + 1) = x
    BY <1>1
  <2> QED BY <2>1, <2>2 DEF Sz
<1>3. L.next[prev] \in S
  BY <1>1 DEF Loose
<1>4. Walk(L, L.next[prev], n) \in S
  BY <1>1, <1>3, LooseWalk
<1> DEFINE to == Walk(L, L.next[prev], n)
           e  == IF tail THEN prev ELSE L.ptr
           m  == L.len - n
<1>5. e \in S \cup {L.ptr} /\ m \in Nat
  BY <1>1
<1>6. Unlink(L, prev, n, tail) = [next |-> [L.next EXCEPT ![prev] = to], ptr |-> e, len |-> m]
  BY <1>2 DEF Unlink
<1> HIDE DEF to, e, m
<1>7. PICK M : M = [next |-> [L.next EXCEPT ![prev] = to], ptr |-> e, len |-> m]
  OBVIOUS
<1>8. Loose(M, S) /\ EndIn(M, S) /\ M.len = m
  BY <1>1, <1>4, <1>5, <1>7, RelinkLoose DEF to
<1> QED BY <1>6, <1>7, <1>8 DEF m

LEMMA RemoveLoose ==
  ASSUME NEW L, NEW S, Usual(L, S), L.len > 0, NEW i \in 0 .. L.len - 1
  PROVE  LET M == arr_remove(L, i)
         IN  Loose(M, S) /\ EndIn(M, S) /\ M.len = L.len - 1
<1>1. Loose(L, S) /\ EndIn(L, S) /\ L.len \in Nat /\ L.ptr \in S
  BY UsualFacts DEF Usual
<1>2. CASE L.len = 1
  BY <1>1, <1>2, ClearLoose DEF arr_remove
<1>3. CASE L.len # 1
  <2>1. PICK prev : prev = Walk(L, L.ptr, i) /\ prev \in S
    BY <1>1, LooseWalk
  <2>2. PICK tail \in BOOLEAN : tail = (L.next[prev] = L.ptr)
    OBVIOUS
  <2>3. arr_remove(L, i) = Unlink(L, prev, 1, tail)
    BY <1>3, <2>1, <2>2 DEF arr_remove
  <2>4. 1 \in 0 .. L.len
    BY <1>1
  <2> QED BY <2>1, <2>3, <2>4, UnlinkLoose
<1> QED BY <1>2, <1>3

LEMMA RemoveFirstLoose ==
  ASSUME NEW L, NEW S, Usual(L, S), L.len > 0
  PROVE  LET M == arr_remove_first(L)
         IN  Loose(M, S) /\ EndIn(M, S) /\ M.len = L.len - 1
<1>1. Loose(L, S) /\ EndIn(L, S) /\ L.len \in Nat /\ L.ptr \in S
  BY UsualFacts DEF Usual
<1>2. CASE L.len = 1
  BY <1>1, <1>2, ClearLoose DEF arr_remove_first
<1>3. CASE L.len # 1
  <2>1. arr_remove_first(L) = Unlink(L, L.ptr, 1, FALSE) /\ 1 \in 0 .. L.len
    BY <1>1, <1>3 DEF arr_remove_first
  <2>2. PICK prev \in S, n \in 0 .. L.len, tail \in BOOLEAN : prev = L.ptr /\ n = 1 /\ tail = FALSE
    BY <1>1, <2>1
  <2>3. arr_remove_first(L) = Unlink(L, prev, n, tail)
    BY <2>1, <2>2
  <2> QED BY <2>2, <2>3, UnlinkLoose
<1> QED BY <1>2, <1>3

LEMMA RemoveLastLoose ==
  ASSUME NEW L, NEW S, Usual(L, S), L.len > 0
  PROVE  LET M == arr_remove_last(L)
         IN  Loose(M, S) /\ EndIn(M, S) /\ M.len = L.len - 1
<1>1. Loose(L, S) /\ EndIn(L, S) /\ L.len \in Nat /\ L.ptr \in S
  BY UsualFacts DEF Usual
<1>2. CASE L.len = 1
  BY <1>1, <1>2, ClearLoose DEF arr_remove_last
<1>3. CASE L.len # 1
  <2>1. L.len - 1 \in Nat
    BY <1>1
  <2>2. PICK prev : prev = Walk(L, L.ptr, L.len - 1) /\ prev \in S
    BY <1>1, <2>1, LooseWalk
  <2>3. L.next[L.ptr] \in S
    BY <1>1 DEF Loose
  <2>4. arr_remove_last(L) =
          [next |-> [L.next EXCEPT ![prev] = L.next[L.ptr]], ptr |-> prev, len |-> L.len - 1]
    BY <1>3, <2>2 DEF arr_remove_last
  <2>5. PICK M : M = arr_remove_last(L)
    OBVIOUS
  <2>6. Loose(M, S) /\ (EndIn(L, S) => EndIn(M, S)) /\ M.len = L.len - 1
    BY <1>1, <2>1, <2>2, <2>3, <2>4, <2>5, RelinkLoose
  <2> QED BY <1>1, <2>5, <2>6
<1> QED BY <1>2, <1>3

LEMMA RemoveRangeLoose ==
  ASSUME NEW L, NEW S, Usual(L, S), NEW i \in Nat, NEW n \in Nat, i < L.len, n <= L.len - i
  PROVE  LET M == arr_remove_range(L, i, n)
         IN  Loose(M, S) /\ EndIn(M, S) /\ M.len = L.len - n
<1>1. Loose(L, S) /\ EndIn(L, S) /\ L.len \in Nat /\ L.ptr \in S
  BY UsualFacts DEF Usual
<1>2. CASE n = 0
  BY <1>1, <1>2 DEF arr_remove_range
<1>3. CASE n = L.len
  <2>1. arr_remove_range(L, i, n) \in {L, arr_clear(L)} /\ (L.len = 0 => n = 0) /\ i = 0
    BY <1>1, <1>3 DEF arr_remove_range
  <2>2. Sz(i + n) <= L.len
    <3>1. L.len < SizeMax /\ SizeMax \in Nat
      BY UsualFacts, NodeAssumption
    <3>2. \A x \in 0 .. SizeMax : x % (SizeMax + 1) = x
      BY <3>1
    <3> QED BY <1>1, <1>3, <2>1, <3>1, <3>2 DEF Sz
  <2>3. Sz(i + n) \in Int
    <3>1. SizeMax \in Nat
      BY NodeAssumption
    <3> QED BY <3>1 DEF Sz
  <2>4. arr_remove_range(L, i, n) = arr_clear(L)
    BY <1>1, <1>3, <2>2, <2>3 DEF arr_remove_range
  <2> QED BY <1>1, <1>3, <2>4, ClearLoose
<1>4. CASE n # 0 /\ n # L.len
  <2>1. PICK prev : prev = Walk(L, L.ptr, i) /\ prev \in S
    BY <1>1, LooseWalk
  <2>2. PICK tail \in BOOLEAN : tail = (Sz(i + n) = L.len)
    OBVIOUS
  <2>3. arr_remove_range(L, i, n) \in {L, Unlink(L, prev, n, tail)}
    BY <1>4, <2>1, <2>2 DEF arr_remove_range
  <2>4. Sz(i + n) = i + n /\ i + n <= L.len
    <3>1. L.len < SizeMax /\ SizeMax \in Nat
      BY UsualFacts, NodeAssumption
    <3>2. \A x \in 0 .. SizeMax : x % (SizeMax + 1) = x
      BY <3>1
    <3> QED BY <1>1, <3>1, <3>2 DEF Sz
  <2>5. arr_remove_range(L, i, n) = Unlink(L, prev, n, tail) /\ n \in 0 .. L.len
    BY <1>1, <1>4, <2>1, <2>2, <2>4 DEF arr_remove_range
  <2> QED BY <2>1, <2>5, UnlinkLoose
<1> QED BY <1>2, <1>3, <1>4

LEMMA RotateLoose ==
  ASSUME NEW L, NEW S, Usual(L, S), NEW i \in 0 .. L.len - 1
  PROVE  LET M == arr_rotate(L, i)
         IN  Loose(M, S) /\ EndIn(M, S) /\ M.len = L.len
<1>1. Loose(L, S) /\ EndIn(L, S) /\ L \in RecordType /\ L.len \in Nat /\ L.ptr \in S
  BY UsualFacts DEF Usual, Loose
<1>2. PICK p : p = Walk(L, L.ptr, i) /\ p \in S
  BY <1>1, LooseWalk
<1>3. arr_rotate(L, i) = [L EXCEPT !.ptr = p]
  BY <1>1, <1>2 DEF arr_rotate
<1>4. PICK M : M = [L EXCEPT !.ptr = p]
  OBVIOUS
<1>5. p \in Node
  BY <1>1, <1>2 DEF Loose
<1>6. M \in RecordType /\ M.next = L.next /\ M.ptr = p /\ M.len = L.len
  BY <1>1, <1>4, <1>5 DEF RecordType
<1>7. Loose(M, S) /\ EndIn(M, S)
  BY <1>1, <1>2, <1>6 DEF Loose, EndIn
<1> QED BY <1>3, <1>4, <1>6, <1>7

-----------------------------------------------------------------------------
(* Appending one by one *)

Appended(L, s, k, l) ==
  /\ l[0] = L
  /\ \A j \in 1 .. k : l[j] = arr_append(l[j - 1], s[j])

LEMMA AppendRecursion ==
  ASSUME NEW L, NEW s, Len(s) \in Nat
  PROVE  \E l : Appended(L, s, Len(s), l) /\ append_all(L, s) = l[Len(s)]
<1> DEFINE Good(l, m) == l = [j \in 0 .. m |-> IF j = 0 THEN L ELSE arr_append(l[j - 1], s[j])]
           S == {m \in Nat : \E l : Good(l, m)}
<1>1. 0 \in S
  <2>1. Good([j \in 0 .. 0 |-> L], 0)
    OBVIOUS
  <2> QED BY <2>1
<1>2. \A m \in S \cap Nat : m + 1 \in S
  <2> SUFFICES ASSUME NEW m \in Nat, NEW l, Good(l, m)
               PROVE  m + 1 \in S
    OBVIOUS
  <2> DEFINE more == [j \in 0 .. m + 1 |-> IF j = m + 1 THEN arr_append(l[m], s[m + 1]) ELSE l[j]]
  <2>1. Good(more, m + 1)
    OBVIOUS
  <2> HIDE DEF Good
  <2> QED BY <2>1
<1>3. Len(s) \in S
  <2> HIDE DEF S
  <2> QED BY <1>1, <1>2, NaturalInduction
<1> DEFINE all == CHOOSE l : Good(l, Len(s))
<1>4. Good(all, Len(s))
  <2> HIDE DEF Good
  <2> QED BY <1>3
<1>5. append_all(L, s) = all[Len(s)]
  BY Zenon DEF append_all
<1>6. Appended(L, s, Len(s), all)
  <2> HIDE DEF all
  <2> QED BY <1>4 DEF Appended
<1> QED BY <1>5, <1>6

LEMMA AppendAllLoose ==
  ASSUME NEW L, NEW S, Loose(L, S), EndIn(L, S), L.len = 0, NEW s \in Seq(S)
  PROVE  LET M == append_all(L, s)
         IN  Loose(M, S) /\ EndIn(M, S) /\ M.len = Len(s)
<1>1. Len(s) \in Nat /\ \A j \in 1 .. Len(s) : s[j] \in S
  OBVIOUS
<1>2. PICK l : Appended(L, s, Len(s), l) /\ append_all(L, s) = l[Len(s)]
  BY <1>1, AppendRecursion
<1> DEFINE T == {j \in Nat : j <= Len(s) => Loose(l[j], S) /\ EndIn(l[j], S) /\ l[j].len = j}
<1>3. 0 \in T
  BY <1>2 DEF Appended
<1>4. \A j \in T \cap Nat : j + 1 \in T
  <2> SUFFICES ASSUME NEW j \in Nat, j \in T, j + 1 <= Len(s)
               PROVE  Loose(l[j + 1], S) /\ EndIn(l[j + 1], S) /\ l[j + 1].len = j + 1
    OBVIOUS
  <2>1. Loose(l[j], S) /\ EndIn(l[j], S) /\ l[j].len = j
    BY <1>1
  <2>2. j + 1 \in 1 .. Len(s) /\ (j + 1) - 1 = j
    BY <1>1
  <2>3. s[j + 1] \in S /\ S \subseteq Node
    BY <1>1, <2>1, <2>2 DEF Loose
  <2>4. PICK v \in Node : v = s[j + 1] /\ S \cup {v} = S
    BY <2>3
  <2>5. l[j + 1] = arr_insert(l[j], v, j)
    BY <1>2, <2>1, <2>2, <2>4 DEF Appended, arr_append
  <2>6. S # {} /\ j \in 0 .. l[j].len
    BY <2>1, <2>3
  <2> HIDE DEF T
  <2>7. PICK K, M : K = l[j] /\ M = l[j + 1]
    OBVIOUS
  <2>8. Loose(K, S) /\ EndIn(K, S) /\ K.len = j /\ M = arr_insert(K, v, j)
    BY <2>1, <2>5, <2>7
  <2>9. (K.len > 0 => S # {}) /\ j \in 0 .. K.len
    BY <2>6, <2>8
  <2>10. Loose(M, S \cup {v}) /\ EndIn(M, S \cup {v}) /\ M.len = K.len + 1
    BY <2>8, <2>9, InsertLoose
  <2> QED BY <2>4, <2>7, <2>8, <2>10
<1>5. Len(s) \in T
  <2> HIDE DEF T
  <2> QED BY <1>1, <1>3, <1>4, NaturalInduction
<1> QED BY <1>1, <1>2, <1>5

-----------------------------------------------------------------------------
(* Iterators *)

\* What an iterator keeps may be followed.
IterLoose(it, S) ==
  /\ it.idx \in Nat /\ it.max \in Nat
  /\ it.idx <= it.max
  /\ it.max > 0 => it.cur \in S
  /\ it.idx > 0 => it.pre \in S

LEMMA IterRemoveLoose ==
  ASSUME NEW L, NEW S, Loose(L, S), NEW it, IterLoose(it, S), iter_can_remove(it)
  PROVE  LET M == iter_remove_list(L, it)
         IN  Loose(M, S) /\ (EndIn(L, S) => EndIn(M, S)) /\ M.len = it.max - 1
<1>1. it.pre \in S /\ it.cur \in S /\ it.max - 1 \in Nat
  BY DEF IterLoose, iter_can_remove
<1>2. L.next[it.cur] \in S
  BY <1>1 DEF Loose
<1>3. PICK e \in S \cup {L.ptr} : e = IF it.idx = it.max THEN it.pre ELSE L.ptr
  BY <1>1
<1>4. PICK M : M = iter_remove_list(L, it)
  OBVIOUS
<1>5. PICK prev \in S, to \in S, m \in Nat :
        prev = it.pre /\ to = L.next[it.cur] /\ m = it.max - 1
  BY <1>1, <1>2
<1>6. M = [next |-> [L.next EXCEPT ![prev] = to], ptr |-> e, len |-> m]
  BY <1>3, <1>4, <1>5 DEF iter_remove_list
<1>7. Loose(M, S) /\ (EndIn(L, S) => EndIn(M, S)) /\ M.len = m
  BY <1>6, RelinkLoose
<1> QED BY <1>4, <1>5, <1>7

-----------------------------------------------------------------------------
(* A sound ring: the sequence of its values *)

IsRing(L, s) ==
  /\ s \in Seq(Node)
  /\ IsInjective(s)
  /\ Len(s) = L.len
  /\ \A k \in 1 .. Len(s) - 1 : L.next[s[k]] = s[k + 1]
  /\ Len(s) > 0 => L.ptr = s[Len(s)] /\ L.next[L.ptr] = s[1]

\* The value before the one at index k: the ring closes.
Place(s, k) == IF k = 0 THEN s[Len(s)] ELSE s[k]

\* The value after the one at index k.
After(s, k) == IF k = Len(s) THEN s[1] ELSE s[k + 1]

LEMMA RingFacts ==
  ASSUME NEW L, NEW s, IsRing(L, s)
  PROVE  /\ Len(s) \in Nat /\ Len(s) = L.len
         /\ s = [k \in 1 .. Len(s) |-> s[k]] /\ DOMAIN s = 1 .. Len(s)
         /\ \A k \in 1 .. Len(s) : s[k] \in Node
         /\ \A j, k \in 1 .. Len(s) : s[j] = s[k] => j = k
<1>1. s \in Seq(Node) /\ IsInjective(s) /\ Len(s) = L.len
  BY DEF IsRing
<1>2. Len(s) \in Nat /\ DOMAIN s = 1 .. Len(s) /\ s = [k \in 1 .. Len(s) |-> s[k]]
  BY <1>1
<1> QED BY <1>1, <1>2 DEF IsInjective

LEMMA RingWalk ==
  ASSUME NEW L, NEW s, IsRing(L, s), NEW m \in 1 .. Len(s), NEW j \in 0 .. Len(s) - m
  PROVE  Walk(L, s[m], j) = s[m + j]
<1>0. Len(s) \in Nat /\ \A k \in 1 .. Len(s) - 1 : L.next[s[k]] = s[k + 1]
  BY RingFacts DEF IsRing
<1> DEFINE T == {k \in Nat : k <= Len(s) - m => Walk(L, s[m], k) = s[m + k]}
<1>1. 0 \in T
  BY <1>0, WalkNone
<1>2. \A k \in T \cap Nat : k + 1 \in T
  <2> SUFFICES ASSUME NEW k \in Nat, k \in T, k + 1 <= Len(s) - m
               PROVE  Walk(L, s[m], k + 1) = s[m + (k + 1)]
    OBVIOUS
  <2>1. Walk(L, s[m], k) = s[m + k]
    BY <1>0
  <2>2. m + k \in 1 .. Len(s) - 1 /\ (m + k) + 1 = m + (k + 1)
    BY <1>0
  <2> HIDE DEF T
  <2>3. Walk(L, s[m], k + 1) = L.next[Walk(L, s[m], k)]
    BY WalkNext
  <2>4. L.next[s[m + k]] = s[(m + k) + 1]
    BY <1>0, <2>2
  <2> QED BY <2>1, <2>2, <2>3, <2>4
<1>3. j \in T
  <2> HIDE DEF T
  <2> QED BY <1>1, <1>2, NaturalInduction
<1> QED BY <1>3

\* A walk of as many steps again starts where the first ended.
LEMMA WalkOn ==
  ASSUME NEW L, NEW p, NEW j \in Nat, NEW k \in Nat
  PROVE  Walk(L, p, j + k) = Walk(L, Walk(L, p, j), k)
<1> DEFINE T == {n \in Nat : Walk(L, p, j + n) = Walk(L, Walk(L, p, j), n)}
<1>1. 0 \in T
  BY WalkNone
<1>2. \A n \in T \cap Nat : n + 1 \in T
  <2> SUFFICES ASSUME NEW n \in Nat, n \in T
               PROVE  Walk(L, p, j + (n + 1)) = Walk(L, Walk(L, p, j), n + 1)
    OBVIOUS
  <2>1. Walk(L, p, (j + n) + 1) = L.next[Walk(L, p, j + n)]
    <3>1. PICK a \in Nat : a = j + n
      OBVIOUS
    <3> HIDE DEF T
    <3>2. Walk(L, p, a + 1) = L.next[Walk(L, p, a)]
      BY WalkNext
    <3> QED BY <3>1, <3>2
  <2>2. Walk(L, Walk(L, p, j), n + 1) = L.next[Walk(L, Walk(L, p, j), n)]
    <3> HIDE DEF T
    <3> QED BY WalkNext
  <2>3. (j + n) + 1 = j + (n + 1)
    OBVIOUS
  <2> QED BY <2>1, <2>2, <2>3
<1>3. k \in T
  <2> HIDE DEF T
  <2> QED BY <1>1, <1>2, NaturalInduction
<1> QED BY <1>3

LEMMA RingPlace ==
  ASSUME NEW L, NEW s, IsRing(L, s), Len(s) > 0, NEW k \in 0 .. Len(s)
  PROVE  Walk(L, L.ptr, k) = Place(s, k)
<1>1. Len(s) \in Nat /\ L.ptr = s[Len(s)] /\ L.next[L.ptr] = s[1]
  BY RingFacts DEF IsRing
<1>2. CASE k = 0
  BY <1>1, <1>2, WalkNone DEF Place
<1>3. CASE k # 0
  <2>1. PICK j : j = k - 1 /\ j \in Nat /\ 1 \in 1 .. Len(s) /\ j \in 0 .. Len(s) - 1
    BY <1>1, <1>3
  <2>2. Walk(L, s[1], j) = s[1 + j]
    BY <2>1, RingWalk
  <2>3. Walk(L, L.ptr, 1 + j) = Walk(L, Walk(L, L.ptr, 1), j)
    BY <2>1, WalkOn
  <2>4. Walk(L, L.ptr, 1) = s[1]
    BY <1>1, WalkOne
  <2>5. 1 + j = k
    BY <2>1
  <2> QED BY <1>3, <2>2, <2>3, <2>4, <2>5 DEF Place
<1> QED BY <1>2, <1>3

LEMMA RingElements ==
  ASSUME NEW L, NEW s, IsRing(L, s)
  PROVE  Elements(L) = s
<1>1. Len(s) \in Nat /\ Len(s) = L.len /\ s = [k \in 1 .. Len(s) |-> s[k]]
  BY RingFacts
<1>2. \A k \in 1 .. Len(s) : Walk(L, L.ptr, k) = s[k]
  <2> TAKE k \in 1 .. Len(s)
  <2>1. Len(s) > 0 /\ k \in 0 .. Len(s) /\ k # 0
    BY <1>1
  <2>2. Walk(L, L.ptr, k) = Place(s, k)
    BY <2>1, RingPlace
  <2> QED BY <2>1, <2>2 DEF Place
<1>3. Elements(L) = [k \in 1 .. Len(s) |-> Walk(L, L.ptr, k)]
  BY <1>1 DEF Elements
<1> QED BY <1>1, <1>2, <1>3

-----------------------------------------------------------------------------
(* What each operation does to the values of a sound ring *)

Cut(s, i, m) == [k \in 1 .. Len(s) - m |-> IF k <= i THEN s[k] ELSE s[k + m]]

Put1(s, i, v) ==
  [k \in 1 .. Len(s) + 1 |-> IF k <= i THEN s[k] ELSE IF k = i + 1 THEN v ELSE s[k - 1]]

LEMMA CutFacts ==
  ASSUME NEW s \in Seq(Node), IsInjective(s), NEW i \in Nat, NEW m \in Nat, i + m <= Len(s)
  PROVE  /\ Cut(s, i, m) \in Seq(Node) /\ Len(Cut(s, i, m)) = Len(s) - m
         /\ IsInjective(Cut(s, i, m))
         /\ \A k \in 1 .. Len(s) - m : Cut(s, i, m)[k] = IF k <= i THEN s[k] ELSE s[k + m]
<1>1. Len(s) \in Nat /\ DOMAIN s = 1 .. Len(s) /\ \A k \in 1 .. Len(s) : s[k] \in Node
  OBVIOUS
<1>2. \A j, k \in 1 .. Len(s) : s[j] = s[k] => j = k
  BY <1>1 DEF IsInjective
<1>3. PICK n \in Nat : n = Len(s) - m
  <2>1. Len(s) - m \in Nat
    BY <1>1
  <2> QED BY <2>1
<1>4. PICK t : t = [k \in 1 .. n |-> IF k <= i THEN s[k] ELSE s[k + m]]
  OBVIOUS
<1>5. \A k \in 1 .. n : t[k] = IF k <= i THEN s[k] ELSE s[k + m]
  BY <1>4
<1>6. \A k \in 1 .. n : t[k] \in Node
  BY <1>1, <1>3, <1>5
<1>7. t \in Seq(Node) /\ Len(t) = n /\ DOMAIN t = 1 .. n
  BY <1>4, <1>6
<1>8. \A j, k \in 1 .. n : t[j] = t[k] => j = k
  <2> TAKE j, k \in 1 .. n
  <2>1. PICK a, b : /\ a = (IF j <= i THEN j ELSE j + m) /\ b = (IF k <= i THEN k ELSE k + m)
                    /\ a \in 1 .. Len(s) /\ b \in 1 .. Len(s)
    BY <1>1, <1>3
  <2>2. t[j] = s[a] /\ t[k] = s[b]
    BY <1>5, <2>1
  <2>3. t[j] = t[k] => a = b
    BY <1>2, <2>1, <2>2
  <2> QED BY <2>1, <2>3
<1> QED BY <1>3, <1>4, <1>5, <1>7, <1>8, ZenonT(60) DEF Cut, IsInjective

\* The same as one fact, for steps that need it of a given sequence.
CutLeaves(s, i, m) ==
  /\ Cut(s, i, m) \in Seq(Node) /\ Len(Cut(s, i, m)) = Len(s) - m
  /\ IsInjective(Cut(s, i, m))
  /\ \A k \in 1 .. Len(s) - m : Cut(s, i, m)[k] = IF k <= i THEN s[k] ELSE s[k + m]

LEMMA CutIsLeft ==
  ASSUME NEW s \in Seq(Node), IsInjective(s), NEW i \in Nat, NEW m \in Nat, i + m <= Len(s)
  PROVE  CutLeaves(s, i, m)
BY CutFacts DEF CutLeaves

LEMMA Put1Facts ==
  ASSUME NEW s \in Seq(Node), IsInjective(s), NEW i \in 0 .. Len(s), NEW v \in Node,
         \A k \in 1 .. Len(s) : s[k] # v
  PROVE  /\ Put1(s, i, v) \in Seq(Node) /\ Len(Put1(s, i, v)) = Len(s) + 1
         /\ IsInjective(Put1(s, i, v))
         /\ \A k \in 1 .. Len(s) + 1 :
              Put1(s, i, v)[k] = IF k <= i THEN s[k] ELSE IF k = i + 1 THEN v ELSE s[k - 1]
<1>1. Len(s) \in Nat /\ DOMAIN s = 1 .. Len(s) /\ \A k \in 1 .. Len(s) : s[k] \in Node
  OBVIOUS
<1>2. \A j, k \in 1 .. Len(s) : s[j] = s[k] => j = k
  BY <1>1 DEF IsInjective
<1>3. PICK n \in Nat : n = Len(s) + 1
  BY <1>1
<1>4. PICK t : t = [k \in 1 .. n |-> IF k <= i THEN s[k] ELSE IF k = i + 1 THEN v ELSE s[k - 1]]
  OBVIOUS
<1>5. \A k \in 1 .. n : t[k] = IF k <= i THEN s[k] ELSE IF k = i + 1 THEN v ELSE s[k - 1]
  BY <1>4
<1>6. \A k \in 1 .. n : t[k] \in Node
  BY <1>1, <1>3, <1>5
<1>7. t \in Seq(Node) /\ Len(t) = n /\ DOMAIN t = 1 .. n
  BY <1>4, <1>6
<1>8. \A j, k \in 1 .. n : t[j] = t[k] => j = k
  <2> TAKE j, k \in 1 .. n
  <2>0. \A x \in 1 .. n : x # i + 1 =>
          \E a \in 1 .. Len(s) : a = (IF x <= i THEN x ELSE x - 1) /\ t[x] = s[a]
    <3> TAKE x \in 1 .. n
    <3> HAVE x # i + 1
    <3>1. CASE x <= i
      <4>1. x \in 1 .. Len(s) /\ t[x] = s[x]
        BY <1>1, <1>5, <3>1
      <4> QED BY <3>1, <4>1
    <3>2. CASE ~(x <= i)
      <4>1. x - 1 \in 1 .. Len(s) /\ t[x] = s[x - 1]
        BY <1>1, <1>3, <1>5, <3>2
      <4> QED BY <3>2, <4>1
    <3> QED BY <3>1, <3>2
  <2>3. (j = i + 1 => t[j] = v) /\ (k = i + 1 => t[k] = v)
    BY <1>5
  <2>4. CASE j # i + 1 /\ k # i + 1
    BY <1>2, <2>0, <2>4
  <2>5. CASE j = i + 1 \/ k = i + 1
    BY <2>0, <2>3, <2>5
  <2> QED BY <2>4, <2>5
<1> QED BY <1>3, <1>4, <1>5, <1>7, <1>8 DEF Put1, IsInjective

\* M is L with the m values after the i-th unlinked.
Unlinked(L, s, i, m, M) ==
  /\ M.len = Len(s) - m
  /\ m < Len(s) =>
       /\ M.next = [L.next EXCEPT ![Place(s, i)] = After(s, i + m)]
       /\ M.ptr = IF i + m = Len(s) THEN Place(s, i) ELSE L.ptr

LEMMA CutRing ==
  ASSUME NEW L, NEW s, IsRing(L, s), L.next \in [Node -> Node \cup {Null}],
         NEW i \in Nat, NEW m \in Nat, m > 0, i + m <= Len(s),
         NEW M, Unlinked(L, s, i, m, M)
  PROVE  IsRing(M, Cut(s, i, m))
<1> DEFINE t  == Cut(s, i, m)
<1>1. PICK n \in Nat, q \in Nat : n = Len(s) /\ q = n - m /\ n = q + m
  <2>1. Len(s) \in Nat /\ Len(s) - m \in Nat
    BY RingFacts
  <2> QED BY <2>1
<1>2. /\ \A k \in 1 .. n : s[k] \in Node
      /\ \A j, k \in 1 .. n : s[j] = s[k] => j = k
      /\ \A k \in 1 .. n - 1 : L.next[s[k]] = s[k + 1]
      /\ n > 0 => L.ptr = s[n] /\ L.next[s[n]] = s[1]
  <2>1. /\ \A k \in 1 .. Len(s) - 1 : L.next[s[k]] = s[k + 1]
        /\ Len(s) > 0 => L.ptr = s[Len(s)] /\ L.next[L.ptr] = s[1]
    BY DEF IsRing
  <2>2. /\ \A k \in 1 .. Len(s) : s[k] \in Node
        /\ \A j, k \in 1 .. Len(s) : s[j] = s[k] => j = k
    BY RingFacts
  <2> QED BY <1>1, <2>1, <2>2
<1>21. s \in Seq(Node) /\ IsInjective(s)
  BY DEF IsRing
<1>22. /\ t \in Seq(Node) /\ Len(t) = Len(s) - m /\ IsInjective(t)
      /\ \A k \in 1 .. Len(s) - m : t[k] = IF k <= i THEN s[k] ELSE s[k + m]
  <2>1. CutLeaves(s, i, m)
    BY <1>21, CutIsLeft
  <2> QED BY <2>1 DEF CutLeaves
<1>3. t \in Seq(Node) /\ Len(t) = q /\ IsInjective(t) /\ M.len = q
  <2> HIDE DEF t
  <2> QED BY <1>1, <1>22 DEF Unlinked
<1>4. /\ \A k \in 1 .. q : k <= i => t[k] = s[k]
      /\ \A k \in 1 .. q : k > i => t[k] = s[k + m]
  <2>1. \A k \in 1 .. q : t[k] = IF k <= i THEN s[k] ELSE s[k + m]
    <3> HIDE DEF t
    <3> QED BY <1>1, <1>22
  <2> HIDE DEF t
  <2> QED BY <2>1
<1>5. i + m <= n /\ m > 0
  BY <1>1
<1>6. PICK prev : prev = Place(s, i) /\ prev = IF i = 0 THEN s[n] ELSE s[i]
  BY <1>1 DEF Place
<1>7. PICK to : to = After(s, i + m) /\ to = IF i + m = n THEN s[1] ELSE s[i + m + 1]
  BY <1>1 DEF After
<1>8. q > 0 => M.next = [L.next EXCEPT ![prev] = to] /\ M.ptr = IF i + m = n THEN prev ELSE L.ptr
  <2>1. q > 0 => m < Len(s)
    BY <1>1
  <2> QED BY <1>1, <1>6, <1>7, <2>1 DEF Unlinked
<1> HIDE DEF t
<1>9. CASE q = 0
  <2>1. \A k \in 1 .. Len(t) - 1 : FALSE
    BY <1>3, <1>9
  <2> QED BY <1>3, <1>9, <2>1 DEF IsRing, t
<1>10. CASE q > 0
  <2>1. n > 0 /\ n \in 1 .. n /\ prev \in Node
    BY <1>1, <1>2, <1>5, <1>6, <1>10
  <2>2. \A x \in Node : M.next[x] = IF x = prev THEN to ELSE L.next[x]
    BY <1>8, <1>10, <2>1
  <2>3. M.ptr = IF i + m = n THEN prev ELSE L.ptr
    BY <1>8, <1>10
  <2>4. ASSUME NEW k \in 1 .. q - 1 PROVE M.next[t[k]] = t[k + 1]
    <3>0. k \in 1 .. q /\ k + 1 \in 1 .. q
      BY <1>1
    <3>1. CASE k < i
      <4>1. k <= i /\ k + 1 <= i /\ k \in 1 .. n - 1 /\ i \in 1 .. n /\ k \in 1 .. n /\ k # i /\ i # 0
        BY <1>1, <1>5, <2>4, <3>1
      <4>2. t[k] = s[k] /\ t[k + 1] = s[k + 1]
        BY <1>4, <3>0, <4>1
      <4>3. prev = s[i]
        BY <1>6, <4>1
      <4>4. s[k] # prev /\ s[k] \in Node
        BY <1>2, <4>1, <4>3
      <4> QED BY <1>2, <2>2, <4>1, <4>2, <4>4
    <3>2. CASE k = i
      <4>1. k <= i /\ k + 1 > i /\ i # 0 /\ i + m # n /\ (k + 1) + m = i + m + 1
        BY <1>1, <2>4, <3>2
      <4>2. t[k] = prev /\ t[k + 1] = s[(k + 1) + m]
        BY <1>4, <1>6, <3>0, <3>2, <4>1
      <4> QED BY <1>7, <2>1, <2>2, <4>1, <4>2
    <3>3. CASE k > i
      <4>1. k + m \in 1 .. n - 1 /\ k + m \in 1 .. n /\ k + 1 > i /\ k + m # i /\ k + m # n
            /\ (k + 1) + m = (k + m) + 1
        BY <1>1, <2>4, <3>3
      <4>2. t[k] = s[k + m] /\ t[k + 1] = s[(k + 1) + m]
        BY <1>4, <3>0, <3>3, <4>1
      <4>3. PICK j \in 1 .. n : j = k + m
        BY <4>1
      <4>4. i # 0 => i \in 1 .. n
        BY <1>1, <1>5
      <4>5. s[j] # prev /\ s[j] \in Node
        BY <1>2, <1>6, <2>1, <4>1, <4>3, <4>4
      <4>6. L.next[s[j]] = s[j + 1]
        BY <1>2, <4>1, <4>3
      <4> QED BY <2>2, <4>1, <4>2, <4>3, <4>5, <4>6
    <3> QED BY <1>1, <2>4, <3>1, <3>2, <3>3
  <2>5. M.ptr = t[q] /\ M.next[M.ptr] = t[1]
    <3>1. CASE i + m = n
      <4>1. i = q /\ i # 0 /\ q <= i /\ 1 <= i /\ q \in 1 .. q /\ 1 \in 1 .. q
        BY <1>1, <1>10, <3>1
      <4>2. t[q] = s[i] /\ t[1] = s[1]
        BY <1>4, <4>1
      <4> QED BY <1>6, <1>7, <2>1, <2>2, <2>3, <3>1, <4>1, <4>2
    <3>2. CASE i + m # n
      <4>1. q > i /\ q + m = n /\ q \in 1 .. q /\ 1 \in 1 .. q
        BY <1>1, <1>5, <1>10, <3>2
      <4>2. t[q] = s[n] /\ M.ptr = s[n]
        BY <1>2, <1>4, <2>1, <2>3, <3>2, <4>1
      <4>3. CASE i = 0
        <5>1. 1 > i /\ 1 + m = i + m + 1
          BY <4>3
        <5>2. t[1] = s[1 + m]
          BY <1>4, <4>1, <5>1
        <5> QED BY <1>6, <1>7, <2>1, <2>2, <3>2, <4>2, <4>3, <5>1, <5>2
      <4>4. CASE i # 0
        <5>1. 1 <= i /\ i \in 1 .. n /\ i # n
          BY <1>1, <1>5, <4>4
        <5>2. t[1] = s[1]
          BY <1>4, <4>1, <5>1
        <5>3. s[n] # prev /\ s[n] \in Node
          BY <1>2, <1>6, <2>1, <4>4, <5>1
        <5> QED BY <1>2, <2>1, <2>2, <4>2, <5>2, <5>3
      <4> QED BY <4>3, <4>4
    <3> QED BY <3>1, <3>2
  <2>6. \A k \in 1 .. Len(t) - 1 : M.next[t[k]] = t[k + 1]
    BY <1>3, <2>4
  <2> QED BY <1>3, <2>5, <2>6 DEF IsRing, t
<1> QED BY <1>1, <1>9, <1>10

\* A value is linked after the i-th.
LEMMA InsertRing ==
  ASSUME NEW L, NEW s, IsRing(L, s), L.next \in [Node -> Node \cup {Null}],
         NEW i \in 0 .. Len(s), NEW v \in Node, \A k \in 1 .. Len(s) : s[k] # v
  PROVE  IsRing(arr_insert(L, v, i), Put1(s, i, v))
<1> DEFINE t == Put1(s, i, v)
<1>1. PICK n \in Nat : n = Len(s) /\ n = L.len
  BY RingFacts
<1>2. /\ \A k \in 1 .. n : s[k] \in Node /\ s[k] # v
      /\ \A j, k \in 1 .. n : s[j] = s[k] => j = k
      /\ \A k \in 1 .. n - 1 : L.next[s[k]] = s[k + 1]
      /\ n > 0 => L.ptr = s[n] /\ L.next[s[n]] = s[1]
  <2>1. /\ \A k \in 1 .. Len(s) - 1 : L.next[s[k]] = s[k + 1]
        /\ Len(s) > 0 => L.ptr = s[Len(s)] /\ L.next[L.ptr] = s[1]
    BY DEF IsRing
  <2>2. /\ \A k \in 1 .. Len(s) : s[k] \in Node
        /\ \A j, k \in 1 .. Len(s) : s[j] = s[k] => j = k
    BY RingFacts
  <2> QED BY <1>1, <2>1, <2>2
<1>21. s \in Seq(Node) /\ IsInjective(s)
  BY DEF IsRing
<1>22. /\ t \in Seq(Node) /\ Len(t) = Len(s) + 1 /\ IsInjective(t)
      /\ \A k \in 1 .. Len(s) + 1 :
           t[k] = IF k <= i THEN s[k] ELSE IF k = i + 1 THEN v ELSE s[k - 1]
  BY <1>21, Put1Facts
<1>3. t \in Seq(Node) /\ Len(t) = n + 1 /\ IsInjective(t)
  <2> HIDE DEF t
  <2> QED BY <1>1, <1>22
<1>4. /\ \A k \in 1 .. n + 1 : k <= i => t[k] = s[k]
      /\ t[i + 1] = v
      /\ \A k \in 1 .. n + 1 : k > i + 1 => t[k] = s[k - 1]
  <2>1. \A k \in 1 .. n + 1 : t[k] = IF k <= i THEN s[k] ELSE IF k = i + 1 THEN v ELSE s[k - 1]
    <3> HIDE DEF t
    <3> QED BY <1>1, <1>22
  <2>2. i + 1 \in 1 .. n + 1
    BY <1>1
  <2> HIDE DEF t
  <2> QED BY <1>1, <2>1, <2>2
<1>5. i \in Nat /\ i <= n
  BY <1>1
<1> HIDE DEF t
<1>6. CASE n = 0
  <2>1. PICK M : M = arr_insert(L, v, i)
    OBVIOUS
  <2>2. M = [next |-> [L.next EXCEPT ![v] = v], ptr |-> v, len |-> 1]
    BY <1>1, <1>6, <2>1 DEF arr_insert
  <2>3. M.next[v] = v /\ M.ptr = v /\ M.len = 1
    BY <2>2
  <2>4. t[1] = v /\ Len(t) = 1
    BY <1>3, <1>4, <1>5, <1>6
  <2>5. \A k \in 1 .. Len(t) - 1 : FALSE
    BY <2>4
  <2> QED BY <1>3, <2>1, <2>3, <2>4, <2>5 DEF IsRing, t
<1>7. CASE n > 0
  <2>1. PICK prev : prev = IF i = 0 THEN s[n] ELSE s[i]
    OBVIOUS
  <2>2. n \in 1 .. n /\ (i # 0 => i \in 1 .. n)
    BY <1>5, <1>7
  <2>3. prev \in Node /\ prev # v
    BY <1>2, <2>1, <2>2
  <2>4. Walk(L, L.ptr, i) = prev
    BY <1>1, <1>7, <2>1, RingPlace DEF Place
  <2>5. PICK to : to = L.next[prev]
    OBVIOUS
  <2>6. (i = n \/ i = 0 => to = s[1]) /\ (i # n => to = s[i + 1])
    <3>1. i # 0 /\ i # n => i \in 1 .. n - 1
      BY <1>5
    <3>2. i = 0 => i + 1 = 1
      OBVIOUS
    <3> QED BY <1>2, <1>7, <2>1, <2>5, <3>1, <3>2
  <2>7. PICK M : M = arr_insert(L, v, i)
    OBVIOUS
  <2>8. /\ M.next = [L.next EXCEPT ![prev] = v, ![v] = to]
        /\ M.ptr = IF i = n THEN v ELSE s[n]
        /\ M.len = n + 1
    <3>1. PICK len, ptr, nx : len \in Nat /\ len = L.len /\ ptr = L.ptr /\ nx = L.next
      BY <1>1
    <3>2. len # 0 /\ len = n /\ ptr = s[n]
      BY <1>1, <1>2, <1>7, <3>1
    <3>3. CASE i = n
      <4>1. M = Link(L, ptr, v, TRUE)
        BY <2>7, <3>1, <3>2, <3>3, Zenon DEF arr_insert
      <4>2. ptr = prev
        BY <1>7, <2>1, <3>2, <3>3
      <4>3. M = [next |-> [nx EXCEPT ![prev] = v, ![v] = to], ptr |-> v, len |-> len + 1]
        BY <2>5, <3>1, <4>1, <4>2, Zenon DEF Link
      <4> QED BY <3>1, <3>2, <3>3, <4>3
    <3>4. CASE i # n
      <4>1. M = Link(L, prev, v, FALSE)
        BY <2>4, <2>7, <3>1, <3>2, <3>4, Zenon DEF arr_insert
      <4>2. M = [next |-> [nx EXCEPT ![prev] = v, ![v] = to], ptr |-> ptr, len |-> len + 1]
        BY <2>5, <3>1, <4>1, Zenon DEF Link
      <4> QED BY <3>1, <3>2, <3>4, <4>2
    <3> QED BY <3>3, <3>4
  <2>9. \A x \in Node : M.next[x] = IF x = v THEN to ELSE IF x = prev THEN v ELSE L.next[x]
    BY <2>3, <2>8
  <2>10. ASSUME NEW k \in 1 .. n PROVE M.next[t[k]] = t[k + 1]
    <3>0. k \in 1 .. n + 1 /\ k + 1 \in 1 .. n + 1
      BY <2>10
    <3>1. CASE k < i
      <4>1. k <= i /\ k + 1 <= i /\ k \in 1 .. n - 1 /\ i \in 1 .. n /\ k # i /\ i # 0
        BY <1>5, <2>10, <3>1
      <4>2. t[k] = s[k] /\ t[k + 1] = s[k + 1]
        BY <1>4, <3>0, <4>1
      <4>3. s[k] # prev /\ s[k] \in Node /\ s[k] # v
        BY <1>2, <2>1, <2>10, <4>1
      <4> QED BY <1>2, <2>9, <4>1, <4>2, <4>3
    <3>2. CASE k = i
      <4>1. k <= i /\ i # 0
        BY <2>10, <3>2
      <4>2. t[k] = prev /\ t[k + 1] = v
        BY <1>4, <2>1, <3>0, <3>2, <4>1
      <4> QED BY <2>3, <2>9, <4>2
    <3>3. CASE k = i + 1
      <4>1. k + 1 > i + 1 /\ (k + 1) - 1 = i + 1 /\ i # n
        BY <1>5, <2>10, <3>3
      <4>2. t[k] = v /\ t[k + 1] = s[(k + 1) - 1]
        BY <1>4, <3>0, <3>3, <4>1
      <4> QED BY <2>6, <2>9, <4>1, <4>2
    <3>4. CASE k > i + 1
      <4>1. PICK j \in 1 .. n - 1 : j = k - 1
        BY <1>5, <2>10, <3>4
      <4>2. j # i /\ j # n /\ j \in 1 .. n /\ k + 1 > i + 1 /\ (k + 1) - 1 = j + 1
        BY <1>5, <2>10, <3>4, <4>1
      <4>3. t[k] = s[j] /\ t[k + 1] = s[j + 1]
        BY <1>4, <3>0, <3>4, <4>1, <4>2
      <4>4. s[j] # prev /\ s[j] \in Node /\ s[j] # v
        BY <1>2, <2>1, <2>2, <4>2
      <4> QED BY <1>2, <2>9, <4>1, <4>3, <4>4
    <3> QED BY <1>5, <2>10, <3>1, <3>2, <3>3, <3>4
  <2>11. M.ptr = t[n + 1] /\ M.next[M.ptr] = t[1]
    <3>0. n + 1 \in 1 .. n + 1 /\ 1 \in 1 .. n + 1
      BY <1>7
    <3>1. CASE i = n
      <4>1. 1 <= i
        BY <1>7, <3>1
      <4>2. t[n + 1] = v /\ t[1] = s[1] /\ to = s[1]
        BY <1>4, <2>6, <3>0, <3>1, <4>1
      <4>3. M.next[v] = to
        BY <2>9
      <4> QED BY <2>8, <3>1, <4>2, <4>3
    <3>2. CASE i # n
      <4>1. n + 1 > i + 1 /\ (n + 1) - 1 = n
        BY <1>5, <3>2
      <4>2. t[n + 1] = s[n] /\ M.ptr = s[n] /\ s[n] # v /\ s[n] \in Node
        BY <1>2, <1>4, <2>2, <2>8, <3>0, <3>2, <4>1
      <4>3. CASE i = 0
        <5>1. i + 1 = 1
          BY <4>3
        <5> QED BY <1>4, <2>1, <2>9, <4>2, <4>3, <5>1
      <4>4. CASE i # 0
        <5>1. 1 <= i
          BY <1>5, <4>4
        <5>2. t[1] = s[1]
          BY <1>4, <3>0, <5>1
        <5>3. s[n] # prev
          BY <1>2, <2>1, <2>2, <3>2, <4>4
        <5> QED BY <1>2, <1>7, <2>9, <4>2, <5>2, <5>3
      <4> QED BY <4>3, <4>4
    <3> QED BY <3>1, <3>2
  <2>12. \A k \in 1 .. Len(t) - 1 : M.next[t[k]] = t[k + 1]
    BY <1>3, <2>10
  <2> QED BY <1>3, <2>7, <2>8, <2>11, <2>12 DEF IsRing, t
<1> QED BY <1>6, <1>7

\* The value reached m steps after the successor of the i-th.
LEMMA RingReach ==
  ASSUME NEW L, NEW s, IsRing(L, s), NEW i \in Nat, NEW m \in Nat, i < Len(s), i + m <= Len(s), m > 0
  PROVE  /\ Walk(L, L.ptr, i) = Place(s, i)
         /\ L.next[Place(s, i)] = s[i + 1]
         /\ Walk(L, L.next[Place(s, i)], m) = After(s, i + m)
<1>1. PICK n \in Nat : n = Len(s) /\ n > 0
  BY RingFacts
<1>2. /\ \A k \in 1 .. n - 1 : L.next[s[k]] = s[k + 1]
      /\ L.next[s[n]] = s[1]
  BY <1>1 DEF IsRing
<1>3. Walk(L, L.ptr, i) = Place(s, i)
  <2>1. i \in 0 .. Len(s) /\ Len(s) > 0
    BY <1>1
  <2> QED BY <2>1, RingPlace
<1>4. L.next[Place(s, i)] = s[i + 1]
  <2>1. CASE i = 0
    BY <1>1, <1>2, <2>1 DEF Place
  <2>2. CASE i # 0
    <3>1. i \in 1 .. n - 1
      BY <1>1, <2>2
    <3> QED BY <1>2, <2>2, <3>1 DEF Place
  <2> QED BY <2>1, <2>2
<1>5. Walk(L, s[i + 1], m) = After(s, i + m)
  <2>1. PICK a \in 1 .. Len(s) : a = i + 1
    BY <1>1
  <2>2. CASE i + m # n
    <3>1. m \in 0 .. Len(s) - a /\ a + m = i + m + 1
      BY <1>1, <2>1, <2>2
    <3>2. Walk(L, s[a], m) = s[a + m]
      BY <3>1, RingWalk
    <3> QED BY <1>1, <2>1, <2>2, <3>1, <3>2 DEF After
  <2>3. CASE i + m = n
    <3>1. PICK j \in Nat : j = m - 1 /\ j \in 0 .. Len(s) - a /\ a + j = n /\ j + 1 = m
      BY <1>1, <2>1, <2>3
    <3>2. Walk(L, s[a], j) = s[a + j]
      BY <3>1, RingWalk
    <3>3. Walk(L, s[a], j + 1) = L.next[Walk(L, s[a], j)]
      BY <3>1, WalkNext
    <3> QED BY <1>1, <1>2, <2>1, <2>3, <3>1, <3>2, <3>3 DEF After
  <2> QED BY <2>2, <2>3
<1> QED BY <1>3, <1>4, <1>5

\* A ring of this document whose values have been counted.
Sound(L, s) ==
  /\ L \in RecordType
  /\ L.len < SizeMax
  /\ IsRing(L, s)

LEMMA SoundFacts ==
  ASSUME NEW L, NEW s, Sound(L, s)
  PROVE  /\ L.next \in [Node -> Node \cup {Null}]
         /\ Len(s) \in Nat /\ L.len = Len(s) /\ Len(s) < SizeMax /\ SizeMax \in Nat
         /\ IsRing(L, s) /\ s \in Seq(Node) /\ IsInjective(s)
BY RingFacts, NodeAssumption DEF Sound, RecordType, IsRing

LEMMA UnlinkUnlinks ==
  ASSUME NEW L, NEW s, Sound(L, s), NEW i \in Nat, NEW m \in Nat, m > 0, i + m <= Len(s),
         m < Len(s), NEW prev, prev = Walk(L, L.ptr, i), NEW tail \in BOOLEAN,
         tail <=> i + m = Len(s)
  PROVE  Unlinked(L, s, i, m, Unlink(L, prev, m, tail))
<1>1. i < Len(s) /\ Len(s) \in Nat /\ L.len = Len(s) /\ IsRing(L, s)
  BY SoundFacts
<1>2. prev = Place(s, i) /\ Walk(L, L.next[Place(s, i)], m) = After(s, i + m)
  BY <1>1, RingReach
<1>3. Sz(L.len - m) = Len(s) - m
  <2>1. SizeMax \in Nat /\ Len(s) - m \in 0 .. SizeMax
    BY <1>1, SoundFacts
  <2>2. \A x \in 0 .. SizeMax : x % (SizeMax + 1) = x
    BY <2>1
  <2> QED BY <1>1, <2>1, <2>2 DEF Sz
<1>4. PICK to : to = After(s, i + m)
  OBVIOUS
<1>5. Unlink(L, prev, m, tail) =
        [next |-> [L.next EXCEPT ![prev] = to], ptr |-> IF tail THEN prev ELSE L.ptr, len |-> Len(s) - m]
  BY <1>2, <1>3, <1>4, Zenon DEF Unlink
<1>6. PICK M : M = Unlink(L, prev, m, tail)
  OBVIOUS
<1>7. /\ M.next = [L.next EXCEPT ![prev] = to] /\ M.ptr = IF tail THEN prev ELSE L.ptr
      /\ M.len = Len(s) - m
  BY <1>5, <1>6
<1> QED BY <1>2, <1>4, <1>6, <1>7 DEF Unlinked

LEMMA ClearRing == ASSUME NEW L \in RecordType PROVE IsRing(arr_clear(L), << >>)
<1>1. << >> \in Seq(Node) /\ Len(<< >>) = 0 /\ DOMAIN << >> = {} /\ 1 .. 0 - 1 = {}
  OBVIOUS
<1>2. arr_clear(L).len = 0
  BY DEF arr_clear, RecordType
<1> QED BY <1>1, <1>2 DEF IsRing, IsInjective

LEMMA CutAllRing ==
  ASSUME NEW L \in RecordType, NEW s, IsRing(L, s), NEW i \in Nat, NEW m \in Nat, m = Len(s), m > 0, i + m <= Len(s)
  PROVE  IsRing(arr_clear(L), Cut(s, i, m))
<1>1. Len(s) \in Nat /\ L.next \in [Node -> Node \cup {Null}]
  BY RingFacts DEF RecordType
<1>2. arr_clear(L).len = 0
  BY DEF arr_clear, RecordType
<1>3. PICK M : M = arr_clear(L)
  OBVIOUS
<1>4. Unlinked(L, s, i, m, M)
  <2>1. M.len = Len(s) - m /\ ~(m < Len(s))
    BY <1>1, <1>2, <1>3
  <2> QED BY <2>1 DEF Unlinked
<1> QED BY <1>1, <1>3, <1>4, CutRing

LEMMA RemoveRing ==
  ASSUME NEW L, NEW s, Sound(L, s), NEW i \in Nat, i < Len(s)
  PROVE  IsRing(arr_remove(L, i), Cut(s, i, 1))
<1>1. /\ Len(s) \in Nat /\ L.len = Len(s) /\ IsRing(L, s) /\ L \in RecordType
      /\ L.next \in [Node -> Node \cup {Null}] /\ i + 1 <= Len(s)
  BY SoundFacts DEF Sound
<1>2. CASE Len(s) = 1
  <2>1. arr_remove(L, i) = arr_clear(L)
    BY <1>1, <1>2 DEF arr_remove
  <2>2. PICK m \in Nat : m = 1 /\ m > 0 /\ m = Len(s) /\ i + m <= Len(s)
    BY <1>1, <1>2
  <2>3. IsRing(arr_clear(L), Cut(s, i, m))
    BY <1>1, <2>2, CutAllRing
  <2> QED BY <2>1, <2>2, <2>3
<1>3. CASE Len(s) # 1
  <2>1. PICK m \in Nat : m = 1 /\ m > 0 /\ m < Len(s) /\ i + m <= Len(s)
    <3>1. 1 < Len(s) /\ i + 1 <= Len(s)
      <4>1. PICK n \in Nat : n = Len(s)
        BY <1>1
      <4> QED BY <1>3, <4>1
    <3> QED BY <3>1
  <2>2. PICK prev : prev = Walk(L, L.ptr, i)
    OBVIOUS
  <2>3. PICK tail \in BOOLEAN : tail = (L.next[prev] = L.ptr)
    OBVIOUS
  <2>4. tail <=> i + m = Len(s)
    <3>1. prev = Place(s, i) /\ L.next[Place(s, i)] = s[i + 1]
      BY <1>1, <2>1, <2>2, RingReach
    <3>2. L.ptr = s[Len(s)]
      BY <1>1, <2>1 DEF IsRing
    <3>3. i + 1 \in 1 .. Len(s) /\ Len(s) \in 1 .. Len(s)
      BY <1>1
    <3>4. s[i + 1] = s[Len(s)] => i + 1 = Len(s)
      BY <1>1, <3>3, RingFacts
    <3> QED BY <2>1, <2>3, <3>1, <3>2, <3>4
  <2>5. Unlinked(L, s, i, m, Unlink(L, prev, m, tail))
    BY <2>1, <2>2, <2>4, UnlinkUnlinks
  <2>6. PICK M : M = Unlink(L, prev, m, tail)
    OBVIOUS
  <2>7. IsRing(M, Cut(s, i, m))
    BY <1>1, <2>1, <2>5, <2>6, CutRing
  <2>8. arr_remove(L, i) = Unlink(L, prev, m, tail)
    BY <1>1, <1>3, <2>1, <2>2, <2>3 DEF arr_remove
  <2> QED BY <2>1, <2>6, <2>7, <2>8
<1> QED BY <1>2, <1>3

LEMMA RemoveFirstRing ==
  ASSUME NEW L, NEW s, Sound(L, s), Len(s) > 0
  PROVE  IsRing(arr_remove_first(L), Cut(s, 0, 1))
<1>1. /\ Len(s) \in Nat /\ L.len = Len(s) /\ IsRing(L, s) /\ L \in RecordType
      /\ L.next \in [Node -> Node \cup {Null}]
  BY SoundFacts DEF Sound
<1>2. CASE Len(s) = 1
  <2>1. arr_remove_first(L) = arr_clear(L)
    BY <1>1, <1>2 DEF arr_remove_first
  <2>2. PICK i \in Nat, m \in Nat : i = 0 /\ m = 1 /\ m > 0 /\ m = Len(s) /\ i + m <= Len(s)
    BY <1>1, <1>2
  <2>3. IsRing(arr_clear(L), Cut(s, i, m))
    BY <1>1, <2>2, CutAllRing
  <2> QED BY <2>1, <2>2, <2>3
<1>3. CASE Len(s) # 1
  <2>1. PICK i \in Nat, m \in Nat : i = 0 /\ m = 1 /\ m > 0 /\ m < Len(s) /\ i + m <= Len(s)
    BY <1>1, <1>3
  <2>2. PICK prev : prev = Walk(L, L.ptr, i) /\ prev = L.ptr
    BY <2>1, WalkNone
  <2>3. PICK tail \in BOOLEAN : tail = FALSE
    OBVIOUS
  <2>4. tail <=> i + m = Len(s)
    BY <2>1, <2>3
  <2>5. Unlinked(L, s, i, m, Unlink(L, prev, m, tail))
    BY <2>1, <2>2, <2>4, UnlinkUnlinks
  <2>6. PICK M : M = Unlink(L, prev, m, tail)
    OBVIOUS
  <2>7. IsRing(M, Cut(s, i, m))
    BY <1>1, <2>1, <2>5, <2>6, CutRing
  <2>8. arr_remove_first(L) = Unlink(L, prev, m, tail)
    BY <1>1, <1>3, <2>1, <2>2, <2>3 DEF arr_remove_first
  <2> QED BY <2>1, <2>6, <2>7, <2>8
<1> QED BY <1>2, <1>3

LEMMA RemoveLastRing ==
  ASSUME NEW L, NEW s, Sound(L, s), Len(s) > 0
  PROVE  IsRing(arr_remove_last(L), Cut(s, Len(s) - 1, 1))
<1>1. /\ Len(s) \in Nat /\ L.len = Len(s) /\ IsRing(L, s) /\ L \in RecordType
      /\ L.next \in [Node -> Node \cup {Null}]
  BY SoundFacts DEF Sound
<1>2. CASE Len(s) = 1
  <2>1. arr_remove_last(L) = arr_clear(L)
    BY <1>1, <1>2 DEF arr_remove_last
  <2>2. PICK i \in Nat, m \in Nat : i = Len(s) - 1 /\ m = 1 /\ m > 0 /\ m = Len(s) /\ i + m <= Len(s)
    BY <1>1, <1>2
  <2>3. IsRing(arr_clear(L), Cut(s, i, m))
    BY <1>1, <2>2, CutAllRing
  <2> QED BY <2>1, <2>2, <2>3
<1>3. CASE Len(s) # 1
  <2>1. PICK i \in Nat, m \in Nat :
          i = Len(s) - 1 /\ m = 1 /\ m > 0 /\ m < Len(s) /\ i + m <= Len(s) /\ i + m = Len(s) /\ i < Len(s)
    <3>1. PICK n \in Nat : n = Len(s)
      BY <1>1
    <3>2. n - 1 \in Nat /\ 1 < n
      BY <1>3, <3>1
    <3> QED BY <3>1, <3>2
  <2>2. PICK prev : prev = Walk(L, L.ptr, L.len - 1)
    OBVIOUS
  <2>3. prev = Place(s, i)
    BY <1>1, <2>1, <2>2, RingReach
  <2>4. PICK to : to = L.next[L.ptr]
    OBVIOUS
  <2>5. to = After(s, i + m)
    BY <1>1, <2>1, <2>4 DEF IsRing, After
  <2>6. arr_remove_last(L) = [next |-> [L.next EXCEPT ![prev] = to], ptr |-> prev, len |-> L.len - 1]
    BY <1>1, <1>3, <2>2, <2>4, Zenon DEF arr_remove_last
  <2>7. PICK M : M = arr_remove_last(L)
    OBVIOUS
  <2>8. M.next = [L.next EXCEPT ![prev] = to] /\ M.ptr = prev /\ M.len = L.len - 1
    BY <2>6, <2>7
  <2>9. Unlinked(L, s, i, m, M)
    BY <1>1, <2>1, <2>3, <2>5, <2>8 DEF Unlinked
  <2>10. IsRing(M, Cut(s, i, m))
    BY <1>1, <2>1, <2>9, CutRing
  <2> QED BY <2>1, <2>7, <2>10
<1> QED BY <1>2, <1>3

LEMMA RemoveRangeRing ==
  ASSUME NEW L, NEW s, Sound(L, s), NEW i \in Nat, NEW m \in Nat, i < Len(s), m > 0, m <= Len(s) - i
  PROVE  IsRing(arr_remove_range(L, i, m), Cut(s, i, m))
<1>1. /\ Len(s) \in Nat /\ L.len = Len(s) /\ IsRing(L, s) /\ L \in RecordType /\ i + m <= Len(s)
      /\ L.next \in [Node -> Node \cup {Null}] /\ Len(s) < SizeMax /\ SizeMax \in Nat
  BY SoundFacts DEF Sound
<1>2. Sz(i + m) = i + m
  <2>0. SizeMax \in Nat
    BY <1>1
  <2>1. \A x \in 0 .. SizeMax : x % (SizeMax + 1) = x
    BY <2>0
  <2>2. i + m \in 0 .. SizeMax
    BY <1>1
  <2> QED BY <2>1, <2>2 DEF Sz
<1>3. ~(Sz(i + m) > L.len \/ m = 0)
  BY <1>1, <1>2
<1>4. CASE m = Len(s)
  <2>1. arr_remove_range(L, i, m) = arr_clear(L)
    BY <1>1, <1>3, <1>4 DEF arr_remove_range
  <2>2. IsRing(arr_clear(L), Cut(s, i, m))
    BY <1>1, <1>4, CutAllRing
  <2> QED BY <2>1, <2>2
<1>5. CASE m # Len(s)
  <2>1. m < Len(s)
    BY <1>1, <1>5
  <2>2. PICK prev : prev = Walk(L, L.ptr, i)
    OBVIOUS
  <2>3. PICK tail \in BOOLEAN : tail = (i + m = L.len)
    OBVIOUS
  <2>4. tail <=> i + m = Len(s)
    BY <1>1, <2>3
  <2>5. Unlinked(L, s, i, m, Unlink(L, prev, m, tail))
    BY <1>1, <2>1, <2>2, <2>4, UnlinkUnlinks
  <2>6. PICK M : M = Unlink(L, prev, m, tail)
    OBVIOUS
  <2>7. IsRing(M, Cut(s, i, m))
    BY <1>1, <2>1, <2>5, <2>6, CutRing
  <2>8. arr_remove_range(L, i, m) = Unlink(L, prev, m, tail)
    BY <1>1, <1>2, <1>3, <1>5, <2>2, <2>3 DEF arr_remove_range
  <2> QED BY <2>6, <2>7, <2>8
<1> QED BY <1>4, <1>5

Turn(s, i) == [k \in 1 .. Len(s) |-> IF k + i <= Len(s) THEN s[k + i] ELSE s[k + i - Len(s)]]

LEMMA RotateRing ==
  ASSUME NEW L, NEW s, Sound(L, s), NEW i \in Nat, i < Len(s)
  PROVE  IsRing(arr_rotate(L, i), Turn(s, i))
<1>1. /\ Len(s) \in Nat /\ L.len = Len(s) /\ IsRing(L, s) /\ L \in RecordType
  BY SoundFacts DEF Sound
<1>2. PICK n \in Nat : n = Len(s) /\ n > 0
  BY <1>1
<1>3. /\ \A k \in 1 .. n : s[k] \in Node
      /\ \A j, k \in 1 .. n : s[j] = s[k] => j = k
      /\ \A k \in 1 .. n - 1 : L.next[s[k]] = s[k + 1]
      /\ L.next[s[n]] = s[1] /\ L.ptr = s[n]
  <2>1. /\ \A k \in 1 .. Len(s) - 1 : L.next[s[k]] = s[k + 1]
        /\ Len(s) > 0 => L.ptr = s[Len(s)] /\ L.next[L.ptr] = s[1]
    BY <1>1 DEF IsRing
  <2>2. /\ \A k \in 1 .. Len(s) : s[k] \in Node
        /\ \A j, k \in 1 .. Len(s) : s[j] = s[k] => j = k
    BY <1>1, RingFacts
  <2> QED BY <1>2, <2>1, <2>2
<1>4. PICK t : t = [k \in 1 .. n |-> IF k + i <= n THEN s[k + i] ELSE s[k + i - n]]
  OBVIOUS
<1>5. t = Turn(s, i)
  BY <1>2, <1>4 DEF Turn
<1>6. /\ \A k \in 1 .. n : k + i <= n => t[k] = s[k + i] /\ k + i \in 1 .. n
      /\ \A k \in 1 .. n : k + i > n => t[k] = s[k + i - n] /\ k + i - n \in 1 .. n
  <2>1. \A k \in 1 .. n : t[k] = IF k + i <= n THEN s[k + i] ELSE s[k + i - n]
    BY <1>4
  <2>2. \A k \in 1 .. n : (k + i <= n => k + i \in 1 .. n) /\ (k + i > n => k + i - n \in 1 .. n)
    BY <1>2
  <2> QED BY <1>2, <2>1, <2>2
<1>7. \A k \in 1 .. n : t[k] \in Node
  <2> TAKE k \in 1 .. n
  <2>1. CASE k + i <= n
    BY <1>3, <1>6, <2>1
  <2>2. CASE k + i > n
    BY <1>3, <1>6, <2>2
  <2> QED BY <1>2, <2>1, <2>2
<1>8. t \in Seq(Node) /\ Len(t) = n /\ DOMAIN t = 1 .. n
  BY <1>4, <1>7
<1>9. \A j, k \in 1 .. n : t[j] = t[k] => j = k
  <2> TAKE j, k \in 1 .. n
  <2>1. CASE j + i <= n /\ k + i <= n
    BY <1>2, <1>3, <1>6, <2>1
  <2>2. CASE j + i <= n /\ k + i > n
    <3>1. j + i # k + i - n
      BY <1>2
    <3> QED BY <1>3, <1>6, <2>2, <3>1
  <2>3. CASE j + i > n /\ k + i <= n
    <3>1. k + i # j + i - n
      BY <1>2
    <3> QED BY <1>3, <1>6, <2>3, <3>1
  <2>4. CASE j + i > n /\ k + i > n
    <3>1. j + i - n = k + i - n => j = k
      BY <1>2
    <3> QED BY <1>3, <1>6, <2>4, <3>1
  <2> QED BY <1>2, <2>1, <2>2, <2>3, <2>4
<1>10. PICK p : p = Walk(L, L.ptr, i)
  OBVIOUS
<1>11. p = t[n]
  <2>1. p = Place(s, i)
    BY <1>1, <1>2, <1>10, RingPlace
  <2>2. CASE i = 0
    <3>1. n \in 1 .. n /\ n + i <= n /\ n + i = n
      BY <1>2, <2>2
    <3>2. t[n] = s[n]
      BY <1>6, <3>1
    <3> QED BY <1>2, <2>1, <2>2, <3>2 DEF Place
  <2>3. CASE i # 0
    <3>1. n \in 1 .. n /\ n + i > n /\ n + i - n = i
      BY <1>2, <2>3
    <3>2. t[n] = s[i]
      BY <1>6, <3>1
    <3> QED BY <2>1, <2>3, <3>2 DEF Place
  <2> QED BY <2>2, <2>3
<1>12. \A k \in 1 .. n - 1 : L.next[t[k]] = t[k + 1]
  <2> TAKE k \in 1 .. n - 1
  <2>0. k \in 1 .. n /\ k + 1 \in 1 .. n
    BY <1>2
  <2>1. CASE k + 1 + i <= n
    <3>1. k + i <= n /\ k + i \in 1 .. n - 1 /\ (k + 1) + i = (k + i) + 1 /\ (k + 1) + i <= n
      BY <1>2, <2>1
    <3>2. t[k] = s[k + i] /\ t[k + 1] = s[(k + i) + 1]
      BY <1>6, <2>0, <3>1
    <3>3. L.next[s[k + i]] = s[(k + i) + 1]
      BY <1>3, <3>1
    <3> QED BY <3>2, <3>3
  <2>2. CASE k + i = n
    <3>1. k + i <= n /\ (k + 1) + i > n /\ (k + 1) + i - n = 1
      BY <1>2, <2>2
    <3>2. t[k] = s[n] /\ t[k + 1] = s[1]
      BY <1>6, <2>0, <2>2, <3>1
    <3> QED BY <1>3, <3>2
  <2>3. CASE k + i > n
    <3>1. PICK j \in 1 .. n - 1 : j = k + i - n /\ (k + 1) + i - n = j + 1 /\ (k + 1) + i > n
      <4>1. k + i - n \in 1 .. n - 1
        BY <1>2, <2>3
      <4> QED BY <1>2, <2>3, <4>1
    <3>2. t[k] = s[j] /\ t[k + 1] = s[j + 1]
      BY <1>6, <2>0, <2>3, <3>1
    <3> QED BY <1>3, <3>1, <3>2
  <2> QED BY <1>2, <2>1, <2>2, <2>3
<1>13. L.next[t[n]] = t[1]
  <2>0. n \in 1 .. n /\ 1 \in 1 .. n
    BY <1>2
  <2>1. CASE i = 0
    <3>1. n + i <= n /\ n + i = n /\ 1 + i <= n /\ 1 + i = 1
      BY <1>2, <2>1
    <3>2. t[n] = s[n] /\ t[1] = s[1]
      BY <1>6, <2>0, <3>1
    <3> QED BY <1>3, <3>2
  <2>2. CASE i # 0
    <3>1. n + i > n /\ n + i - n = i /\ 1 + i <= n /\ i \in 1 .. n - 1 /\ 1 + i = i + 1
      BY <1>2, <2>2
    <3>2. t[n] = s[i] /\ t[1] = s[i + 1]
      BY <1>6, <2>0, <3>1
    <3> QED BY <1>3, <3>1, <3>2
  <2> QED BY <2>1, <2>2
<1>14. PICK M : M = arr_rotate(L, i)
  OBVIOUS
<1>15. M.next = L.next /\ M.ptr = p /\ M.len = n
  <2>1. M = [L EXCEPT !.ptr = p]
    BY <1>1, <1>2, <1>10, <1>14 DEF arr_rotate
  <2> QED BY <1>1, <1>2, <2>1 DEF RecordType
<1>16. IsInjective(t)
  BY <1>8, <1>9 DEF IsInjective
<1>17. IsRing(M, t)
  BY <1>2, <1>8, <1>11, <1>12, <1>13, <1>15, <1>16 DEF IsRing
<1> QED BY <1>5, <1>14, <1>17

LEMMA ReplaceRing ==
  ASSUME NEW L, NEW s, Sound(L, s), NEW i \in Nat, i < Len(s), NEW v \in Node,
         \A k \in 1 .. Len(s) : s[k] # v
  PROVE  IsRing(arr_replace(L, i, v), [s EXCEPT ![i + 1] = v])
<1>1. /\ Len(s) \in Nat /\ L.len = Len(s) /\ IsRing(L, s) /\ L \in RecordType
      /\ L.next \in [Node -> Node \cup {Null}] /\ s \in Seq(Node)
  BY SoundFacts DEF Sound
<1>2. PICK n \in Nat, a \in Nat : n = Len(s) /\ n > 0 /\ a = i + 1 /\ a \in 1 .. n
  <2>1. i + 1 \in Nat /\ i + 1 \in 1 .. Len(s)
    BY <1>1
  <2> QED BY <1>1, <2>1
<1>3. /\ \A k \in 1 .. n : s[k] \in Node /\ s[k] # v
      /\ \A j, k \in 1 .. n : s[j] = s[k] => j = k
      /\ \A k \in 1 .. n - 1 : L.next[s[k]] = s[k + 1]
      /\ L.next[s[n]] = s[1] /\ L.ptr = s[n]
  <2>1. /\ \A k \in 1 .. Len(s) - 1 : L.next[s[k]] = s[k + 1]
        /\ Len(s) > 0 => L.ptr = s[Len(s)] /\ L.next[L.ptr] = s[1]
    BY <1>1 DEF IsRing
  <2>2. /\ \A k \in 1 .. Len(s) : s[k] \in Node
        /\ \A j, k \in 1 .. Len(s) : s[j] = s[k] => j = k
    BY <1>1, RingFacts
  <2> QED BY <1>2, <2>1, <2>2
<1>4. PICK t : t = [s EXCEPT ![a] = v]
  OBVIOUS
<1>5. \A k \in 1 .. n : t[k] = IF k = a THEN v ELSE s[k]
  BY <1>1, <1>2, <1>4
<1>6. t \in Seq(Node) /\ Len(t) = n /\ DOMAIN t = 1 .. n
  <2>1. DOMAIN s = 1 .. n
    BY <1>1, <1>2
  <2> QED BY <1>1, <1>2, <1>4, <2>1, ExceptSeq
<1>7. IsInjective(t)
  BY <1>3, <1>5, <1>6 DEF IsInjective
<1>8. PICK M : M = arr_replace(L, i, v)
  OBVIOUS
<1>9. CASE n = 1
  <2>1. M = [next |-> [L.next EXCEPT ![v] = v], ptr |-> v, len |-> 1]
    BY <1>1, <1>2, <1>8, <1>9 DEF arr_replace
  <2>2. M.next[v] = v /\ M.ptr = v /\ M.len = 1
    BY <1>1, <2>1
  <2>3. t[1] = v /\ \A k \in 1 .. n - 1 : FALSE
    BY <1>2, <1>5, <1>9
  <2>4. IsRing(M, t)
    BY <1>6, <1>7, <1>9, <2>2, <2>3 DEF IsRing
  <2> QED BY <1>2, <1>4, <1>8, <2>4
<1>10. CASE n # 1
  <2>1. PICK prev, old, to : /\ prev = Walk(L, L.ptr, i) /\ old = L.next[prev] /\ to = L.next[old]
    OBVIOUS
  <2>2. prev = (IF i = 0 THEN s[n] ELSE s[i]) /\ old = s[a]
    <3>1. PICK m \in Nat : m = 1 /\ m > 0 /\ i + m <= Len(s)
      BY <1>2
    <3>2. Walk(L, L.ptr, i) = Place(s, i) /\ L.next[Place(s, i)] = s[i + 1]
      BY <1>1, <3>1, RingReach
    <3> QED BY <1>2, <2>1, <3>2 DEF Place
  <2>3. to = IF a = n THEN s[1] ELSE s[a + 1]
    <3>1. a # n => a \in 1 .. n - 1
      BY <1>2
    <3> QED BY <1>3, <2>1, <2>2, <3>1
  <2>4. M = [next |-> [L.next EXCEPT ![prev] = v, ![v] = to],
             ptr |-> IF L.ptr = old THEN v ELSE L.ptr, len |-> L.len]
    <3>1. L.len # 1
      BY <1>1, <1>2, <1>10
    <3> QED BY <1>8, <2>1, <3>1, Zenon DEF arr_replace
  <2>5. prev \in Node /\ prev # v
    <3>1. (i # 0 => i \in 1 .. n) /\ n \in 1 .. n
      BY <1>2
    <3> QED BY <1>3, <2>2, <3>1
  <2>6. /\ \A x \in Node : M.next[x] = IF x = v THEN to ELSE IF x = prev THEN v ELSE L.next[x]
        /\ M.ptr = IF a = n THEN v ELSE s[n]
        /\ M.len = n
    <3>1. PICK nx : nx = [L.next EXCEPT ![prev] = v, ![v] = to]
      OBVIOUS
    <3>2. PICK e : e = IF L.ptr = old THEN v ELSE L.ptr
      OBVIOUS
    <3>3. M.next = nx /\ M.ptr = e /\ M.len = L.len
      BY <2>4, <3>1, <3>2
    <3>4. \A x \in Node : nx[x] = IF x = v THEN to ELSE IF x = prev THEN v ELSE L.next[x]
      BY <1>1, <2>5, <3>1
    <3>5. e = IF a = n THEN v ELSE s[n]
      <4>1. n \in 1 .. n
        BY <1>2
      <4>2. s[n] = s[a] <=> a = n
        BY <1>2, <1>3, <4>1
      <4> QED BY <1>3, <2>2, <3>2, <4>2
    <3> QED BY <1>1, <1>2, <3>3, <3>4, <3>5
  <2>7. ASSUME NEW k \in 1 .. n - 1 PROVE M.next[t[k]] = t[k + 1]
    <3>0. k \in 1 .. n /\ k + 1 \in 1 .. n /\ k # n /\ k # k + 1
      BY <1>2
    <3>1. CASE k = a
      <4>1. t[k] = v /\ t[k + 1] = s[k + 1] /\ a # n
        BY <1>5, <3>0, <3>1
      <4> QED BY <2>3, <2>6, <3>1, <4>1
    <3>2. CASE k + 1 = a
      <4>1. t[k] = s[k] /\ t[k + 1] = v /\ k = i /\ i # 0
        BY <1>2, <1>5, <3>0, <3>2
      <4>2. t[k] = prev
        BY <2>2, <4>1
      <4> QED BY <2>5, <2>6, <4>1, <4>2
    <3>3. CASE k # a /\ k + 1 # a
      <4>1. t[k] = s[k] /\ t[k + 1] = s[k + 1]
        BY <1>5, <3>0, <3>3
      <4>2. k # i /\ (i # 0 => i \in 1 .. n) /\ n \in 1 .. n
        BY <1>2, <3>3
      <4>3. s[k] # prev /\ s[k] \in Node /\ s[k] # v
        BY <1>3, <2>2, <3>0, <4>2
      <4> QED BY <1>3, <2>6, <4>1, <4>3
    <3> QED BY <3>1, <3>2, <3>3
  <2>8. M.ptr = t[n] /\ M.next[M.ptr] = t[1]
    <3>0. n \in 1 .. n /\ 1 \in 1 .. n
      BY <1>2
    <3>1. CASE a = n
      <4>1. t[n] = v /\ t[1] = s[1]
        BY <1>5, <1>10, <3>0, <3>1
      <4> QED BY <2>3, <2>6, <3>1, <4>1
    <3>2. CASE a # n
      <4>1. t[n] = s[n] /\ s[n] \in Node /\ s[n] # v
        BY <1>3, <1>5, <3>0, <3>2
      <4>2. CASE i = 0
        <5>1. t[1] = v /\ prev = s[n]
          BY <1>2, <1>5, <2>2, <3>0, <4>2
        <5> QED BY <2>6, <3>2, <4>1, <5>1
      <4>3. CASE i # 0
        <5>1. a # 1 /\ i \in 1 .. n /\ i # n
          BY <1>2, <4>3
        <5>2. t[1] = s[1] /\ s[n] # prev
          BY <1>3, <1>5, <2>2, <3>0, <4>3, <5>1
        <5> QED BY <1>3, <2>6, <3>2, <4>1, <5>2
      <4> QED BY <4>2, <4>3
    <3> QED BY <3>1, <3>2
  <2>9. IsRing(M, t)
    BY <1>6, <1>7, <2>6, <2>7, <2>8 DEF IsRing
  <2> QED BY <1>2, <1>4, <1>8, <2>9
<1> QED BY <1>9, <1>10

\* The successor of the value at an index.
LEMMA RingSuccessor ==
  ASSUME NEW L, NEW s, IsRing(L, s), NEW k \in 1 .. Len(s)
  PROVE  L.next[s[k]] = After(s, k)
<1>1. Len(s) \in Nat
  BY RingFacts
<1>2. /\ \A j \in 1 .. Len(s) - 1 : L.next[s[j]] = s[j + 1]
      /\ L.next[s[Len(s)]] = s[1]
  BY <1>1 DEF IsRing
<1>3. k # Len(s) => k \in 1 .. Len(s) - 1
  BY <1>1
<1> QED BY <1>2, <1>3 DEF After

\* An iterator that stands on the value at its index removes just that value.
LEMMA IterRemoveRing ==
  ASSUME NEW L, NEW s, IsRing(L, s), L.next \in [Node -> Node \cup {Null}],
         NEW it, NEW k \in 1 .. Len(s), it.idx = k, it.max = Len(s),
         it.cur = s[k], it.pre = Place(s, k - 1)
  PROVE  IsRing(iter_remove_list(L, it), Cut(s, k - 1, 1))
<1>1. PICK n \in Nat, i \in Nat, m \in Nat :
        n = Len(s) /\ i = k - 1 /\ m = 1 /\ m > 0 /\ i + m <= Len(s) /\ i + m = k
  <2>1. k - 1 \in Nat /\ Len(s) \in Nat /\ (k - 1) + 1 <= Len(s)
    BY RingFacts
  <2> QED BY <2>1
<1>2. PICK prev, to : prev = it.pre /\ to = L.next[it.cur]
  OBVIOUS
<1>3. prev = Place(s, i) /\ to = After(s, i + m)
  BY <1>1, <1>2, RingSuccessor
<1>4. PICK M : M = iter_remove_list(L, it)
  OBVIOUS
<1>5. M = [next |-> [L.next EXCEPT ![prev] = to], ptr |-> IF k = n THEN prev ELSE L.ptr, len |-> n - 1]
  BY <1>1, <1>2, <1>4, Zenon DEF iter_remove_list
<1>6. M.next = [L.next EXCEPT ![prev] = to] /\ M.ptr = (IF k = n THEN prev ELSE L.ptr) /\ M.len = n - 1
  BY <1>5
<1>7. Unlinked(L, s, i, m, M)
  BY <1>1, <1>3, <1>6 DEF Unlinked
<1>8. IsRing(M, Cut(s, i, m))
  BY <1>1, <1>7, CutRing
<1> QED BY <1>1, <1>4, <1>8

-----------------------------------------------------------------------------
(* Appending one by one to an empty ring gives the ring of the sequence *)

LEMMA InsertType ==
  ASSUME NEW L \in RecordType, NEW s, IsRing(L, s), NEW i \in 0 .. Len(s), NEW v \in Node
  PROVE  arr_insert(L, v, i) \in RecordType
<1>1. /\ Len(s) \in Nat /\ L.len = Len(s) /\ L.next \in [Node -> Node \cup {Null}]
      /\ L.ptr \in Node \cup {Null} /\ L.len \in Nat
  BY RingFacts DEF RecordType
<1>2. CASE Len(s) = 0
  <2>1. PICK nx : nx = [L.next EXCEPT ![v] = v]
    OBVIOUS
  <2>2. nx \in [Node -> Node \cup {Null}]
    BY <1>1, <2>1
  <2>3. arr_insert(L, v, i) = [next |-> nx, ptr |-> v, len |-> 1]
    BY <1>1, <1>2, <2>1 DEF arr_insert
  <2> QED BY <2>2, <2>3 DEF RecordType
<1>3. CASE Len(s) > 0
  <2>1. L.ptr \in Node
    <3>1. Len(s) \in 1 .. Len(s)
      BY <1>1, <1>3
    <3> QED BY <1>3, <3>1, RingFacts DEF IsRing
  <2>2. Walk(L, L.ptr, i) \in Node
    <3>1. i # 0 => i \in 1 .. Len(s)
      BY <1>1
    <3>2. Len(s) \in 1 .. Len(s)
      BY <1>1, <1>3
    <3> QED BY <1>3, <3>1, <3>2, RingPlace, RingFacts DEF Place
  <2>3. \/ arr_insert(L, v, i) = Link(L, L.ptr, v, TRUE)
        \/ arr_insert(L, v, i) = Link(L, Walk(L, L.ptr, i), v, FALSE)
    <3>1. L.len # 0
      BY <1>1, <1>3
    <3> QED BY <3>1, Zenon DEF arr_insert
  <2>4. PICK prev \in Node, last \in BOOLEAN : arr_insert(L, v, i) = Link(L, prev, v, last)
    BY <2>1, <2>2, <2>3
  <2>5. PICK to \in Node \cup {Null} : to = L.next[prev]
    BY <1>1
  <2>6. PICK nx : nx = [L.next EXCEPT ![prev] = v, ![v] = to]
    OBVIOUS
  <2>7. nx \in [Node -> Node \cup {Null}]
    BY <1>1, <2>6
  <2>8. PICK e \in Node \cup {Null} : e = IF last THEN v ELSE L.ptr
    BY <1>1
  <2>9. Link(L, prev, v, last) = [next |-> nx, ptr |-> e, len |-> L.len + 1]
    BY <2>5, <2>6, <2>8, Zenon DEF Link
  <2>10. L.len + 1 \in Nat
    BY <1>1
  <2> QED BY <2>4, <2>7, <2>9, <2>10 DEF RecordType
<1> QED BY <1>1, <1>2, <1>3

Prefix(s, j) == [k \in 1 .. j |-> s[k]]

LEMMA PrefixFacts ==
  ASSUME NEW s \in Seq(Node), IsInjective(s), NEW j \in Nat, j < Len(s)
  PROVE  /\ Prefix(s, j) \in Seq(Node) /\ Len(Prefix(s, j)) = j
         /\ s[j + 1] \in Node
         /\ \A k \in 1 .. j : Prefix(s, j)[k] # s[j + 1]
         /\ Put1(Prefix(s, j), j, s[j + 1]) = Prefix(s, j + 1)
<1>1. PICK n \in Nat : n = Len(s)
  OBVIOUS
<1>2. DOMAIN s = 1 .. n /\ \A k \in 1 .. n : s[k] \in Node
  BY <1>1
<1>3. \A a, b \in 1 .. n : s[a] = s[b] => a = b
  BY <1>2 DEF IsInjective
<1>4. PICK t : t = Prefix(s, j)
  OBVIOUS
<1>5. \A k \in 1 .. j : t[k] = s[k] /\ k \in 1 .. n /\ k # j + 1
  BY <1>1, <1>4 DEF Prefix
<1>6. t \in Seq(Node) /\ Len(t) = j
  <2>1. \A k \in 1 .. j : s[k] \in Node
    BY <1>1, <1>2
  <2>2. t = [k \in 1 .. j |-> s[k]]
    BY <1>4 DEF Prefix
  <2> QED BY <2>1, <2>2
<1>7. j + 1 \in 1 .. n
  BY <1>1
<1>8. Put1(t, j, s[j + 1]) = Prefix(s, j + 1)
  <2>1. \A k \in 1 .. j + 1 : (IF k <= j THEN t[k] ELSE IF k = j + 1 THEN s[j + 1] ELSE t[k - 1]) = s[k]
    BY <1>5
  <2> QED BY <1>6, <2>1 DEF Put1, Prefix
<1> QED BY <1>2, <1>3, <1>4, <1>5, <1>6, <1>7, <1>8

LEMMA AppendAllRing ==
  ASSUME NEW L \in RecordType, L.len = 0, NEW s \in Seq(Node), IsInjective(s)
  PROVE  IsRing(append_all(L, s), s)
<1>1. PICK n \in Nat : n = Len(s)
  OBVIOUS
<1>2. PICK l : Appended(L, s, n, l) /\ append_all(L, s) = l[n]
  BY <1>1, AppendRecursion
<1> DEFINE T == {j \in Nat : j <= n => l[j] \in RecordType /\ IsRing(l[j], Prefix(s, j))}
<1>3. 0 \in T
  <2>1. l[0] = L
    BY <1>2 DEF Appended
  <2>2. PICK e : e = << >> /\ e = Prefix(s, 0)
    BY DEF Prefix
  <2>3. e \in Seq(Node) /\ Len(e) = 0 /\ DOMAIN e = {} /\ 1 .. 0 - 1 = {}
    BY <2>2
  <2>4. IsRing(L, e)
    BY <2>3 DEF IsRing, IsInjective
  <2> QED BY <2>1, <2>2, <2>4
<1>4. \A j \in T \cap Nat : j + 1 \in T
  <2> SUFFICES ASSUME NEW j \in Nat, j \in T, j + 1 <= n
               PROVE  l[j + 1] \in RecordType /\ IsRing(l[j + 1], Prefix(s, j + 1))
    OBVIOUS
  <2>1. l[j] \in RecordType /\ IsRing(l[j], Prefix(s, j))
    OBVIOUS
  <2> HIDE DEF T
  <2>2. PICK K, t : K \in RecordType /\ K = l[j] /\ t = Prefix(s, j) /\ IsRing(K, t)
    BY <2>1
  <2>3. j < Len(s)
    BY <1>1
  <2>4. PICK v \in Node : /\ v = s[j + 1] /\ \A k \in 1 .. Len(t) : t[k] # v
                          /\ Len(t) = j /\ Put1(t, j, v) = Prefix(s, j + 1)
    BY <2>2, <2>3, PrefixFacts
  <2>5. j \in 0 .. Len(t) /\ K.len = j
    BY <2>2, <2>4, RingFacts
  <2>6. l[j + 1] = arr_insert(K, v, j)
    <3>1. j + 1 \in 1 .. n /\ (j + 1) - 1 = j
      BY <1>1
    <3> QED BY <1>2, <2>2, <2>4, <2>5, <3>1 DEF Appended, arr_append
  <2>7. K.next \in [Node -> Node \cup {Null}]
    BY <2>2 DEF RecordType
  <2>8. PICK M : M = arr_insert(K, v, j)
    OBVIOUS
  <2>9. IsRing(M, Put1(t, j, v)) /\ M \in RecordType
    BY <2>2, <2>4, <2>5, <2>7, <2>8, InsertRing, InsertType
  <2> QED BY <2>4, <2>6, <2>8, <2>9
<1>5. n \in T
  <2> HIDE DEF T
  <2> QED BY <1>3, <1>4, NaturalInduction
<1>6. Prefix(s, n) = s
  BY <1>1 DEF Prefix
<1> QED BY <1>2, <1>5, <1>6

-----------------------------------------------------------------------------
(* The same sequences in the words of the sequence operators *)

IsSlice(S, s, p, n, a) == a \in Seq(S) /\ Len(a) = n /\ \A k \in 1 .. n : a[k] = s[p + k]

LEMMA SliceIs ==
  ASSUME NEW S, NEW s \in Seq(S), NEW p \in Nat, NEW n \in Nat, p + n <= Len(s),
         NEW a, a = SubSeq(s, p + 1, p + n)
  PROVE  IsSlice(S, s, p, n, a)
<1>1. PICK x \in Int, y \in Int : x = p + 1 /\ y = p + n
  OBVIOUS
<1>2. \A k \in x .. y : s[k] \in S
  BY <1>1
<1>3. PICK c : c = SubSeq(s, x, y)
  OBVIOUS
<1>4. /\ c \in Seq(S)
      /\ Len(c) = IF x <= y THEN y - x + 1 ELSE 0
      /\ \A k \in 1 .. y - x + 1 : c[k] = s[x + k - 1]
  <2>1. /\ SubSeq(s, x, y) \in Seq(S)
        /\ Len(SubSeq(s, x, y)) = IF x <= y THEN y - x + 1 ELSE 0
        /\ \A k \in 1 .. y - x + 1 : SubSeq(s, x, y)[k] = s[x + k - 1]
    BY <1>2, SubSeqProperties
  <2> QED BY <1>3, <2>1
<1>5. y - x + 1 = n /\ (x <= y <=> n > 0) /\ \A k \in Int : x + k - 1 = p + k
  BY <1>1
<1>6. c \in Seq(S) /\ Len(c) = n
  BY <1>4, <1>5
<1>7. ASSUME NEW k \in 1 .. n PROVE c[k] = s[p + k]
  <2>1. k \in 1 .. y - x + 1 /\ x + k - 1 = p + k
    BY <1>5
  <2> QED BY <1>4, <2>1
<1>8. a = c
  BY <1>1, <1>3
<1> QED BY <1>6, <1>7, <1>8 DEF IsSlice

LEMMA Slice ==
  ASSUME NEW S, NEW s \in Seq(S), NEW p \in Nat, NEW n \in Nat, p + n <= Len(s),
         NEW a, a = SubSeq(s, p + 1, p + n)
  PROVE  a \in Seq(S) /\ Len(a) = n /\ \A k \in 1 .. n : a[k] = s[p + k]
<1>1. IsSlice(S, s, p, n, a)
  BY SliceIs
<1> QED BY <1>1 DEF IsSlice

Joined(S, a, b, c) ==
  /\ c \in Seq(S) /\ Len(c) = Len(a) + Len(b)
  /\ \A k \in 1 .. Len(a) : c[k] = a[k]
  /\ \A k \in 1 .. Len(b) : c[Len(a) + k] = b[k]

LEMMA Join ==
  ASSUME NEW S, NEW a \in Seq(S), NEW b \in Seq(S), NEW c, c = a \o b
  PROVE  Joined(S, a, b, c)
<1>1. PICK m \in Nat, n \in Nat : m = Len(a) /\ n = Len(b)
  OBVIOUS
<1>2. /\ c \in Seq(S) /\ Len(c) = m + n
      /\ \A k \in 1 .. m + n : c[k] = IF k <= m THEN a[k] ELSE b[k - m]
  BY <1>1, ConcatProperties
<1>3. \A k \in 1 .. m : k \in 1 .. m + n
  OBVIOUS
<1>4. \A k \in 1 .. n : m + k \in 1 .. m + n /\ ~(m + k <= m) /\ (m + k) - m = k
  OBVIOUS
<1>5. (\A k \in 1 .. m : c[k] = a[k]) /\ \A k \in 1 .. n : c[m + k] = b[k]
  BY <1>2, <1>3, <1>4
<1> QED BY <1>1, <1>2, <1>5 DEF Joined

LEMMA CutIs ==
  ASSUME NEW s \in Seq(Node), NEW i \in Nat, NEW m \in Nat, i + m <= Len(s)
  PROVE  Cut(s, i, m) = SubSeq(s, 1, i) \o SubSeq(s, i + m + 1, Len(s))
<1>1. PICK n \in Nat, j \in Nat, z \in Nat : n = Len(s) /\ j = n - (i + m) /\ n = (i + m) + j /\ z = 0
  <2>1. Len(s) \in Nat /\ Len(s) - (i + m) \in Nat
    OBVIOUS
  <2> QED BY <2>1
<1>2. PICK h \in Nat : h = i + m
  OBVIOUS
<1>3. PICK a : a = SubSeq(s, z + 1, z + i)
  OBVIOUS
<1>4. a \in Seq(Node) /\ Len(a) = i /\ \A k \in 1 .. i : a[k] = s[z + k]
  BY <1>1, <1>3, Slice
<1>5. PICK b : b = SubSeq(s, h + 1, h + j)
  OBVIOUS
<1>6. b \in Seq(Node) /\ Len(b) = j /\ \A k \in 1 .. j : b[k] = s[h + k]
  <2>1. h + j <= Len(s)
    BY <1>1, <1>2
  <2>2. IsSlice(Node, s, h, j, b)
    BY <1>5, <2>1, SliceIs
  <2> QED BY <2>2 DEF IsSlice
<1>7. PICK c : c = a \o b
  OBVIOUS
<1>8. /\ c \in Seq(Node) /\ Len(c) = i + j
      /\ \A k \in 1 .. i : c[k] = a[k]
      /\ \A k \in 1 .. j : c[i + k] = b[k]
  <2>1. a \in Seq(Node) /\ b \in Seq(Node) /\ Len(a) = i /\ Len(b) = j
    BY <1>4, <1>6
  <2>2. Joined(Node, a, b, c)
    BY <1>7, <2>1, Join
  <2> QED BY <2>1, <2>2 DEF Joined
<1>9. PICK t : t = Cut(s, i, m)
  OBVIOUS
<1>10. n - m = i + j
  BY <1>1
<1>11. \A k \in 1 .. i + j : c[k] = IF k <= i THEN s[k] ELSE s[k + m]
  <2> TAKE k \in 1 .. i + j
  <2>1. CASE k <= i
    <3>1. k \in 1 .. i /\ z + k = k
      BY <1>1, <2>1
    <3> QED BY <1>4, <1>8, <2>1, <3>1
  <2>2. CASE k > i
    <3>1. PICK x \in 1 .. j : k = i + x /\ h + x = k + m
      <4>1. k - i \in 1 .. j /\ k = i + (k - i) /\ h + (k - i) = k + m
        BY <1>2, <2>2
      <4> QED BY <4>1
    <3>2. c[k] = s[k + m]
      BY <1>6, <1>8, <3>1
    <3> QED BY <2>2, <3>2
  <2> QED BY <2>1, <2>2
<1>12. c = [k \in 1 .. i + j |-> IF k <= i THEN s[k] ELSE s[k + m]]
  <2>1. c = [k \in 1 .. i + j |-> c[k]]
    BY <1>8
  <2> QED BY <1>11, <2>1
<1>13. t = c
  BY <1>1, <1>9, <1>10, <1>12 DEF Cut
<1>14. z + 1 = 1 /\ z + i = i /\ h + 1 = i + m + 1 /\ h + j = Len(s)
  BY <1>1, <1>2
<1> QED BY <1>3, <1>5, <1>7, <1>9, <1>13, <1>14

LEMMA CutFirstIs ==
  ASSUME NEW s \in Seq(Node), Len(s) > 0
  PROVE  Cut(s, 0, 1) = Tail(s)
<1>1. PICK n \in Nat : n = Len(s) /\ n > 0
  OBVIOUS
<1>2. PICK t : t = Tail(s)
  OBVIOUS
<1>3. t \in Seq(Node) /\ Len(t) = n - 1 /\ \A k \in 1 .. n - 1 : t[k] = s[k + 1]
  <2>1. s # << >>
    BY <1>1
  <2> QED BY <1>1, <1>2, <2>1, HeadTailProperties
<1>4. t = [k \in 1 .. n - 1 |-> IF k <= 0 THEN s[k] ELSE s[k + 1]]
  <2>1. t = [k \in 1 .. n - 1 |-> t[k]]
    BY <1>3
  <2>2. \A k \in 1 .. n - 1 : t[k] = IF k <= 0 THEN s[k] ELSE s[k + 1]
    BY <1>3
  <2> QED BY <2>1, <2>2
<1> QED BY <1>1, <1>2, <1>4 DEF Cut

LEMMA CutLastIs ==
  ASSUME NEW s \in Seq(Node), Len(s) > 0
  PROVE  Cut(s, Len(s) - 1, 1) = Front(s)
<1>1. PICK n \in Nat, j \in Nat, z \in Nat : n = Len(s) /\ n > 0 /\ j = n - 1 /\ z = 0
  <2>1. Len(s) - 1 \in Nat /\ Len(s) \in Nat
    OBVIOUS
  <2> QED BY <2>1
<1>2. PICK t : t = SubSeq(s, z + 1, z + j)
  OBVIOUS
<1>3. t \in Seq(Node) /\ Len(t) = j /\ \A k \in 1 .. j : t[k] = s[z + k]
  <2>1. z + j <= Len(s)
    BY <1>1
  <2> QED BY <1>2, <2>1, Slice
<1>4. t = [k \in 1 .. j |-> IF k <= j THEN s[k] ELSE s[k + 1]]
  <2>1. t = [k \in 1 .. j |-> t[k]]
    BY <1>3
  <2>2. \A k \in 1 .. j : t[k] = IF k <= j THEN s[k] ELSE s[k + 1]
    BY <1>1, <1>3
  <2> QED BY <2>1, <2>2
<1>5. z + 1 = 1 /\ z + j = j
  BY <1>1
<1> QED BY <1>1, <1>2, <1>4, <1>5 DEF Cut, Front

LEMMA Put1EndsIs ==
  ASSUME NEW s \in Seq(Node), NEW v \in Node
  PROVE  /\ Put1(s, Len(s), v) = Append(s, v)
         /\ Put1(s, 0, v) = <<v>> \o s
<1>1. PICK n \in Nat, u \in Nat : n = Len(s) /\ u = 1
  OBVIOUS
<1>2. PICK a : a = Append(s, v)
  OBVIOUS
<1>3. a \in Seq(Node) /\ Len(a) = n + 1 /\ (\A k \in 1 .. n : a[k] = s[k]) /\ a[n + 1] = v
  BY <1>1, <1>2, AppendProperties
<1>4. a = [k \in 1 .. n + 1 |-> IF k <= n THEN s[k] ELSE IF k = n + 1 THEN v ELSE s[k - 1]]
  <2>1. a = [k \in 1 .. n + 1 |-> a[k]]
    BY <1>3
  <2>2. \A k \in 1 .. n + 1 : a[k] = IF k <= n THEN s[k] ELSE IF k = n + 1 THEN v ELSE s[k - 1]
    BY <1>3
  <2> QED BY <2>1, <2>2
<1>5. PICK b, e : b = <<v>> /\ e = b \o s
  OBVIOUS
<1>6. b \in Seq(Node) /\ Len(b) = u /\ b[1] = v
  BY <1>1, <1>5
<1>7. /\ e \in Seq(Node) /\ Len(e) = u + n
      /\ \A k \in 1 .. u : e[k] = b[k]
      /\ \A k \in 1 .. n : e[u + k] = s[k]
  <2>1. b \in Seq(Node) /\ s \in Seq(Node) /\ Len(b) = u /\ Len(s) = n
    BY <1>1, <1>6
  <2>2. Joined(Node, b, s, e)
    BY <1>5, <2>1, Join
  <2> QED BY <2>1, <2>2 DEF Joined
<1>8. \A k \in 1 .. n + 1 : e[k] = IF k <= 0 THEN s[k] ELSE IF k = 0 + 1 THEN v ELSE s[k - 1]
  <2> TAKE k \in 1 .. n + 1
  <2>1. CASE k = 1
    BY <1>1, <1>6, <1>7, <2>1
  <2>2. CASE k # 1
    <3>1. PICK x \in 1 .. n : k = u + x /\ x = k - 1
      <4>1. k - 1 \in 1 .. n /\ k = u + (k - 1)
        BY <1>1, <2>2
      <4> QED BY <4>1
    <3>2. ~(k <= 0) /\ k # 0 + 1
      BY <2>2
    <3> QED BY <1>7, <3>1, <3>2
  <2> QED BY <2>1, <2>2
<1>9. e = [k \in 1 .. n + 1 |-> IF k <= 0 THEN s[k] ELSE IF k = 0 + 1 THEN v ELSE s[k - 1]]
  <2>1. e = [k \in 1 .. n + 1 |-> e[k]]
    BY <1>1, <1>7
  <2> QED BY <1>8, <2>1
<1> QED BY <1>1, <1>2, <1>4, <1>5, <1>9 DEF Put1

LEMMA Put1Is ==
  ASSUME NEW s \in Seq(Node), NEW i \in 0 .. Len(s), NEW v \in Node
  PROVE  Put1(s, i, v) = InsertAt(s, i + 1, v)
<1>1. PICK n \in Nat, j \in Nat, z \in Nat, u \in Nat :
        n = Len(s) /\ j = n - i /\ n = i + j /\ z = 0 /\ u = 1 /\ i \in Nat
  <2>1. Len(s) \in Nat /\ i \in Nat /\ Len(s) - i \in Nat
    OBVIOUS
  <2> QED BY <2>1
<1>2. PICK a : a = SubSeq(s, z + 1, z + i)
  OBVIOUS
<1>3. a \in Seq(Node) /\ Len(a) = i /\ \A k \in 1 .. i : a[k] = s[z + k]
  <2>1. z + i <= Len(s)
    BY <1>1
  <2> QED BY <1>1, <1>2, <2>1, Slice
<1>4. PICK c : c = SubSeq(s, i + 1, i + j)
  OBVIOUS
<1>5. c \in Seq(Node) /\ Len(c) = j /\ \A k \in 1 .. j : c[k] = s[i + k]
  <2>1. i + j <= Len(s)
    BY <1>1
  <2> QED BY <1>1, <1>4, <2>1, Slice
<1>6. PICK b, d : b = <<v>> /\ d = a \o b
  OBVIOUS
<1>7. b \in Seq(Node) /\ Len(b) = u /\ b[1] = v
  BY <1>1, <1>6
<1>8. /\ d \in Seq(Node) /\ Len(d) = i + u
      /\ \A k \in 1 .. i : d[k] = a[k]
      /\ \A k \in 1 .. u : d[i + k] = b[k]
  <2>1. a \in Seq(Node) /\ b \in Seq(Node) /\ Len(a) = i /\ Len(b) = u
    BY <1>3, <1>7
  <2>2. Joined(Node, a, b, d)
    BY <1>6, <2>1, Join
  <2> QED BY <2>1, <2>2 DEF Joined
<1>9. PICK h, e : h \in Nat /\ e = d \o c /\ h = i + u
  <2>1. i + u \in Nat
    BY <1>1
  <2> QED BY <2>1
<1>10. /\ e \in Seq(Node) /\ Len(e) = h + j
       /\ \A k \in 1 .. h : e[k] = d[k]
       /\ \A k \in 1 .. j : e[h + k] = c[k]
  <2>1. c \in Seq(Node) /\ d \in Seq(Node) /\ Len(d) = h /\ Len(c) = j
    BY <1>5, <1>8, <1>9
  <2>2. Joined(Node, d, c, e)
    BY <1>9, <2>1, Join
  <2> QED BY <2>1, <2>2 DEF Joined
<1>11. \A k \in 1 .. n + 1 : e[k] = IF k <= i THEN s[k] ELSE IF k = i + 1 THEN v ELSE s[k - 1]
  <2> TAKE k \in 1 .. n + 1
  <2>1. CASE k <= i
    <3>1. k \in 1 .. i /\ k \in 1 .. h /\ z + k = k
      BY <1>1, <1>9, <2>1
    <3> QED BY <1>3, <1>8, <1>10, <2>1, <3>1
  <2>2. CASE k = i + 1
    <3>1. k \in 1 .. h /\ 1 \in 1 .. u /\ ~(k <= i)
      BY <1>1, <1>9, <2>2
    <3> QED BY <1>7, <1>8, <1>10, <2>2, <3>1
  <2>3. CASE k > i + 1
    <3>1. PICK x \in 1 .. j : k = h + x /\ i + x = k - 1
      <4>1. k - h \in 1 .. j /\ k = h + (k - h) /\ i + (k - h) = k - 1
        BY <1>1, <1>9, <2>3
      <4> QED BY <4>1
    <3>2. ~(k <= i) /\ k # i + 1
      BY <1>1, <2>3
    <3> QED BY <1>5, <1>10, <3>1, <3>2
  <2> QED BY <1>1, <2>1, <2>2, <2>3
<1>12. e = [k \in 1 .. n + 1 |-> IF k <= i THEN s[k] ELSE IF k = i + 1 THEN v ELSE s[k - 1]]
  <2>1. h + j = n + 1
    BY <1>1, <1>9
  <2>2. e = [k \in 1 .. n + 1 |-> e[k]]
    BY <1>10, <2>1
  <2> QED BY <1>11, <2>2
<1>13. InsertAt(s, i + 1, v) = (SubSeq(s, 1, (i + 1) - 1) \o <<v>>) \o SubSeq(s, i + 1, Len(s))
  BY DEF InsertAt
<1>14. (i + 1) - 1 = z + i /\ 1 = z + 1 /\ Len(s) = i + j
  BY <1>1
<1>15. e = InsertAt(s, i + 1, v)
  BY <1>2, <1>4, <1>6, <1>9, <1>13, <1>14
<1> QED BY <1>1, <1>12, <1>15 DEF Put1

LEMMA TurnIs ==
  ASSUME NEW s \in Seq(Node), NEW i \in Nat, i < Len(s)
  PROVE  Turn(s, i) = SubSeq(s, i + 1, Len(s)) \o SubSeq(s, 1, i)
<1>1. PICK n \in Nat, j \in Nat, z \in Nat : n = Len(s) /\ j = n - i /\ n = i + j /\ z = 0 /\ i < n
  <2>1. Len(s) \in Nat /\ Len(s) - i \in Nat
    OBVIOUS
  <2> QED BY <2>1
<1>2. PICK b : b = SubSeq(s, z + 1, z + i)
  OBVIOUS
<1>3. b \in Seq(Node) /\ Len(b) = i /\ \A k \in 1 .. i : b[k] = s[z + k]
  <2>1. z + i <= Len(s)
    BY <1>1
  <2> QED BY <1>1, <1>2, <2>1, Slice
<1>4. PICK a : a = SubSeq(s, i + 1, i + j)
  OBVIOUS
<1>5. a \in Seq(Node) /\ Len(a) = j /\ \A k \in 1 .. j : a[k] = s[i + k]
  <2>1. i + j <= Len(s)
    BY <1>1
  <2> QED BY <1>1, <1>4, <2>1, Slice
<1>6. PICK c : c = a \o b
  OBVIOUS
<1>7. /\ c \in Seq(Node) /\ Len(c) = j + i
      /\ \A k \in 1 .. j : c[k] = a[k]
      /\ \A k \in 1 .. i : c[j + k] = b[k]
  <2>1. a \in Seq(Node) /\ b \in Seq(Node) /\ Len(a) = j /\ Len(b) = i
    BY <1>3, <1>5
  <2>2. Joined(Node, a, b, c)
    BY <1>6, <2>1, Join
  <2> QED BY <2>1, <2>2 DEF Joined
<1>8. \A k \in 1 .. n : c[k] = IF k + i <= n THEN s[k + i] ELSE s[k + i - n]
  <2> TAKE k \in 1 .. n
  <2>1. CASE k + i <= n
    <3>1. k \in 1 .. j /\ i + k = k + i
      BY <1>1, <2>1
    <3> QED BY <1>5, <1>7, <2>1, <3>1
  <2>2. CASE k + i > n
    <3>1. PICK x \in 1 .. i : k = j + x /\ z + x = k + i - n
      <4>1. k - j \in 1 .. i /\ k = j + (k - j) /\ z + (k - j) = k + i - n
        BY <1>1, <2>2
      <4> QED BY <4>1
    <3>2. ~(k + i <= n)
      BY <2>2
    <3> QED BY <1>3, <1>7, <3>1, <3>2
  <2> QED BY <1>1, <2>1, <2>2
<1>9. c = [k \in 1 .. n |-> IF k + i <= n THEN s[k + i] ELSE s[k + i - n]]
  <2>1. j + i = n
    BY <1>1
  <2>2. c = [k \in 1 .. n |-> c[k]]
    BY <1>7, <2>1
  <2> QED BY <1>8, <2>2
<1>10. z + 1 = 1 /\ z + i = i /\ i + j = Len(s)
  BY <1>1
<1> QED BY <1>1, <1>2, <1>4, <1>6, <1>9, <1>10 DEF Turn

\* What is left of an iterator that was just opened, and what of one that goes on.
LEMMA WholeSlice ==
  ASSUME NEW s \in Seq(Node)
  PROVE  SubSeq(s, 0 + 1, Len(s)) = s
BY SubSeqProperties

LEMMA NotEmpty == ASSUME NEW a, NEW m \in Nat, Len(a) = m, m > 0 PROVE a # << >> /\ Len(a) > 0
OBVIOUS

LEMMA SliceHead ==
  ASSUME NEW s \in Seq(Node), NEW x \in Nat, x < Len(s), NEW a, a = SubSeq(s, x + 1, Len(s))
  PROVE  /\ a # << >> /\ a \in Seq(Node)
         /\ Head(a) = s[x + 1]
         /\ Tail(a) = SubSeq(s, (x + 1) + 1, Len(s))
<1>1. PICK n \in Nat, m \in Nat : n = Len(s) /\ m = n - x /\ n = x + m /\ m > 0
  <2>1. Len(s) \in Nat /\ Len(s) - x \in Nat /\ Len(s) = x + (Len(s) - x) /\ Len(s) - x > 0
    OBVIOUS
  <2> QED BY <2>1
<1>2. a \in Seq(Node) /\ Len(a) = m /\ \A k \in 1 .. m : a[k] = s[x + k]
  <2>1. x + m <= Len(s) /\ a = SubSeq(s, x + 1, x + m)
    BY <1>1
  <2> QED BY <2>1, Slice
<1>3. a # << >> /\ Len(a) > 0
  <2>1. Len(a) = m /\ m > 0
    BY <1>1, <1>2
  <2> QED BY <2>1, NotEmpty
<1>5. Head(a) = s[x + 1]
  BY <1>1, <1>2, <1>3
<1>6. PICK p, q : p \in Nat /\ p = x + 1 /\ q \in Nat /\ q = m - 1 /\ p + q = n /\ q + 1 = m
  BY <1>1
<1>7. PICK b : b = SubSeq(s, p + 1, p + q)
  OBVIOUS
<1>8. b \in Seq(Node) /\ Len(b) = q /\ \A k \in 1 .. q : b[k] = s[p + k]
  <2>1. p + q <= Len(s)
    BY <1>1, <1>6
  <2> QED BY <1>6, <1>7, <2>1, Slice
<1>9. PICK c : c = Tail(a) /\ c \in Seq(Node) /\ Len(c) = q /\ \A k \in 1 .. q : c[k] = a[k + 1]
  <2>1. Tail(a) \in Seq(Node) /\ Len(Tail(a)) = Len(a) - 1
        /\ \A k \in 1 .. Len(a) - 1 : Tail(a)[k] = a[k + 1]
    BY <1>2, <1>3, HeadTailProperties
  <2>2. Len(a) - 1 = q
    BY <1>2, <1>6
  <2> QED BY <2>1, <2>2
<1>10. \A k \in 1 .. q : c[k] = b[k]
  <2> TAKE k \in 1 .. q
  <2>1. k + 1 \in 1 .. m /\ x + (k + 1) = p + k
    BY <1>6
  <2> QED BY <1>2, <1>8, <1>9, <2>1
<1>11. c = b
  <2>1. c \in Seq(Node) /\ b \in Seq(Node) /\ Len(c) = Len(b) /\ \A k \in 1 .. Len(c) : c[k] = b[k]
    BY <1>8, <1>9, <1>10
  <2> QED BY <2>1, SeqEqual
<1> QED BY <1>1, <1>2, <1>3, <1>5, <1>6, <1>7, <1>9, <1>11

\* What an iterator has still to hand out is the same after it has removed.
LEMMA RestAfterCut ==
  ASSUME NEW s \in Seq(Node), IsInjective(s), NEW k \in 1 .. Len(s), NEW t, t = Cut(s, k - 1, 1)
  PROVE  /\ t = SubSeq(s, 1, k - 1) \o SubSeq(s, k + 1, Len(s))
         /\ Len(t) = Len(s) - 1
         /\ SubSeq(t, (k - 1) + 1, Len(t)) = SubSeq(s, k + 1, Len(s))
<1>1. PICK n \in Nat, j \in Nat, one \in Nat, m \in Nat :
        /\ n = Len(s) /\ j = k - 1 /\ one = 1 /\ j + one = k /\ j + one <= n /\ m = n - k
        /\ k \in Nat /\ k + m = n
  <2>1. Len(s) \in Nat /\ k - 1 \in Nat /\ Len(s) - k \in Nat /\ (k - 1) + 1 = k /\ k <= Len(s)
        /\ k + (Len(s) - k) = Len(s) /\ k \in Nat
    OBVIOUS
  <2> QED BY <2>1
<1>2. t = Cut(s, j, one) /\ j + one <= Len(s)
  BY <1>1
<1>3. t = SubSeq(s, 1, j) \o SubSeq(s, j + one + 1, Len(s))
  BY <1>2, CutIs
<1>4. /\ t \in Seq(Node) /\ Len(t) = n - one
      /\ \A h \in 1 .. n - one : t[h] = IF h <= j THEN s[h] ELSE s[h + one]
  <2>1. /\ Cut(s, j, one) \in Seq(Node) /\ Len(Cut(s, j, one)) = Len(s) - one
        /\ \A h \in 1 .. Len(s) - one : Cut(s, j, one)[h] = IF h <= j THEN s[h] ELSE s[h + one]
    <3>1. CutLeaves(s, j, one)
      BY <1>2, CutIsLeft
    <3> QED BY <3>1 DEF CutLeaves
  <2> QED BY <1>1, <1>2, <2>1
<1>5. j + m = Len(t) /\ Len(t) = n - 1
  <2>1. n - one = n - 1 /\ j + m = n - one
    BY <1>1
  <2>2. Len(t) = n - one
    BY <1>4
  <2> QED BY <2>1, <2>2
<1>6. PICK a : a = SubSeq(t, j + 1, j + m)
  OBVIOUS
<1>7. a \in Seq(Node) /\ Len(a) = m /\ \A h \in 1 .. m : a[h] = t[j + h]
  <2>1. j + m \in Nat /\ j + m <= j + m
    OBVIOUS
  <2>2. j + m <= Len(t) /\ t \in Seq(Node)
    BY <1>4, <1>5, <2>1
  <2>3. IsSlice(Node, t, j, m, a)
    BY <1>6, <2>2, SliceIs
  <2> QED BY <2>3 DEF IsSlice
<1>8. PICK b : b = SubSeq(s, k + 1, k + m)
  OBVIOUS
<1>9. b \in Seq(Node) /\ Len(b) = m /\ \A h \in 1 .. m : b[h] = s[k + h]
  <2>1. k + m <= Len(s)
    BY <1>1
  <2> QED BY <1>1, <1>8, <2>1, Slice
<1>10. \A h \in 1 .. m : a[h] = b[h]
  <2> TAKE h \in 1 .. m
  <2>1. j + h \in 1 .. n - one /\ ~(j + h <= j) /\ (j + h) + one = k + h
    BY <1>1
  <2>2. t[j + h] = s[k + h]
    BY <1>4, <2>1
  <2> QED BY <1>7, <1>9, <2>2
<1>11. a = b
  <2>1. Len(a) = Len(b) /\ \A h \in 1 .. Len(a) : a[h] = b[h]
    BY <1>7, <1>9, <1>10
  <2> QED BY <1>7, <1>9, <2>1, SeqEqual
<1>12. SubSeq(t, (k - 1) + 1, Len(t)) = a /\ SubSeq(s, k + 1, Len(s)) = b
  BY <1>1, <1>5, <1>6, <1>8
<1>13. t = SubSeq(s, 1, k - 1) \o SubSeq(s, k + 1, Len(s))
  BY <1>1, <1>3
<1> QED BY <1>1, <1>5, <1>11, <1>12, <1>13
=============================================================================
