-------------------------- MODULE JsonArray_proofs --------------------------
(* The array and its iterators, for any number of values and of iterators.  *)
EXTENDS JsonArray, MutRing_proofs

-----------------------------------------------------------------------------
(* Whatever is called: no pointer that may be followed is null *)

\* Lengths never exceed the number of values ever linked, and as long as the
\* value is an array the end of its ring is one of these.
ArrayLoose ==
  /\ Loose(arr, Linked)
  /\ isArr => EndIn(arr, Linked)
  /\ arr.len <= Cardinality(Linked)

IterOf(i) ==
  /\ iter[i] \in IterType
  /\ IterLoose(iter[i], Linked)
  /\ iter[i].max <= Cardinality(Linked)

Followable ==
  /\ ArrayLoose
  /\ isArr \in BOOLEAN
  /\ iter \in [Iter -> IterType \cup {Closed}]
  /\ \A i \in Iter : IsOpen(i) => IterOf(i)
  /\ current \in [Iter -> Node \cup {Null, Void}]
  /\ careful \in BOOLEAN

LEMMA LinkedIs == ASSUME NEW S, Loose(arr, S) PROVE Linked = S
BY DEF Loose, Linked, Fresh

LEMMA LinkedNextIs == ASSUME NEW S, Loose(arr', S) PROVE Linked' = S
BY DEF Loose, Linked, Fresh

LEMMA ArrayFacts ==
  ASSUME ArrayLoose
  PROVE  /\ Linked \in SUBSET Node
         /\ isArr => Usual(arr, Linked)
         /\ arr.len \in Nat /\ arr.len <= Cardinality(Node) /\ arr \in ListType
         /\ Cardinality(Linked) \in Nat /\ Cardinality(Linked) <= Cardinality(Node)
         /\ Cardinality(Node) \in Nat /\ Cardinality(Node) < SizeMax /\ SizeMax \in Nat
         /\ \A v \in Fresh : /\ v \in Node \ Linked
                             /\ Cardinality(Linked \cup {v}) = Cardinality(Linked) + 1
         /\ arr.len > 0 => Linked # {}
<1>1. Linked \in SUBSET Node
  BY DEF Linked
<1>2. /\ Cardinality(Linked) \in Nat /\ Cardinality(Linked) <= Cardinality(Node)
      /\ Cardinality(Node) \in Nat /\ Cardinality(Node) < SizeMax /\ SizeMax \in Nat
      /\ \A v \in Node \ Linked : Cardinality(Linked \cup {v}) = Cardinality(Linked) + 1
      /\ Cardinality(Linked) > 0 => Linked # {}
  BY <1>1, LinkedFacts
<1>3. arr \in RecordType /\ arr.len \in Nat /\ arr.len <= Cardinality(Linked)
  BY DEF ArrayLoose, Loose, RecordType
<1>4. arr.len \in Count
  BY <1>2, <1>3 DEF Count
<1>5. arr \in ListType
  BY <1>3, <1>4 DEF RecordType, ListType
<1>6. \A v \in Fresh : v \in Node \ Linked
  BY DEF Linked, Fresh
<1>7. isArr => Usual(arr, Linked)
  BY DEF ArrayLoose, Usual
<1> QED BY <1>1, <1>2, <1>3, <1>5, <1>6, <1>7

\* What an iterator keeps stays good when more values have been linked.
LEMMA IterLooseGrows ==
  ASSUME NEW it, NEW S, NEW T, S \subseteq T, IterLoose(it, S)
  PROVE  IterLoose(it, T)
BY DEF IterLoose

\* A call through a handle that leaves the array as L.
LEMMA PutFollowable ==
  ASSUME Followable, NEW L, Put(L), NEW T \in SUBSET Node, Linked \subseteq T,
         Loose(L, T), EndIn(L, T), L.len <= Cardinality(T)
  PROVE  Followable'
<1>1. arr' = L /\ isArr /\ isArr' = isArr /\ iter' = iter /\ careful' = careful
  BY DEF Put
<1>2. Linked' = T
  BY <1>1, LinkedNextIs
<1>3. ArrayLoose'
  BY <1>1, <1>2 DEF ArrayLoose
<1>4. Cardinality(Linked) <= Cardinality(T) /\ Cardinality(Linked) \in Nat /\ Cardinality(T) \in Nat
  <2>1. IsFiniteSet(T)
    BY LinkedFacts
  <2> QED BY <2>1, FS_Subset, FS_CardinalityType
<1>5. ASSUME NEW i \in Iter, IsOpen(i)' PROVE IterOf(i)'
  <2>1. IterOf(i)
    BY <1>1, <1>5 DEF Followable, IsOpen
  <2>2. IterLoose(iter[i], T)
    BY <2>1, IterLooseGrows DEF IterOf
  <2>3. iter[i].max \in Nat
    BY <2>1 DEF IterOf, IterLoose
  <2> QED BY <1>1, <1>2, <1>4, <2>1, <2>2, <2>3 DEF IterOf
<1>6. current' \in [Iter -> Node \cup {Null, Void}]
  BY DEF Followable, Put
<1> QED BY <1>1, <1>3, <1>5, <1>6 DEF Followable

LEMMA InsertFollowable ==
  ASSUME Followable, NEW v \in Fresh, NEW i \in 0 .. arr.len, Put(arr_insert(arr, v, i))
  PROVE  Followable'
<1>1. isArr /\ ArrayLoose
  BY DEF Put, Followable
<1>2. Usual(arr, Linked) /\ v \in Node /\ arr.len \in Nat /\ arr.len <= Cardinality(Linked)
      /\ Cardinality(Linked \cup {v}) = Cardinality(Linked) + 1 /\ Cardinality(Linked) \in Nat
      /\ (arr.len > 0 => Linked # {}) /\ Linked \in SUBSET Node
  BY <1>1, ArrayFacts DEF ArrayLoose
<1>3. PICK L : L = arr_insert(arr, v, i)
  OBVIOUS
<1>4. Loose(L, Linked \cup {v}) /\ EndIn(L, Linked \cup {v}) /\ L.len = arr.len + 1
  BY <1>2, <1>3, InsertLoose DEF Usual
<1>5. PICK T : T = Linked \cup {v} /\ T \in SUBSET Node /\ Linked \subseteq T /\ L.len <= Cardinality(T)
  BY <1>2, <1>4
<1> QED BY <1>3, <1>4, <1>5, PutFollowable

\* A call that links no new value.
LEMMA SameFollowable ==
  ASSUME Followable, NEW L, Put(L), Loose(L, Linked), EndIn(L, Linked), L.len <= arr.len
  PROVE  Followable'
<1>1. ArrayLoose
  BY DEF Followable
<1>2. L.len \in Nat
  BY DEF Loose, RecordType
<1>3. L.len <= Cardinality(Linked) /\ Linked \in SUBSET Node
  BY <1>1, <1>2, ArrayFacts DEF ArrayLoose
<1> QED BY <1>3, PutFollowable

LEMMA ElementsAreLinked ==
  ASSUME ArrayLoose, isArr
  PROVE  Elements(arr) \in Seq(Linked) /\ Len(Elements(arr)) = arr.len
<1>1. Loose(arr, Linked) /\ arr.len \in Nat /\ (arr.len > 0 => arr.ptr \in Linked)
  BY ArrayFacts, UsualFacts DEF ArrayLoose
<1>2. \A k \in 1 .. arr.len : Walk(arr, arr.ptr, k) \in Linked
  BY <1>1, LooseWalk
<1> QED BY <1>1, <1>2 DEF Elements

LEMMA SortedLoose ==
  ASSUME ArrayLoose, isArr, NEW p \in Orders(arr_size)
  PROVE  LET L == append_all(arr_clear(arr), [k \in 1 .. arr_size |-> Elements(arr)[p[k]]])
         IN  Loose(L, Linked) /\ EndIn(L, Linked) /\ L.len <= arr.len
<1>1. arr_size = arr.len /\ arr.len \in Nat
  BY ArrayFacts DEF arr_size
<1>2. PICK s : s = [k \in 1 .. arr_size |-> Elements(arr)[p[k]]]
  OBVIOUS
<1>3. p \in [1 .. arr.len -> 1 .. arr.len]
  BY <1>1 DEF Orders, Bijection, Injection, Surjection
<1>4. s \in Seq(Linked) /\ Len(s) = arr.len
  <2>1. \A k \in 1 .. arr.len : Elements(arr)[p[k]] \in Linked
    BY <1>1, <1>3, ElementsAreLinked
  <2> QED BY <1>1, <1>2, <2>1
<1>5. PICK K : K = arr_clear(arr)
  OBVIOUS
<1>6. Loose(K, Linked) /\ EndIn(K, Linked) /\ K.len = 0
  BY <1>5, ClearLoose DEF ArrayLoose
<1>7. PICK L : L = append_all(K, s)
  OBVIOUS
<1>8. Loose(L, Linked) /\ EndIn(L, Linked) /\ L.len = Len(s)
  BY <1>4, <1>6, <1>7, AppendAllLoose
<1> QED BY <1>1, <1>2, <1>4, <1>5, <1>7, <1>8

LEMMA HandleFollowable ==
  ASSUME Followable, HandleCall
  PROVE  Followable'
<1>0. /\ ArrayLoose /\ arr.len \in Nat /\ (isArr => Usual(arr, Linked))
      /\ (isArr => arr_size = arr.len) /\ (~isArr => arr_size = 0)
      /\ Size \subseteq Nat
  BY ArrayFacts DEF Followable, arr_size, Size
<1>1. ASSUME NEW v \in Fresh, NEW i \in 0 .. arr.len, Put(arr_insert(arr, v, i))
      PROVE  Followable'
  BY <1>1, InsertFollowable
<1>2. ASSUME NEW v \in Fresh, ArrayAppend(v) PROVE Followable'
  <2>1. PICK i \in 0 .. arr.len : i = arr.len
    BY <1>0
  <2> QED BY <1>1, <1>2, <2>1 DEF ArrayAppend, arr_append
<1>3. ASSUME NEW v \in Fresh, ArrayPrepend(v) PROVE Followable'
  <2>1. PICK i \in 0 .. arr.len : i = 0
    BY <1>0
  <2> QED BY <1>1, <1>3, <2>1 DEF ArrayPrepend, arr_prepend
<1>4. ASSUME NEW v \in Fresh, NEW i \in Size, ArrayInsert(i, v) PROVE Followable'
  <2>1. i \in 0 .. arr.len
    BY <1>0, <1>4 DEF ArrayInsert, Put
  <2> QED BY <1>1, <1>4, <2>1 DEF ArrayInsert
<1>5. ASSUME NEW v \in Fresh, NEW i \in Size, ArrayReplace(i, v) PROVE Followable'
  <2>1. i \in 0 .. arr.len - 1 /\ arr.len > 0 /\ isArr /\ Put(arr_replace(arr, i, v))
    BY <1>0, <1>5 DEF ArrayReplace, Put
  <2>2. /\ Linked # {} /\ v \in Node /\ arr.len <= Cardinality(Linked)
        /\ Cardinality(Linked) \in Nat /\ Linked \in SUBSET Node
        /\ Cardinality(Linked \cup {v}) = Cardinality(Linked) + 1
    BY <1>0, <2>1, ArrayFacts DEF ArrayLoose
  <2>3. PICK L : L = arr_replace(arr, i, v)
    OBVIOUS
  <2>4. Loose(L, Linked \cup {v}) /\ EndIn(L, Linked \cup {v}) /\ L.len = arr.len
    BY <1>0, <2>1, <2>2, <2>3, ReplaceLoose DEF Usual
  <2>5. PICK T : T = Linked \cup {v} /\ T \in SUBSET Node /\ Linked \subseteq T /\ L.len <= Cardinality(T)
    BY <1>0, <2>2, <2>4
  <2> QED BY <2>1, <2>3, <2>4, <2>5, PutFollowable
<1>6. ASSUME NEW L, Put(L), Loose(L, Linked), EndIn(L, Linked), L.len <= arr.len
      PROVE  Followable'
  BY <1>6, SameFollowable
<1>7. ASSUME NEW i \in Size, ArrayRemove(i) PROVE Followable'
  <2>1. i \in 0 .. arr.len - 1 /\ arr.len > 0 /\ isArr /\ Put(arr_remove(arr, i))
    BY <1>0, <1>7 DEF ArrayRemove, Put
  <2>2. PICK L : L = arr_remove(arr, i)
    OBVIOUS
  <2>3. Loose(L, Linked) /\ EndIn(L, Linked) /\ L.len = arr.len - 1
    BY <1>0, <2>1, <2>2, RemoveLoose
  <2> QED BY <1>0, <1>6, <2>1, <2>2, <2>3
<1>8. ASSUME ArrayRemoveFirst PROVE Followable'
  <2>1. arr.len > 0 /\ isArr /\ Put(arr_remove_first(arr))
    BY <1>0, <1>8 DEF ArrayRemoveFirst, Put
  <2>2. PICK L : L = arr_remove_first(arr)
    OBVIOUS
  <2>3. Loose(L, Linked) /\ EndIn(L, Linked) /\ L.len = arr.len - 1
    BY <1>0, <2>1, <2>2, RemoveFirstLoose
  <2> QED BY <1>0, <1>6, <2>1, <2>2, <2>3
<1>9. ASSUME ArrayRemoveLast PROVE Followable'
  <2>1. arr.len > 0 /\ isArr /\ Put(arr_remove_last(arr))
    BY <1>0, <1>9 DEF ArrayRemoveLast, Put
  <2>2. PICK L : L = arr_remove_last(arr)
    OBVIOUS
  <2>3. Loose(L, Linked) /\ EndIn(L, Linked) /\ L.len = arr.len - 1
    BY <1>0, <2>1, <2>2, RemoveLastLoose
  <2> QED BY <1>0, <1>6, <2>1, <2>2, <2>3
<1>10. ASSUME NEW start \in Size, NEW count \in Size, ArrayRemoveRange(start, count)
       PROVE  Followable'
  <2>1. /\ isArr /\ start \in Nat /\ count \in Nat
        /\ start < arr.len /\ count <= arr.len - start
        /\ Put(arr_remove_range(arr, start, count))
    BY <1>0, <1>10 DEF ArrayRemoveRange, Put
  <2>2. PICK L : L = arr_remove_range(arr, start, count)
    OBVIOUS
  <2>3. Loose(L, Linked) /\ EndIn(L, Linked) /\ L.len = arr.len - count
    BY <1>0, <2>1, <2>2, RemoveRangeLoose
  <2> QED BY <1>0, <1>6, <2>1, <2>2, <2>3
<1>11. ASSUME ArrayClear PROVE Followable'
  <2>1. isArr /\ Put(arr_clear(arr))
    BY <1>11 DEF ArrayClear, Put
  <2>2. PICK L : L = arr_clear(arr)
    OBVIOUS
  <2>3. Loose(L, Linked) /\ EndIn(L, Linked) /\ L.len = 0
    BY <1>0, <2>1, <2>2, ClearLoose DEF Usual
  <2> QED BY <1>0, <1>6, <2>1, <2>2, <2>3
<1>12. ASSUME NEW i \in Size, ArrayRotate(i) PROVE Followable'
  <2>1. i \in 0 .. arr.len - 1 /\ isArr /\ Put(arr_rotate(arr, i))
    BY <1>0, <1>12 DEF ArrayRotate, Put
  <2>2. PICK L : L = arr_rotate(arr, i)
    OBVIOUS
  <2>3. Loose(L, Linked) /\ EndIn(L, Linked) /\ L.len = arr.len
    BY <1>0, <2>1, <2>2, RotateLoose
  <2> QED BY <1>0, <1>6, <2>1, <2>2, <2>3
<1>13. ASSUME NEW p \in Orders(arr_size), ArraySort(p) PROVE Followable'
  <2>1. PICK L : L = append_all(arr_clear(arr), [k \in 1 .. arr_size |-> Elements(arr)[p[k]]])
    OBVIOUS
  <2>2. Put(L) /\ isArr
    BY <1>13, <2>1 DEF ArraySort, Put
  <2>3. Loose(L, Linked) /\ EndIn(L, Linked) /\ L.len <= arr.len
    BY <1>0, <2>1, <2>2, SortedLoose
  <2> QED BY <1>6, <2>2, <2>3
<1>14. ASSUME SetScalar PROVE Followable'
  <2>1. arr \in RecordType
    BY <1>0 DEF ArrayLoose, Loose
  <2>2. /\ arr' = [arr EXCEPT !.ptr = Null, !.len = 0] /\ isArr' = FALSE
        /\ iter' = iter /\ careful' = careful
    BY <1>14 DEF SetScalar
  <2>3. arr'.next = arr.next /\ arr'.len = 0 /\ arr' \in RecordType
    BY <2>1, <2>2 DEF RecordType
  <2>4. Loose(arr', Linked)
    BY <1>0, <2>3 DEF ArrayLoose, Loose
  <2>5. Linked' = Linked
    BY <2>4, LinkedNextIs
  <2>6. Cardinality(Linked) \in Nat
    BY <1>0, ArrayFacts
  <2>7. ArrayLoose'
    BY <2>2, <2>3, <2>4, <2>5, <2>6 DEF ArrayLoose
  <2>8. \A i \in Iter : IsOpen(i)' => IterOf(i)'
    BY <2>2, <2>5 DEF Followable, IterOf, IsOpen
  <2>9. current' \in [Iter -> Node \cup {Null, Void}]
    BY <1>14 DEF Followable, SetScalar
  <2> QED BY <2>2, <2>7, <2>8, <2>9 DEF Followable
<1> QED BY <1>2, <1>3, <1>4, <1>5, <1>7, <1>8, <1>9, <1>10, <1>11, <1>12, <1>13, <1>14
        DEF HandleCall

-----------------------------------------------------------------------------
(* Calls on an iterator *)

\* Only iterator i is set, to it; the array stays.
LEMMA TrackFollowable ==
  ASSUME Followable, NEW i \in Iter, NEW it, it \in IterType \cup {Closed},
         it # Closed => it \in IterType /\ IterLoose(it, Linked) /\ it.max <= Cardinality(Linked),
         iter' = [iter EXCEPT ![i] = it],
         UNCHANGED <<arr, isArr, careful>>,
         current' \in [Iter -> Node \cup {Null, Void}]
  PROVE  Followable'
<1>1. Linked' = Linked /\ ArrayLoose' = ArrayLoose
  BY DEF Linked, Fresh, ArrayLoose, EndIn, Loose
<1>2. iter' \in [Iter -> IterType \cup {Closed}]
  BY DEF Followable
<1>3. \A j \in Iter : iter'[j] = IF j = i THEN it ELSE iter[j]
  BY DEF Followable
<1>4. ASSUME NEW j \in Iter, IsOpen(j)' PROVE IterOf(j)'
  <2>1. CASE j = i
    BY <1>1, <1>3, <1>4, <2>1 DEF IterOf, IsOpen
  <2>2. CASE j # i
    BY <1>1, <1>3, <1>4, <2>2 DEF IterOf, IsOpen, Followable
  <2> QED BY <2>1, <2>2
<1> QED BY <1>1, <1>2, <1>4 DEF Followable

LEMMA OpenedIs ==
  Opened = [m_initialized |-> TRUE, idx |-> 0, max |-> arr.len,
            cur |-> IF arr.len = 0 THEN Null ELSE arr.ptr, pre |-> Null]
BY DEF Opened, iter_init

LEMMA OpenedLoose ==
  ASSUME ArrayLoose, isArr
  PROVE  Opened \in IterType /\ IterLoose(Opened, Linked) /\ Opened.max <= Cardinality(Linked)
<1>1. /\ arr.len \in Nat /\ arr.len \in Count /\ (arr.len > 0 => arr.ptr \in Linked)
      /\ Linked \in SUBSET Node /\ arr.len <= Cardinality(Linked) /\ 0 \in Count
  BY ArrayFacts, UsualFacts DEF Count, ArrayLoose
<1>2. PICK c \in Node \cup {Null} : /\ c = IF arr.len = 0 THEN Null ELSE arr.ptr
                                    /\ arr.len > 0 => c \in Linked
  BY <1>1
<1>3. Opened = [m_initialized |-> TRUE, idx |-> 0, max |-> arr.len, cur |-> c, pre |-> Null]
  BY <1>2, OpenedIs
<1>4. PICK it : it = Opened
  OBVIOUS
<1>5. it \in IterType /\ it.idx = 0 /\ it.max = arr.len /\ it.cur = c
  BY <1>1, <1>3, <1>4 DEF IterType
<1> QED BY <1>1, <1>2, <1>4, <1>5 DEF IterLoose

LEMMA IterNextIs ==
  ASSUME NEW it \in IterType, NEW L
  PROVE  iter_next(L, it) = [m_initialized |-> it.m_initialized, idx |-> it.idx + 1, max |-> it.max,
                             cur |-> L.next[it.cur], pre |-> it.cur]
<1>1. PICK b \in BOOLEAN, x \in Count, m \in Count, c \in Node \cup {Null}, p \in Node \cup {Null} :
        it = [m_initialized |-> b, idx |-> x, max |-> m, cur |-> c, pre |-> p]
  BY DEF IterType
<1>2. it.m_initialized = b /\ it.idx = x /\ it.max = m /\ it.cur = c /\ it.pre = p
  BY <1>1
<1>3. PICK y, d : y = it.idx + 1 /\ d = L.next[it.cur]
  OBVIOUS
<1>4. iter_next(L, it) = [it EXCEPT !.idx = y, !.pre = c, !.cur = d]
  BY <1>2, <1>3, Zenon DEF iter_next
<1>5. PICK one : one = [it EXCEPT !.idx = y]
  OBVIOUS
<1>6. one = [m_initialized |-> b, idx |-> y, max |-> m, cur |-> c, pre |-> p]
  BY <1>1, <1>5
<1>7. PICK two : two = [one EXCEPT !.pre = c]
  OBVIOUS
<1>8. two = [m_initialized |-> b, idx |-> y, max |-> m, cur |-> c, pre |-> c]
  BY <1>6, <1>7
<1>9. [two EXCEPT !.cur = d] = [m_initialized |-> b, idx |-> y, max |-> m, cur |-> d, pre |-> c]
  BY <1>8
<1>10. [it EXCEPT !.idx = y, !.pre = c, !.cur = d]
         = [[[it EXCEPT !.idx = y] EXCEPT !.pre = c] EXCEPT !.cur = d]
  OBVIOUS
<1>11. iter_next(L, it) = [m_initialized |-> b, idx |-> y, max |-> m, cur |-> d, pre |-> c]
  BY <1>4, <1>5, <1>7, <1>9, <1>10
<1> QED BY <1>2, <1>3, <1>11

LEMMA IterRemoveIs ==
  ASSUME NEW it \in IterType
  PROVE  iter_remove_iter(it) = [m_initialized |-> it.m_initialized, idx |-> it.idx - 1,
                                 max |-> it.max - 1, cur |-> it.pre, pre |-> it.pre]
<1>1. PICK b \in BOOLEAN, x \in Count, m \in Count, c \in Node \cup {Null}, p \in Node \cup {Null} :
        it = [m_initialized |-> b, idx |-> x, max |-> m, cur |-> c, pre |-> p]
  BY DEF IterType
<1>2. it.m_initialized = b /\ it.idx = x /\ it.max = m /\ it.cur = c /\ it.pre = p
  BY <1>1
<1>3. PICK y, n, d : y = it.idx - 1 /\ n = it.max - 1 /\ d = p
  OBVIOUS
<1>4. iter_remove_iter(it) = [it EXCEPT !.idx = y, !.max = n, !.cur = d]
  BY <1>2, <1>3, Zenon DEF iter_remove_iter
<1>5. PICK one : one = [it EXCEPT !.idx = y]
  OBVIOUS
<1>6. one = [m_initialized |-> b, idx |-> y, max |-> m, cur |-> c, pre |-> p]
  BY <1>1, <1>5
<1>7. PICK two : two = [one EXCEPT !.max = n]
  OBVIOUS
<1>8. two = [m_initialized |-> b, idx |-> y, max |-> n, cur |-> c, pre |-> p]
  BY <1>6, <1>7
<1>9. [two EXCEPT !.cur = d] = [m_initialized |-> b, idx |-> y, max |-> n, cur |-> d, pre |-> p]
  BY <1>8
<1>10. [it EXCEPT !.idx = y, !.max = n, !.cur = d]
         = [[[it EXCEPT !.idx = y] EXCEPT !.max = n] EXCEPT !.cur = d]
  OBVIOUS
<1>11. iter_remove_iter(it) = [m_initialized |-> b, idx |-> y, max |-> n, cur |-> d, pre |-> p]
  BY <1>4, <1>5, <1>7, <1>9, <1>10
<1> QED BY <1>2, <1>3, <1>11

LEMMA NextLoose ==
  ASSUME ArrayLoose, NEW it \in IterType, IterLoose(it, Linked), it.max <= Cardinality(Linked),
         iter_has_next(it)
  PROVE  LET n == iter_next(arr, it)
         IN  n \in IterType /\ IterLoose(n, Linked) /\ n.max <= Cardinality(Linked)
<1>1. /\ it.m_initialized \in BOOLEAN /\ it.idx \in Count /\ it.max \in Count
      /\ it.cur \in Node \cup {Null}
  BY DEF IterType
<1>2. /\ Linked \in SUBSET Node /\ Cardinality(Linked) \in Nat /\ Cardinality(Node) \in Nat
      /\ Cardinality(Linked) <= Cardinality(Node)
  BY ArrayFacts
<1>3. it.idx \in Nat /\ it.max \in Nat /\ it.idx < it.max /\ it.cur \in Linked
  BY <1>1, <1>2 DEF Count, IterLoose, iter_has_next
<1>4. PICK c \in Node : c = arr.next[it.cur] /\ c \in Linked
  BY <1>2, <1>3 DEF ArrayLoose, Loose
<1>5. PICK x \in Count : x = it.idx + 1
  BY <1>1, <1>2, <1>3 DEF Count
<1>6. PICK b \in BOOLEAN, m \in Count, p \in Node :
        b = it.m_initialized /\ m = it.max /\ p = it.cur
  BY <1>1, <1>2, <1>3
<1>7. PICK n : n = [m_initialized |-> b, idx |-> x, max |-> m, cur |-> c, pre |-> p]
  OBVIOUS
<1>8. n \in IterType /\ n.idx = x /\ n.max = m /\ n.cur = c /\ n.pre = p
  BY <1>7 DEF IterType
<1>9. n = iter_next(arr, it)
  BY <1>4, <1>5, <1>6, <1>7, IterNextIs
<1>10. IterLoose(n, Linked)
  BY <1>3, <1>4, <1>5, <1>6, <1>8 DEF IterLoose
<1> QED BY <1>6, <1>8, <1>9, <1>10

\* Removing leaves the iterator inside its own bounds.
LEMMA RemovedIterLoose ==
  ASSUME NEW S \in SUBSET Node, NEW it \in IterType, IterLoose(it, S), it.max <= Cardinality(S),
         iter_can_remove(it)
  PROVE  LET n == iter_remove_iter(it)
         IN  n \in IterType /\ IterLoose(n, S) /\ n.max <= Cardinality(S) /\ n.max = it.max - 1
<1>1. it.m_initialized \in BOOLEAN /\ it.idx \in Count /\ it.max \in Count
  BY DEF IterType
<1>2. Cardinality(S) \in Nat /\ Cardinality(Node) \in Nat
  BY LinkedFacts
<1>3. it.idx \in Nat /\ it.max \in Nat /\ 0 < it.idx /\ it.idx <= it.max
      /\ it.cur \in S /\ it.pre \in S
  BY <1>1, <1>2 DEF Count, IterLoose, iter_can_remove
<1>4. PICK x \in Count, m \in Count : x = it.idx - 1 /\ m = it.max - 1
  BY <1>1, <1>2, <1>3 DEF Count
<1>5. PICK b \in BOOLEAN, p \in Node : b = it.m_initialized /\ p = it.pre /\ p \in S
  BY <1>1, <1>3
<1>6. PICK n : n = [m_initialized |-> b, idx |-> x, max |-> m, cur |-> p, pre |-> p]
  OBVIOUS
<1>7. n \in IterType /\ n.idx = x /\ n.max = m /\ n.cur = p /\ n.pre = p
  BY <1>6 DEF IterType
<1>8. n = iter_remove_iter(it)
  BY <1>4, <1>5, <1>6, IterRemoveIs
<1>9. IterLoose(n, S) /\ n.max <= Cardinality(S)
  BY <1>2, <1>3, <1>4, <1>5, <1>7 DEF IterLoose
<1> QED BY <1>4, <1>7, <1>8, <1>9

LEMMA RemoveFollowable ==
  ASSUME Followable, NEW i \in Iter, ArrIterRemove(i)
  PROVE  Followable'
<1>1. ArrayLoose /\ IterOf(i)
  BY DEF Followable, ArrIterRemove
<1>2. PICK it \in IterType : /\ it = iter[i] /\ IterLoose(it, Linked) /\ iter_can_remove(it)
                             /\ it.max <= Cardinality(Linked)
  BY <1>1 DEF IterOf, ArrIterRemove
<1>3. Loose(arr, Linked) /\ arr' = iter_remove_list(arr, it) /\ isArr' = isArr
  BY <1>1, <1>2 DEF ArrayLoose, ArrIterRemove
<1>4. Loose(arr', Linked) /\ (EndIn(arr, Linked) => EndIn(arr', Linked)) /\ arr'.len = it.max - 1
  BY <1>2, <1>3, IterRemoveLoose
<1>5. Linked' = Linked
  BY <1>4, LinkedNextIs
<1>6. Linked \in SUBSET Node /\ Cardinality(Linked) \in Nat
  BY <1>1, ArrayFacts
<1>7. PICK n : n = iter_remove_iter(it)
  OBVIOUS
<1>8. n \in IterType /\ IterLoose(n, Linked) /\ n.max <= Cardinality(Linked) /\ n.max = it.max - 1
  BY <1>2, <1>6, <1>7, RemovedIterLoose
<1>9. ArrayLoose'
  BY <1>1, <1>3, <1>4, <1>5, <1>8 DEF ArrayLoose
<1>10. iter' = [iter EXCEPT ![i] = n]
  BY <1>2, <1>7 DEF ArrIterRemove
<1>11. \A j \in Iter : iter'[j] = IF j = i THEN n ELSE iter[j]
  BY <1>10 DEF Followable
<1>12. ASSUME NEW j \in Iter, IsOpen(j)' PROVE IterOf(j)'
  <2>1. CASE j = i
    BY <1>5, <1>8, <1>11, <2>1 DEF IterOf
  <2>2. CASE j # i
    BY <1>5, <1>11, <1>12, <2>2 DEF IterOf, IsOpen, Followable
  <2> QED BY <2>1, <2>2
<1>13. iter' \in [Iter -> IterType \cup {Closed}]
  BY <1>8, <1>10 DEF Followable
<1>14. current' \in [Iter -> Node \cup {Null, Void}]
  BY DEF Followable, ArrIterRemove
<1>15. isArr' \in BOOLEAN /\ careful' \in BOOLEAN
  <2>1. careful' = (careful /\ current[i] \in Node)
    BY DEF ArrIterRemove
  <2> QED BY <1>3, <2>1, Zenon DEF Followable
<1> QED BY <1>9, <1>12, <1>13, <1>14, <1>15 DEF Followable

LEMMA IterCallFollowable ==
  ASSUME Followable, NEW i \in Iter, IterCall(i)
  PROVE  Followable'
<1>0. ArrayLoose /\ SentinelAssumption /\ current \in [Iter -> Node \cup {Null, Void}]
  BY SentinelAssumption DEF Followable
<1>1. CASE ArrIterWith(i)
  <2>1. PICK it : it = Opened
    OBVIOUS
  <2>2. it \in IterType /\ IterLoose(it, Linked) /\ it.max <= Cardinality(Linked)
    BY <1>0, <1>1, <2>1, OpenedLoose DEF ArrIterWith
  <2> QED BY <1>0, <1>1, <2>1, <2>2, TrackFollowable DEF ArrIterWith
<1>2. CASE ArrIterReset(i)
  <2>1. CASE isArr
    <3>1. PICK it : it = Opened
      OBVIOUS
    <3>2. it \in IterType /\ IterLoose(it, Linked) /\ it.max <= Cardinality(Linked)
      BY <1>0, <2>1, <3>1, OpenedLoose
    <3>3. /\ iter' = [iter EXCEPT ![i] = it] /\ UNCHANGED <<arr, isArr, careful>>
          /\ current' \in [Iter -> Node \cup {Null, Void}]
      BY <1>0, <1>2, <2>1, <3>1 DEF ArrIterReset
    <3> QED BY <3>2, <3>3, TrackFollowable
  <2>2. CASE ~isArr
    <3>1. /\ iter' = [iter EXCEPT ![i].m_initialized = FALSE] /\ UNCHANGED <<arr, isArr, careful>>
          /\ current' \in [Iter -> Node \cup {Null, Void}]
      BY <1>0, <1>2, <2>2 DEF ArrIterReset
    <3>2. PICK was \in IterType :
            was = iter[i] /\ IterLoose(was, Linked) /\ was.max <= Cardinality(Linked)
      BY <1>2 DEF Followable, ArrIterReset, IterOf
    <3>3. PICK it : it = [was EXCEPT !.m_initialized = FALSE]
      OBVIOUS
    <3>4. it \in IterType /\ it.idx = was.idx /\ it.max = was.max /\ it.cur = was.cur /\ it.pre = was.pre
      BY <3>3 DEF IterType
    <3>5. IterLoose(it, Linked) /\ it.max <= Cardinality(Linked)
      BY <3>2, <3>4 DEF IterLoose
    <3>6. iter' = [iter EXCEPT ![i] = it]
      BY <3>1, <3>2, <3>3
    <3> QED BY <3>1, <3>4, <3>5, <3>6, TrackFollowable
  <2> QED BY <2>1, <2>2
<1>3. CASE ArrIterNext(i)
  <2>1. PICK was \in IterType :
          /\ was = iter[i] /\ IterLoose(was, Linked) /\ was.max <= Cardinality(Linked)
          /\ iter_has_next(was)
    BY <1>3 DEF Followable, ArrIterNext, IterOf
  <2>2. PICK it : it = iter_next(arr, was)
    OBVIOUS
  <2>3. it \in IterType /\ IterLoose(it, Linked) /\ it.max <= Cardinality(Linked)
    BY <1>0, <2>1, <2>2, NextLoose
  <2>4. iter' = [iter EXCEPT ![i] = it] /\ UNCHANGED <<arr, isArr, careful>>
    BY <1>3, <2>1, <2>2 DEF ArrIterNext
  <2>5. iter'[i] = it
    BY <2>4 DEF Followable
  <2>6. current' \in [Iter -> Node \cup {Null, Void}]
    <3>1. current' = [current EXCEPT ![i] = IF @ = Void THEN Void ELSE iter'[i].cur]
      BY <1>3 DEF ArrIterNext
    <3>2. iter'[i].cur \in Node \cup {Null}
      BY <2>3, <2>5 DEF IterType
    <3> QED BY <1>0, <3>1, <3>2
  <2> QED BY <2>3, <2>4, <2>6, TrackFollowable
<1>4. CASE ReleaseArrIter(i)
  BY <1>0, <1>4, TrackFollowable DEF ReleaseArrIter
<1> QED BY <1>1, <1>2, <1>3, <1>4 DEF IterCall

LEMMA InitFollowable == Init => Followable
<1> SUFFICES ASSUME Init PROVE Followable
  OBVIOUS
<1>1. arr = [next |-> [n \in Node |-> Null], ptr |-> Null, len |-> 0]
  BY DEF Init, EmptyList
<1>2. arr.next = [n \in Node |-> Null] /\ arr.ptr = Null /\ arr.len = 0 /\ arr \in RecordType
  BY <1>1 DEF RecordType
<1>3. Loose(arr, {})
  BY <1>2 DEF Loose
<1>4. Linked = {}
  BY <1>3, LinkedIs
<1>5. Cardinality({}) = 0
  BY FS_EmptySet
<1>6. ArrayLoose
  BY <1>2, <1>3, <1>4, <1>5 DEF ArrayLoose, EndIn
<1> QED BY <1>6 DEF Init, Followable, IsOpen

LEMMA StepFollowable == Followable /\ [Next]_vars => Followable'
<1> SUFFICES ASSUME Followable, [Next]_vars PROVE Followable'
  OBVIOUS
<1>1. CASE HandleCall
  BY <1>1, HandleFollowable
<1>2. ASSUME NEW i \in Iter, IterCall(i) PROVE Followable'
  BY <1>2, IterCallFollowable
<1>3. ASSUME NEW i \in Iter, ArrIterRemove(i) PROVE Followable'
  BY <1>3, RemoveFollowable
<1>4. CASE UNCHANGED vars
  BY <1>4 DEF vars, Followable, ArrayLoose, Linked, Fresh, IterOf, IsOpen, EndIn, Loose, IterLoose
<1> QED BY <1>1, <1>2, <1>3, <1>4 DEF Next

LEMMA FollowableAlways == Spec => []Followable
BY InitFollowable, StepFollowable, PTL DEF Spec

\* Every length, and every index of an iterator, stays within the number of
\* values of the document, however stale the iterators that calls are made on:
\* no size_t ever wraps around.
THEOREM LengthsAreBounded == Spec => []TypeOK
<1>1. Followable => TypeOK
  BY ArrayFacts DEF Followable, TypeOK
<1> QED BY <1>1, FollowableAlways, PTL

\* However many iterators there are and whatever is called in whatever order,
\* no call follows a null pointer.
THEOREM NullIsNeverFollowed == Spec => []NeverFollowsNull
<1>1. Followable => NeverFollowsNull
  <2> SUFFICES ASSUME Followable PROVE NeverFollowsNull
    OBVIOUS
  <2>1. \A n \in Linked : arr.next[n] \in Linked
    BY DEF Followable, ArrayLoose, Loose
  <2>2. isArr /\ arr.len > 0 => arr.ptr \in Linked
    BY ArrayFacts DEF Followable, ArrayLoose, EndIn
  <2>3. \A i \in Iter : IsOpen(i) => IterLoose(iter[i], Linked)
    BY DEF Followable, IterOf
  <2> QED BY <2>1, <2>2, <2>3 DEF NeverFollowsNull, IterLoose
<1> QED BY <1>1, FollowableAlways, PTL

-----------------------------------------------------------------------------
(* Careful callers: the ring is sound and the iterators are in step with it *)

\* An iterator in step with the ring L, that handed out c last.
Stands(L, it, c) ==
  /\ it.m_initialized
  /\ it.max = L.len
  /\ L.len > 0 => it.cur = Walk(L, L.ptr, it.idx)
  /\ c \in Node => /\ it.idx > 0
                   /\ it.cur = c
                   /\ it.pre = Walk(L, L.ptr, it.idx - 1)

InStep(i) == current[i] # Void => isArr /\ Stands(arr, iter[i], current[i])

WellKept ==
  careful =>
    /\ isArr => IsRing(arr, Elements(arr))
    /\ \A i \in Iter : IsOpen(i) => InStep(i)

LEMMA ElementsFacts ==
  ASSUME Followable, WellKept, careful, isArr
  PROVE  /\ Sound(arr, Elements(arr))
         /\ Elements(arr) \in Seq(Node) /\ Len(Elements(arr)) = arr.len
         /\ arr.len \in Nat /\ arr_size = arr.len
         /\ \A v \in Fresh : v \in Node /\ \A k \in 1 .. Len(Elements(arr)) : Elements(arr)[k] # v
<1>1. ArrayLoose /\ IsRing(arr, Elements(arr))
  BY DEF Followable, WellKept
<1>2. arr \in RecordType /\ arr.len < SizeMax /\ arr.len \in Nat
  BY <1>1, ArrayFacts DEF ArrayLoose, Loose
<1>3. Elements(arr) \in Seq(Linked) /\ Len(Elements(arr)) = arr.len
  BY <1>1, ElementsAreLinked
<1>4. \A k \in 1 .. Len(Elements(arr)) : Elements(arr)[k] \in Linked
  BY <1>3
<1>5. \A v \in Fresh : v \in Node \ Linked
  BY <1>1, ArrayFacts
<1>6. Elements(arr) \in Seq(Node)
  BY <1>1 DEF IsRing
<1> QED BY <1>1, <1>2, <1>3, <1>4, <1>5, <1>6 DEF Sound, arr_size

\* What each call through a handle makes of the elements.
LEMMA AppendEdit ==
  ASSUME Followable, WellKept, careful, NEW v \in Fresh, ArrayAppend(v)
  PROVE  IsRing(arr', Append(Elements(arr), v))
<1>1. isArr /\ arr' = arr_insert(arr, v, arr.len)
  BY DEF ArrayAppend, Put, arr_append
<1>2. PICK s, i : s = Elements(arr) /\ i = arr.len
  OBVIOUS
<1>3. /\ Sound(arr, s) /\ s \in Seq(Node) /\ i = Len(s) /\ i \in 0 .. Len(s)
      /\ v \in Node /\ \A k \in 1 .. Len(s) : s[k] # v
  BY <1>1, <1>2, ElementsFacts
<1>4. IsRing(arr, s) /\ arr.next \in [Node -> Node \cup {Null}]
  BY <1>3, SoundFacts
<1>5. IsRing(arr_insert(arr, v, i), Put1(s, i, v))
  BY <1>3, <1>4, InsertRing
<1>6. Put1(s, i, v) = Append(s, v)
  BY <1>3, Put1EndsIs
<1> QED BY <1>1, <1>2, <1>5, <1>6

LEMMA PrependEdit ==
  ASSUME Followable, WellKept, careful, NEW v \in Fresh, ArrayPrepend(v)
  PROVE  IsRing(arr', <<v>> \o Elements(arr))
<1>1. isArr /\ arr' = arr_insert(arr, v, 0)
  BY DEF ArrayPrepend, Put, arr_prepend
<1>2. PICK s, i : s = Elements(arr) /\ i = 0
  OBVIOUS
<1>3. /\ Sound(arr, s) /\ s \in Seq(Node) /\ i \in 0 .. Len(s)
      /\ v \in Node /\ \A k \in 1 .. Len(s) : s[k] # v
  BY <1>1, <1>2, ElementsFacts
<1>4. IsRing(arr, s) /\ arr.next \in [Node -> Node \cup {Null}]
  BY <1>3, SoundFacts
<1>5. IsRing(arr_insert(arr, v, i), Put1(s, i, v))
  BY <1>3, <1>4, InsertRing
<1>6. Put1(s, i, v) = <<v>> \o s
  BY <1>2, <1>3, Put1EndsIs
<1> QED BY <1>1, <1>2, <1>5, <1>6

LEMMA InsertEdit ==
  ASSUME Followable, WellKept, careful, NEW v \in Fresh, NEW i \in Size, ArrayInsert(i, v)
  PROVE  IsRing(arr', InsertAt(Elements(arr), i + 1, v))
<1>1. isArr /\ arr' = arr_insert(arr, v, i) /\ i <= arr_size
  BY DEF ArrayInsert, Put
<1>2. PICK s : s = Elements(arr)
  OBVIOUS
<1>3. /\ Sound(arr, s) /\ s \in Seq(Node) /\ Len(s) = arr_size
      /\ v \in Node /\ \A k \in 1 .. Len(s) : s[k] # v
  BY <1>1, <1>2, ElementsFacts
<1>4. i \in 0 .. Len(s)
  BY <1>1, <1>3 DEF Size
<1>5. IsRing(arr, s) /\ arr.next \in [Node -> Node \cup {Null}]
  BY <1>3, SoundFacts
<1>6. IsRing(arr_insert(arr, v, i), Put1(s, i, v))
  BY <1>3, <1>4, <1>5, InsertRing
<1>7. Put1(s, i, v) = InsertAt(s, i + 1, v)
  BY <1>3, <1>4, Put1Is
<1> QED BY <1>1, <1>2, <1>6, <1>7

LEMMA ReplaceEdit ==
  ASSUME Followable, WellKept, careful, NEW v \in Fresh, NEW i \in Size, ArrayReplace(i, v)
  PROVE  IsRing(arr', ReplaceAt(Elements(arr), i + 1, v))
<1>1. isArr /\ arr' = arr_replace(arr, i, v) /\ i < arr_size
  BY DEF ArrayReplace, Put
<1>2. PICK s : s = Elements(arr)
  OBVIOUS
<1>3. /\ Sound(arr, s) /\ s \in Seq(Node) /\ Len(s) = arr_size
      /\ v \in Node /\ \A k \in 1 .. Len(s) : s[k] # v
  BY <1>1, <1>2, ElementsFacts
<1>4. i \in Nat /\ i < Len(s)
  BY <1>1, <1>3 DEF Size
<1>5. IsRing(arr_replace(arr, i, v), [s EXCEPT ![i + 1] = v])
  BY <1>3, <1>4, ReplaceRing
<1> QED BY <1>1, <1>2, <1>5 DEF ReplaceAt

LEMMA RemoveEdit ==
  ASSUME Followable, WellKept, careful, NEW i \in Size, ArrayRemove(i)
  PROVE  IsRing(arr', RemoveAt(Elements(arr), i + 1))
<1>1. isArr /\ arr' = arr_remove(arr, i) /\ i < arr_size
  BY DEF ArrayRemove, Put
<1>2. PICK s : s = Elements(arr)
  OBVIOUS
<1>3. Sound(arr, s) /\ s \in Seq(Node) /\ Len(s) = arr_size
  BY <1>1, <1>2, ElementsFacts
<1>4. i \in Nat /\ i < Len(s)
  BY <1>1, <1>3 DEF Size
<1>5. IsRing(arr_remove(arr, i), Cut(s, i, 1))
  BY <1>3, <1>4, RemoveRing
<1>6. PICK m \in Nat : m = 1 /\ i + m <= Len(s)
  BY <1>3, <1>4
<1>7. Cut(s, i, m) = SubSeq(s, 1, i) \o SubSeq(s, i + m + 1, Len(s))
  BY <1>3, <1>4, <1>6, CutIs
<1>8. (i + 1) - 1 = i /\ (i + 1) + 1 = i + m + 1
  BY <1>4, <1>6
<1>9. RemoveAt(s, i + 1) = SubSeq(s, 1, (i + 1) - 1) \o SubSeq(s, (i + 1) + 1, Len(s))
  BY DEF RemoveAt
<1> QED BY <1>1, <1>2, <1>5, <1>6, <1>7, <1>8, <1>9

LEMMA RemoveFirstEdit ==
  ASSUME Followable, WellKept, careful, ArrayRemoveFirst
  PROVE  IsRing(arr', Tail(Elements(arr)))
<1>1. isArr /\ arr' = arr_remove_first(arr) /\ arr_size # 0
  BY DEF ArrayRemoveFirst, Put
<1>2. PICK s : s = Elements(arr)
  OBVIOUS
<1>3. Sound(arr, s) /\ s \in Seq(Node) /\ Len(s) > 0
  BY <1>1, <1>2, ElementsFacts
<1>4. IsRing(arr_remove_first(arr), Cut(s, 0, 1)) /\ Cut(s, 0, 1) = Tail(s)
  BY <1>3, RemoveFirstRing, CutFirstIs
<1> QED BY <1>1, <1>2, <1>4

LEMMA RemoveLastEdit ==
  ASSUME Followable, WellKept, careful, ArrayRemoveLast
  PROVE  IsRing(arr', Front(Elements(arr)))
<1>1. isArr /\ arr' = arr_remove_last(arr) /\ arr_size # 0
  BY DEF ArrayRemoveLast, Put
<1>2. PICK s : s = Elements(arr)
  OBVIOUS
<1>3. Sound(arr, s) /\ s \in Seq(Node) /\ Len(s) > 0
  BY <1>1, <1>2, ElementsFacts
<1>4. IsRing(arr_remove_last(arr), Cut(s, Len(s) - 1, 1)) /\ Cut(s, Len(s) - 1, 1) = Front(s)
  BY <1>3, RemoveLastRing, CutLastIs
<1> QED BY <1>1, <1>2, <1>4

LEMMA RemoveRangeEdit ==
  ASSUME Followable, WellKept, careful, NEW i \in Size, NEW n \in Size, ArrayRemoveRange(i, n)
  PROVE  IsRing(arr', SubSeq(Elements(arr), 1, i) \o SubSeq(Elements(arr), i + n + 1, Len(Elements(arr))))
<1>1. isArr /\ arr' = arr_remove_range(arr, i, n) /\ i < arr_size /\ n # 0 /\ n <= arr_size - i
  BY DEF ArrayRemoveRange, Put
<1>2. PICK s : s = Elements(arr)
  OBVIOUS
<1>3. Sound(arr, s) /\ s \in Seq(Node) /\ Len(s) = arr_size
  BY <1>1, <1>2, ElementsFacts
<1>4. i \in Nat /\ n \in Nat /\ i < Len(s) /\ n > 0 /\ n <= Len(s) - i /\ i + n <= Len(s)
  BY <1>1, <1>3 DEF Size
<1>5. IsRing(arr_remove_range(arr, i, n), Cut(s, i, n))
  BY <1>3, <1>4, RemoveRangeRing
<1>6. Cut(s, i, n) = SubSeq(s, 1, i) \o SubSeq(s, i + n + 1, Len(s))
  BY <1>3, <1>4, CutIs
<1> QED BY <1>1, <1>2, <1>5, <1>6

LEMMA ClearEdit ==
  ASSUME Followable, ArrayClear
  PROVE  IsRing(arr', << >>)
<1>1. arr' = arr_clear(arr) /\ arr \in RecordType
  BY DEF ArrayClear, Put, Followable, ArrayLoose, Loose
<1> QED BY <1>1, ClearRing

LEMMA RotateEdit ==
  ASSUME Followable, WellKept, careful, NEW i \in Size, ArrayRotate(i)
  PROVE  IsRing(arr', SubSeq(Elements(arr), i + 1, Len(Elements(arr))) \o SubSeq(Elements(arr), 1, i))
<1>1. isArr /\ arr' = arr_rotate(arr, i) /\ i < arr_size
  BY DEF ArrayRotate, Put
<1>2. PICK s : s = Elements(arr)
  OBVIOUS
<1>3. Sound(arr, s) /\ s \in Seq(Node) /\ Len(s) = arr_size
  BY <1>1, <1>2, ElementsFacts
<1>4. i \in Nat /\ i < Len(s)
  BY <1>1, <1>3 DEF Size
<1>5. IsRing(arr_rotate(arr, i), Turn(s, i))
  BY <1>3, <1>4, RotateRing
<1>6. Turn(s, i) = SubSeq(s, i + 1, Len(s)) \o SubSeq(s, 1, i)
  BY <1>3, <1>4, TurnIs
<1> QED BY <1>1, <1>2, <1>5, <1>6

LEMMA SortEdit ==
  ASSUME Followable, WellKept, careful, NEW p \in Orders(arr_size), ArraySort(p)
  PROVE  \E s : /\ IsRing(arr', s)
                /\ Len(s) = Len(Elements(arr))
                /\ ToSet(s) = ToSet(Elements(arr))
<1>1. isArr /\ arr' = append_all(arr_clear(arr), [k \in 1 .. arr_size |-> Elements(arr)[p[k]]])
  BY DEF ArraySort, Put
<1>2. PICK e : e = Elements(arr)
  OBVIOUS
<1>3. PICK n \in Nat : n = arr_size /\ n = Len(e)
  BY <1>1, <1>2, ElementsFacts
<1>4. e \in Seq(Node) /\ IsInjective(e) /\ arr \in RecordType
  BY <1>1, <1>2, ElementsFacts, SoundFacts DEF Sound
<1>5. /\ p \in [1 .. n -> 1 .. n]
      /\ \A j, k \in 1 .. n : p[j] = p[k] => j = k
      /\ \A k \in 1 .. n : \E j \in 1 .. n : p[j] = k
  BY <1>3 DEF Orders, Bijection, Injection, Surjection, IsInjective
<1>6. PICK s : s = [k \in 1 .. n |-> e[p[k]]]
  OBVIOUS
<1>7. /\ DOMAIN e = 1 .. n /\ \A k \in 1 .. n : e[k] \in Node
      /\ \A j, k \in 1 .. n : e[j] = e[k] => j = k
  BY <1>3, <1>4 DEF IsInjective
<1>8. s \in Seq(Node) /\ Len(s) = n /\ DOMAIN s = 1 .. n /\ \A k \in 1 .. n : s[k] = e[p[k]]
  <2>1. \A k \in 1 .. n : e[p[k]] \in Node
    BY <1>5, <1>7
  <2> QED BY <1>6, <2>1
<1>9. IsInjective(s)
  <2>1. \A j, k \in 1 .. n : s[j] = s[k] => j = k
    <3> TAKE j, k \in 1 .. n
    <3>1. s[j] = e[p[j]] /\ s[k] = e[p[k]] /\ p[j] \in 1 .. n /\ p[k] \in 1 .. n
      BY <1>5, <1>8
    <3>2. s[j] = s[k] => p[j] = p[k]
      BY <1>7, <3>1
    <3> QED BY <1>5, <3>2
  <2> QED BY <1>8, <2>1 DEF IsInjective
<1>10. PICK K : K = arr_clear(arr) /\ K \in RecordType /\ K.len = 0
  <2>1. PICK K : K = [arr EXCEPT !.len = 0]
    OBVIOUS
  <2>2. K \in RecordType /\ K.len = 0
    BY <1>4, <2>1 DEF RecordType
  <2> QED BY <2>1, <2>2 DEF arr_clear
<1>11. IsRing(append_all(K, s), s)
  <2>1. s \in Seq(Node) /\ K \in RecordType /\ K.len = 0
    BY <1>8, <1>10
  <2> QED BY <1>9, <2>1, AppendAllRing
<1>12. ToSet(s) = ToSet(e)
  <2>1. ToSet(s) = {s[k] : k \in 1 .. n} /\ ToSet(e) = {e[k] : k \in 1 .. n}
    BY <1>7, <1>8 DEF ToSet
  <2>2. ASSUME NEW x \in ToSet(s) PROVE x \in ToSet(e)
    <3>1. PICK k \in 1 .. n : x = s[k]
      BY <2>1, <2>2
    <3>2. p[k] \in 1 .. n /\ x = e[p[k]]
      BY <1>5, <1>8, <3>1
    <3> QED BY <2>1, <3>2
  <2>3. ASSUME NEW x \in ToSet(e) PROVE x \in ToSet(s)
    <3>1. PICK k \in 1 .. n : x = e[k]
      BY <2>1, <2>3
    <3>2. PICK j \in 1 .. n : p[j] = k
      BY <1>5
    <3>3. s[j] = x
      BY <1>8, <3>1, <3>2
    <3> QED BY <2>1, <3>3
  <2> QED BY <2>2, <2>3
<1>13. arr' = append_all(K, s)
  BY <1>1, <1>2, <1>3, <1>6, <1>10
<1>14. IsRing(arr', s) /\ Len(s) = Len(Elements(arr)) /\ ToSet(s) = ToSet(Elements(arr))
  <2>1. Len(s) = Len(e)
    BY <1>3, <1>8
  <2> QED BY <1>2, <1>11, <1>12, <1>13, <2>1
<1> QED BY <1>14

LEMMA InitWellKept == Init => WellKept
<1> SUFFICES ASSUME Init PROVE WellKept
  OBVIOUS
<1>1. arr = [next |-> [n \in Node |-> Null], ptr |-> Null, len |-> 0]
  BY DEF Init, EmptyList
<1>2. PICK e : e = << >> /\ e = Elements(arr)
  <2>1. arr.len = 0
    BY <1>1
  <2> QED BY <2>1 DEF Elements
<1>3. e \in Seq(Node) /\ Len(e) = 0 /\ DOMAIN e = {} /\ 1 .. 0 - 1 = {} /\ arr.len = 0
  BY <1>1, <1>2
<1>4. IsRing(arr, e)
  BY <1>3 DEF IsRing, IsInjective
<1>5. \A i \in Iter : ~IsOpen(i)
  BY DEF Init, IsOpen
<1> QED BY <1>2, <1>4, <1>5 DEF WellKept

\* A call through a handle keeps what it leaves: either the array is just as it
\* was, or no open iterator is in step with it any more.
LEMMA PutWellKept ==
  ASSUME Followable, WellKept, NEW L, Put(L), careful => \E t : IsRing(L, t)
  PROVE  WellKept'
<1> SUFFICES ASSUME careful' PROVE WellKept'
  BY DEF WellKept
<1>1. arr' = L /\ isArr /\ isArr' = isArr /\ iter' = iter /\ careful' = careful
  BY DEF Put
<1>2. PICK t : IsRing(L, t)
  BY <1>1
<1>3. IsRing(arr', Elements(arr'))
  <2>1. Elements(L) = t
    BY <1>2, RingElements
  <2> QED BY <1>1, <1>2, <2>1
<1>4. ASSUME NEW i \in Iter, IsOpen(i)' PROVE InStep(i)'
  <2>1. IsOpen(i)
    BY <1>1, <1>4 DEF IsOpen
  <2>2. CASE L = arr
    <3>1. current' = current /\ arr' = arr
      BY <1>1, <2>2 DEF Put
    <3>2. InStep(i)
      BY <1>1, <2>1 DEF WellKept
    <3> QED BY <1>1, <3>1, <3>2 DEF InStep
  <2>3. CASE L # arr
    <3>1. current' = [j \in Iter |-> IF IsOpen(j) THEN Void ELSE current[j]]
      BY <2>3 DEF Put
    <3>2. current'[i] = Void
      BY <2>1, <3>1
    <3> QED BY <3>2 DEF InStep
  <2> QED BY <2>2, <2>3
<1> QED BY <1>3, <1>4 DEF WellKept

LEMMA SetScalarWellKept ==
  ASSUME Followable, WellKept, SetScalar
  PROVE  WellKept'
<1>1. ~isArr'
  BY DEF SetScalar
<1>2. ASSUME NEW i \in Iter, IsOpen(i)' PROVE InStep(i)'
  <2>1. IsOpen(i)
    BY <1>2 DEF IsOpen, SetScalar
  <2>2. current'[i] = Void
    BY <2>1 DEF SetScalar
  <2> QED BY <2>2 DEF InStep
<1> QED BY <1>1, <1>2 DEF WellKept

LEMMA HandleWellKept ==
  ASSUME Followable, WellKept, HandleCall
  PROVE  WellKept'
<1> DEFINE Kept(L) == Put(L) /\ (careful => \E t : IsRing(L, t))
<1>0. ASSUME NEW L, Kept(L) PROVE WellKept'
  BY <1>0, PutWellKept
<1>1. ASSUME NEW v \in Fresh, ArrayAppend(v) PROVE WellKept'
  <2>1. PICK L : L = arr_append(arr, v)
    OBVIOUS
  <2>2. Put(L) /\ arr' = L
    BY <1>1, <2>1 DEF ArrayAppend, Put
  <2> QED BY <1>0, <1>1, <2>2, AppendEdit
<1>2. ASSUME NEW v \in Fresh, ArrayPrepend(v) PROVE WellKept'
  <2>1. PICK L : L = arr_prepend(arr, v)
    OBVIOUS
  <2>2. Put(L) /\ arr' = L
    BY <1>2, <2>1 DEF ArrayPrepend, Put
  <2> QED BY <1>0, <1>2, <2>2, PrependEdit
<1>3. ASSUME NEW v \in Fresh, NEW i \in Size, ArrayInsert(i, v) PROVE WellKept'
  <2>1. PICK L : L = arr_insert(arr, v, i)
    OBVIOUS
  <2>2. Put(L) /\ arr' = L
    BY <1>3, <2>1 DEF ArrayInsert, Put
  <2> QED BY <1>0, <1>3, <2>2, InsertEdit
<1>4. ASSUME NEW v \in Fresh, NEW i \in Size, ArrayReplace(i, v) PROVE WellKept'
  <2>1. PICK L : L = arr_replace(arr, i, v)
    OBVIOUS
  <2>2. Put(L) /\ arr' = L
    BY <1>4, <2>1 DEF ArrayReplace, Put
  <2> QED BY <1>0, <1>4, <2>2, ReplaceEdit
<1>5. ASSUME NEW i \in Size, ArrayRemove(i) PROVE WellKept'
  <2>1. PICK L : L = arr_remove(arr, i)
    OBVIOUS
  <2>2. Put(L) /\ arr' = L
    BY <1>5, <2>1 DEF ArrayRemove, Put
  <2> QED BY <1>0, <1>5, <2>2, RemoveEdit
<1>6. ASSUME ArrayRemoveFirst PROVE WellKept'
  <2>1. PICK L : L = arr_remove_first(arr)
    OBVIOUS
  <2>2. Put(L) /\ arr' = L
    BY <1>6, <2>1 DEF ArrayRemoveFirst, Put
  <2> QED BY <1>0, <1>6, <2>2, RemoveFirstEdit
<1>7. ASSUME ArrayRemoveLast PROVE WellKept'
  <2>1. PICK L : L = arr_remove_last(arr)
    OBVIOUS
  <2>2. Put(L) /\ arr' = L
    BY <1>7, <2>1 DEF ArrayRemoveLast, Put
  <2> QED BY <1>0, <1>7, <2>2, RemoveLastEdit
<1>8. ASSUME NEW i \in Size, NEW n \in Size, ArrayRemoveRange(i, n) PROVE WellKept'
  <2>1. PICK L : L = arr_remove_range(arr, i, n)
    OBVIOUS
  <2>2. Put(L) /\ arr' = L
    BY <1>8, <2>1 DEF ArrayRemoveRange, Put
  <2> QED BY <1>0, <1>8, <2>2, RemoveRangeEdit
<1>9. ASSUME ArrayClear PROVE WellKept'
  <2>1. PICK L : L = arr_clear(arr)
    OBVIOUS
  <2>2. Put(L) /\ arr' = L
    BY <1>9, <2>1 DEF ArrayClear, Put
  <2> QED BY <1>0, <1>9, <2>2, ClearEdit
<1>10. ASSUME NEW i \in Size, ArrayRotate(i) PROVE WellKept'
  <2>1. PICK L : L = arr_rotate(arr, i)
    OBVIOUS
  <2>2. Put(L) /\ arr' = L
    BY <1>10, <2>1 DEF ArrayRotate, Put
  <2> QED BY <1>0, <1>10, <2>2, RotateEdit
<1>11. ASSUME NEW p \in Orders(arr_size), ArraySort(p) PROVE WellKept'
  <2>1. PICK L : L = append_all(arr_clear(arr), [k \in 1 .. arr_size |-> Elements(arr)[p[k]]])
    OBVIOUS
  <2>2. Put(L) /\ arr' = L
    BY <1>11, <2>1 DEF ArraySort, Put
  <2>3. careful => \E s : IsRing(L, s)
    BY <1>11, <2>2, SortEdit
  <2> QED BY <1>0, <2>2, <2>3
<1>12. CASE SetScalar
  BY <1>12, SetScalarWellKept
<1> QED BY <1>1, <1>2, <1>3, <1>4, <1>5, <1>6, <1>7, <1>8, <1>9, <1>10, <1>11, <1>12 DEF HandleCall

\* Removing the value at k that the iterator handed out last: the ring loses
\* that value alone, and the iterator stands before it.
Removes(i, k, s) ==
  /\ isArr /\ current[i] # Void
  /\ s = Elements(arr) /\ k \in 1 .. Len(s)
  /\ s[k] = current[i] /\ iter[i].idx = k /\ iter[i].m_initialized
  /\ IsRing(arr', Cut(s, k - 1, 1))
  /\ iter' = [iter EXCEPT ![i] = iter'[i]]
  /\ iter'[i].idx = k - 1
  /\ Stands(arr', iter'[i], Null)

LEMMA IterRemoves ==
  ASSUME Followable, WellKept, NEW i \in Iter, ArrIterRemove(i), careful'
  PROVE  \E k, s : Removes(i, k, s)
<1>1. careful /\ current[i] \in Node /\ IsOpen(i) /\ isArr' = isArr
  BY DEF ArrIterRemove
<1>2. PICK it \in IterType : it = iter[i] /\ iter_can_remove(it)
  BY <1>1 DEF Followable, IterOf, ArrIterRemove
<1>3. isArr /\ Stands(arr, it, current[i])
  <2>1. current[i] # Void
    BY <1>1, SentinelAssumption
  <2> QED BY <1>1, <1>2, <2>1 DEF WellKept, InStep
<1>4. PICK s : s = Elements(arr)
  OBVIOUS
<1>5. /\ Sound(arr, s) /\ s \in Seq(Node) /\ IsRing(arr, s) /\ Len(s) \in Nat /\ arr.len = Len(s)
      /\ arr.next \in [Node -> Node \cup {Null}] /\ IsInjective(s)
  BY <1>1, <1>3, <1>4, ElementsFacts, SoundFacts
<1>6. PICK k \in Nat, j \in Nat, n \in Nat :
        k = it.idx /\ n = Len(s) /\ j = k - 1 /\ k = j + 1 /\ k <= n /\ it.max = n
  <2>1. it.max = Len(s)
    BY <1>3, <1>5 DEF Stands
  <2>2. it.idx \in Nat /\ 0 < it.idx /\ it.idx <= it.max
    BY <1>2, <2>1, <1>5, NodeAssumption, FS_CardinalityType DEF IterType, Count, iter_can_remove
  <2>3. it.idx - 1 \in Nat /\ it.idx = (it.idx - 1) + 1
    BY <2>2
  <2> QED BY <1>5, <2>1, <2>2, <2>3
<1>7. it.cur = s[k] /\ it.pre = Place(s, j)
  <2>1. /\ it.cur = Walk(arr, arr.ptr, k)
        /\ it.pre = Walk(arr, arr.ptr, j)
    BY <1>1, <1>3, <1>5, <1>6 DEF Stands
  <2>2. k \in 0 .. Len(s) /\ j \in 0 .. Len(s) /\ k # 0 /\ Len(s) > 0
    BY <1>6
  <2> QED BY <1>5, <2>1, <2>2, RingPlace DEF Place
<1>8. PICK t : t = Cut(s, j, 1)
  OBVIOUS
<1>9. IsRing(arr', t)
  <2>1. k \in 1 .. Len(s) /\ it.max = Len(s) /\ it.idx = k /\ it.pre = Place(s, k - 1)
    <3>1. k - 1 = j /\ k \in 1 .. n
      BY <1>6
    <3> QED BY <1>6, <1>7, <3>1, Zenon
  <2>2. IsRing(iter_remove_list(arr, it), Cut(s, k - 1, 1))
    BY <1>5, <1>7, <2>1, IterRemoveRing
  <2>3. arr' = iter_remove_list(arr, it) /\ Cut(s, k - 1, 1) = t
    BY <1>2, <1>6, <1>8 DEF ArrIterRemove
  <2> QED BY <2>2, <2>3
<1>10. /\ Len(t) = n - 1
       /\ \A m \in 1 .. n - 1 : t[m] = IF m <= j THEN s[m] ELSE s[m + 1]
  <2>1. PICK one \in Nat : one = 1 /\ j + one <= Len(s)
    BY <1>6
  <2>2. /\ Len(Cut(s, j, one)) = Len(s) - one
        /\ \A m \in 1 .. Len(s) - one : Cut(s, j, one)[m] = IF m <= j THEN s[m] ELSE s[m + one]
    <3>1. CutLeaves(s, j, one)
      BY <1>5, <2>1, CutIsLeft
    <3> QED BY <3>1 DEF CutLeaves
  <2> QED BY <1>6, <1>8, <2>1, <2>2
<1>11. IsRing(arr', Elements(arr')) /\ arr'.len = n - 1
  BY <1>9, <1>10, RingElements, RingFacts
<1>12. arr'.len > 0 => Place(s, j) = Walk(arr', arr'.ptr, j)
  <2> SUFFICES ASSUME arr'.len > 0 PROVE Place(s, j) = Walk(arr', arr'.ptr, j)
    OBVIOUS
  <2>1. Len(t) > 0 /\ j \in 0 .. Len(t)
    BY <1>6, <1>10, <1>11
  <2>2. Walk(arr', arr'.ptr, j) = Place(t, j)
    BY <1>9, <2>1, RingPlace
  <2>3. CASE j = 0
    <3>1. PICK m \in 1 .. n - 1 : m = n - 1 /\ ~(m <= j) /\ m + 1 = n
      <4>1. n - 1 > 0
        BY <1>10, <2>1
      <4>2. n \in Nat /\ j = 0
        BY <2>3
      <4>3. n - 1 \in 1 .. n - 1 /\ ~(n - 1 <= j) /\ (n - 1) + 1 = n
        BY <4>1, <4>2
      <4> QED BY <4>3
    <3>2. t[m] = s[n]
      BY <1>10, <3>1
    <3> QED BY <1>6, <1>10, <2>2, <2>3, <3>1, <3>2 DEF Place
  <2>4. CASE j # 0
    <3>1. j \in 1 .. n - 1 /\ j <= j
      BY <1>6, <1>10, <2>1, <2>4
    <3>2. t[j] = s[j]
      BY <1>10, <3>1
    <3> QED BY <2>2, <2>4, <3>2 DEF Place
  <2> QED BY <2>3, <2>4
<1>13. PICK new : /\ new = iter_remove_iter(it)
                  /\ new = [m_initialized |-> TRUE, idx |-> j, max |-> n - 1,
                            cur |-> Place(s, j), pre |-> Place(s, j)]
  <2>1. it.m_initialized
    BY <1>3 DEF Stands
  <2>2. it.m_initialized = TRUE
    BY <2>1 DEF IterType
  <2>3. it.idx - 1 = j /\ it.max - 1 = n - 1 /\ it.pre = Place(s, j)
    BY <1>6, <1>7
  <2> QED BY <2>2, <2>3, IterRemoveIs
<1>14. iter' = [iter EXCEPT ![i] = new]
  BY <1>2, <1>13 DEF ArrIterRemove
<1>15. iter'[i] = new
  BY <1>14 DEF Followable
<1>16. Stands(arr', new, Null)
  <2>1. new.m_initialized /\ new.max = n - 1 /\ new.cur = Place(s, j) /\ new.idx = j
    BY <1>13
  <2> QED BY <1>11, <1>12, <2>1, NodeAssumption DEF Stands
<1>17. s[k] = current[i]
  <2>1. it.cur = current[i]
    BY <1>1, <1>3 DEF Stands
  <2> QED BY <1>7, <2>1
<1>18. it.m_initialized /\ new.idx = j
  BY <1>3, <1>13 DEF Stands
<1>19. j = k - 1 /\ k \in 1 .. Len(s) /\ current[i] # Void
  BY <1>1, <1>6, SentinelAssumption
<1>20. IsRing(arr', Cut(s, k - 1, 1))
  BY <1>8, <1>9, <1>19
<1>21. Removes(i, k, s)
  BY <1>2, <1>3, <1>4, <1>6, <1>14, <1>15, <1>16, <1>17, <1>18, <1>19, <1>20 DEF Removes
<1> QED BY <1>21

LEMMA IterRemoveWellKept ==
  ASSUME Followable, WellKept, NEW i \in Iter, ArrIterRemove(i)
  PROVE  WellKept'
<1> SUFFICES ASSUME careful' PROVE WellKept'
  BY DEF WellKept
<1>1. PICK k, s : Removes(i, k, s)
  BY IterRemoves
<1>2. careful /\ current[i] \in Node /\ IsOpen(i) /\ isArr' = isArr
  BY DEF ArrIterRemove
<1>3. IsRing(arr', Elements(arr'))
  BY <1>1, RingElements DEF Removes
<1>4. ASSUME NEW h \in Iter, IsOpen(h)' PROVE InStep(h)'
  <2>1. current' = [m \in Iter |-> IF m = i
                                   THEN IF current[i] = Void THEN Void ELSE Null
                                   ELSE IF IsOpen(m) THEN Void ELSE current[m]]
    BY DEF ArrIterRemove
  <2>2. CASE h = i
    <3>1. current'[h] = Null
      BY <1>2, <2>1, <2>2, SentinelAssumption
    <3> QED BY <1>1, <1>2, <2>2, <3>1 DEF InStep, Removes
  <2>3. CASE h # i
    <3>1. IsOpen(h)
      BY <1>1, <1>4, <2>3 DEF IsOpen, Followable, Removes
    <3>2. current'[h] = Void
      BY <2>1, <2>3, <3>1
    <3> QED BY <3>2 DEF InStep
  <2> QED BY <2>2, <2>3
<1> QED BY <1>3, <1>4 DEF WellKept

\* A call that changes no more than the iterator it is made on.
LEMMA TrackWellKept ==
  ASSUME Followable, WellKept, NEW i \in Iter, NEW it, NEW c,
         UNCHANGED <<arr, isArr, careful>>,
         iter' = [iter EXCEPT ![i] = it], current' = [current EXCEPT ![i] = c],
         careful /\ it # Closed /\ c # Void => isArr /\ Stands(arr, it, c)
  PROVE  WellKept'
<1> SUFFICES ASSUME careful' PROVE WellKept'
  BY DEF WellKept
<1>1. /\ \A j \in Iter : iter'[j] = IF j = i THEN it ELSE iter[j]
      /\ \A j \in Iter : current'[j] = IF j = i THEN c ELSE current[j]
  BY DEF Followable
<1>2. ASSUME NEW j \in Iter, IsOpen(j)' PROVE InStep(j)'
  <2>1. CASE j = i
    BY <1>1, <1>2, <2>1 DEF InStep, IsOpen
  <2>2. CASE j # i
    BY <1>1, <1>2, <2>2 DEF InStep, IsOpen, WellKept
  <2> QED BY <2>1, <2>2
<1> QED BY <1>2 DEF WellKept

LEMMA OpenedStands ==
  ASSUME ArrayLoose
  PROVE  Stands(arr, Opened, Null)
<1>1. PICK it : it = Opened
  OBVIOUS
<1>2. it.m_initialized /\ it.max = arr.len /\ it.idx = 0 /\ it.cur = IF arr.len = 0 THEN Null ELSE arr.ptr
  BY <1>1, OpenedIs
<1>3. arr.len > 0 => arr.len # 0
  BY ArrayFacts
<1>4. Walk(arr, arr.ptr, 0) = arr.ptr
  BY WalkNone
<1>5. Stands(arr, it, Null)
  BY <1>2, <1>3, <1>4, NodeAssumption DEF Stands
<1> QED BY <1>1, <1>5

LEMMA NextStands ==
  ASSUME NEW L, NEW it \in IterType, NEW c, Stands(L, it, c), iter_has_next(it), NEW n, n = iter_next(L, it)
  PROVE  Stands(L, n, n.cur)
<1>1. /\ it.idx \in Nat /\ it.max \in Nat /\ it.m_initialized = TRUE /\ it.max = L.len
      /\ it.idx < it.max
  BY NodeAssumption, FS_CardinalityType DEF IterType, Count, Stands, iter_has_next
<1>2. it.cur = Walk(L, L.ptr, it.idx)
  BY <1>1 DEF Stands
<1>3. n = [m_initialized |-> TRUE, idx |-> it.idx + 1, max |-> it.max, cur |-> L.next[it.cur], pre |-> it.cur]
  BY <1>1, IterNextIs
<1>4. /\ n.m_initialized /\ n.idx = it.idx + 1 /\ n.max = it.max
      /\ n.cur = L.next[it.cur] /\ n.pre = it.cur
  BY <1>3
<1>5. L.next[it.cur] = Walk(L, L.ptr, it.idx + 1)
  BY <1>1, <1>2, WalkNext
<1>6. n.idx - 1 = it.idx /\ n.idx > 0
  BY <1>1, <1>4
<1> QED BY <1>1, <1>2, <1>4, <1>5, <1>6 DEF Stands

LEMMA IterCallWellKept ==
  ASSUME Followable, WellKept, NEW i \in Iter, IterCall(i)
  PROVE  WellKept'
<1>0. ArrayLoose
  BY DEF Followable
<1>1. CASE ArrIterWith(i)
  BY <1>0, <1>1, OpenedStands, TrackWellKept DEF ArrIterWith
<1>2. CASE ArrIterReset(i)
  <2>1. CASE isArr
    BY <1>0, <1>2, <2>1, OpenedStands, TrackWellKept DEF ArrIterReset
  <2>2. CASE ~isArr
    <3>1. UNCHANGED <<arr, isArr, careful, current>> /\ iter' = [iter EXCEPT ![i].m_initialized = FALSE]
      BY <1>2, <2>2 DEF ArrIterReset
    <3>2. \A j \in Iter : IsOpen(j)' => j = i \/ IsOpen(j)
      BY <3>1 DEF IsOpen, Followable
    <3>3. IsOpen(i)
      BY <1>2 DEF ArrIterReset
    <3>4. careful => \A j \in Iter : IsOpen(j)' => current[j] = Void
      BY <2>2, <3>2, <3>3 DEF WellKept, InStep
    <3> QED BY <2>2, <3>1, <3>4 DEF WellKept, InStep
  <2> QED BY <2>1, <2>2
<1>3. CASE ArrIterNext(i)
  <2>1. PICK was \in IterType : was = iter[i] /\ iter_has_next(was)
    BY <1>3 DEF Followable, ArrIterNext, IterOf
  <2>2. PICK n : n = iter_next(arr, was)
    OBVIOUS
  <2>3. iter' = [iter EXCEPT ![i] = n] /\ UNCHANGED <<arr, isArr, careful>>
    BY <1>3, <2>1, <2>2 DEF ArrIterNext
  <2>4. iter'[i] = n
    BY <2>3 DEF Followable
  <2>5. PICK c : c = IF current[i] = Void THEN Void ELSE n.cur
    OBVIOUS
  <2>6. current' = [current EXCEPT ![i] = c]
    <3>1. current' = [current EXCEPT ![i] = IF current[i] = Void THEN Void ELSE iter'[i].cur]
      BY <1>3 DEF ArrIterNext
    <3> QED BY <2>4, <2>5, <3>1
  <2>7. careful /\ c # Void => isArr /\ Stands(arr, n, c)
    <3> SUFFICES ASSUME careful, c # Void PROVE isArr /\ Stands(arr, n, c)
      OBVIOUS
    <3>1. current[i] # Void /\ c = n.cur
      BY <2>5
    <3>2. isArr /\ Stands(arr, was, current[i])
      BY <1>3, <2>1, <3>1 DEF WellKept, InStep, ArrIterNext
    <3> QED BY <2>1, <2>2, <3>1, <3>2, NextStands
  <2> QED BY <2>3, <2>6, <2>7, TrackWellKept
<1>4. CASE ReleaseArrIter(i)
  BY <1>4, TrackWellKept DEF ReleaseArrIter
<1> QED BY <1>1, <1>2, <1>3, <1>4 DEF IterCall

LEMMA WellKeptAlways == Spec => [](Followable /\ WellKept)
<1>1. Followable /\ WellKept /\ [Next]_vars => WellKept'
  <2> SUFFICES ASSUME Followable, WellKept, [Next]_vars PROVE WellKept'
    OBVIOUS
  <2>1. CASE HandleCall
    BY <2>1, HandleWellKept
  <2>2. ASSUME NEW i \in Iter, IterCall(i) PROVE WellKept'
    BY <2>2, IterCallWellKept
  <2>3. ASSUME NEW i \in Iter, ArrIterRemove(i) PROVE WellKept'
    BY <2>3, IterRemoveWellKept
  <2>4. CASE UNCHANGED vars
    BY <2>4 DEF vars, WellKept, InStep, IsOpen
  <2> QED BY <2>1, <2>2, <2>3, <2>4 DEF Next
<1> QED BY <1>1, InitFollowable, InitWellKept, StepFollowable, PTL DEF Spec

\* With careful callers the ring is as long as its length says, it closes, and
\* no value is in it twice.
THEOREM RingStaysSound == Spec => []RingIsSound
<1>1. Followable /\ WellKept => RingIsSound
  <2> SUFFICES ASSUME Followable, WellKept, careful, isArr, arr.len > 0
               PROVE  /\ Walk(arr, arr.ptr, arr.len) = arr.ptr
                      /\ IsInjective(Elements(arr))
    BY DEF RingIsSound
  <2>1. PICK s : s = Elements(arr)
    OBVIOUS
  <2>2. IsRing(arr, s) /\ Len(s) = arr.len /\ Len(s) > 0 /\ Len(s) \in 0 .. Len(s) /\ Len(s) # 0
    BY <2>1, ElementsFacts DEF Sound
  <2>3. Walk(arr, arr.ptr, Len(s)) = Place(s, Len(s)) /\ arr.ptr = s[Len(s)]
    BY <2>2, RingPlace DEF IsRing
  <2>4. IsInjective(s)
    BY <2>2 DEF IsRing
  <2> QED BY <2>1, <2>2, <2>3, <2>4 DEF Place
<1> QED BY <1>1, WellKeptAlways, PTL

\* With careful callers the index of an iterator is the index at which the value
\* it handed out last is found.
THEOREM IndexIsWhereItIs == Spec => []IndexIsPosition
<1>1. Followable /\ WellKept => IndexIsPosition
  <2> SUFFICES ASSUME Followable, WellKept, careful, NEW i \in Iter, IsOpen(i), current[i] # Void,
                      NEW k, k = ArrIterGetIndex(i)
               PROVE  /\ current[i] # Null =>
                           /\ ArrayGet(k) = current[i]
                           /\ k = 0 <=> ArrayGetFirst = current[i]
                           /\ k = arr_size - 1 <=> ArrayGetLast = current[i]
                      /\ k # SizeMax => k < arr.len
    BY DEF IndexIsPosition
  <2>1. isArr /\ Stands(arr, iter[i], current[i])
    BY DEF WellKept, InStep
  <2>2. PICK it : it = iter[i] /\ it \in IterType /\ IterLoose(it, Linked)
    BY DEF Followable, IterOf
  <2>3. PICK s : s = Elements(arr) /\ IsRing(arr, s) /\ arr.len = Len(s) /\ arr_size = Len(s)
    BY <2>1, ElementsFacts DEF Sound
  <2>4. PICK n \in Nat, x \in Nat : n = Len(s) /\ x = it.idx /\ x <= n
    <3>1. it.idx \in Nat /\ it.max = Len(s) /\ it.max \in Nat
      BY <2>1, <2>2, <2>3, NodeAssumption, FS_CardinalityType DEF IterType, Count, Stands
    <3> QED BY <2>2, <3>1 DEF IterLoose
  <2>5. k = IF x = 0 THEN SizeMax ELSE x - 1
    BY <2>1, <2>2, <2>4 DEF ArrIterGetIndex, Stands
  <2>6. k # SizeMax => k < arr.len
    BY <2>3, <2>4, <2>5
  <2>7. ASSUME current[i] # Null
        PROVE  /\ ArrayGet(k) = current[i]
               /\ k = 0 <=> ArrayGetFirst = current[i]
               /\ k = arr_size - 1 <=> ArrayGetLast = current[i]
    <3>1. current[i] \in Node
      BY <2>7 DEF Followable
    <3>2. x > 0 /\ it.cur = current[i]
      BY <2>1, <2>2, <2>4, <3>1 DEF Stands
    <3>3. /\ n > 0 /\ k = x - 1 /\ k < n /\ k + 1 = x /\ x \in 0 .. n /\ x \in 1 .. n /\ x # 0
          /\ 1 \in 1 .. n /\ n \in 1 .. n
      BY <2>4, <2>5, <3>2
    <3>4. it.cur = Walk(arr, arr.ptr, x)
      BY <2>1, <2>2, <2>3, <2>4, <3>3 DEF Stands
    <3>5. Walk(arr, arr.ptr, x) = s[x]
      BY <2>3, <2>4, <3>3, RingPlace DEF Place
    <3>6. ArrayGet(k) = current[i]
      BY <2>3, <2>4, <3>2, <3>3, <3>4 DEF ArrayGet
    <3>7. arr.ptr = s[n] /\ arr.next[arr.ptr] = s[1]
      BY <2>3, <2>4, <3>3 DEF IsRing
    <3>8. \A h, j \in 1 .. n : s[h] = s[j] => h = j
      BY <2>3, <2>4, RingFacts
    <3>9. ArrayGetFirst = s[1] /\ ArrayGetLast = s[n]
      BY <2>3, <2>4, <3>3, <3>7 DEF ArrayGetFirst, ArrayGetLast
    <3>10. current[i] = s[x]
      BY <3>2, <3>4, <3>5
    <3>11. k = 0 <=> ArrayGetFirst = current[i]
      BY <3>3, <3>8, <3>9, <3>10
    <3>12. k = n - 1 <=> ArrayGetLast = current[i]
      BY <3>3, <3>8, <3>9, <3>10
    <3> QED BY <2>3, <2>4, <3>6, <3>11, <3>12
  <2> QED BY <2>6, <2>7
<1> QED BY <1>1, WellKeptAlways, PTL

LEMMA EditExact == Followable /\ WellKept => EditIsExact
<1> SUFFICES ASSUME Followable, WellKept, careful PROVE EditIsExact
  BY DEF EditIsExact
<1>1. ASSUME NEW v \in Fresh
      PROVE  /\ ArrayAppend(v) => Elements(arr') = Append(Elements(arr), v)
             /\ ArrayPrepend(v) => Elements(arr') = <<v>> \o Elements(arr)
  BY AppendEdit, PrependEdit, RingElements
<1>2. ASSUME NEW v \in Fresh, NEW i \in Size
      PROVE  /\ ArrayInsert(i, v) => Elements(arr') = InsertAt(Elements(arr), i + 1, v)
             /\ ArrayReplace(i, v) => Elements(arr') = ReplaceAt(Elements(arr), i + 1, v)
  BY InsertEdit, ReplaceEdit, RingElements
<1>3. ASSUME NEW i \in Size, ArrayRemove(i)
      PROVE  Elements(arr') = RemoveAt(Elements(arr), i + 1)
  BY <1>3, RemoveEdit, RingElements
<1>4. ASSUME NEW i \in Size, ArrayRotate(i)
      PROVE  Elements(arr') = SubSeq(Elements(arr), i + 1, Len(Elements(arr))) \o SubSeq(Elements(arr), 1, i)
  BY <1>4, RotateEdit, RingElements
<1>5. ASSUME NEW i \in Size, NEW n \in Size, ArrayRemoveRange(i, n)
      PROVE  Elements(arr') = SubSeq(Elements(arr), 1, i)
                              \o SubSeq(Elements(arr), i + n + 1, Len(Elements(arr)))
  BY <1>5, RemoveRangeEdit, RingElements
<1>6. ASSUME ArrayRemoveFirst PROVE Elements(arr') = Tail(Elements(arr))
  BY <1>6, RemoveFirstEdit, RingElements
<1>7. ASSUME ArrayRemoveLast PROVE Elements(arr') = Front(Elements(arr))
  BY <1>7, RemoveLastEdit, RingElements
<1>8. ASSUME NEW p \in Orders(arr_size), ArraySort(p)
      PROVE  Len(Elements(arr')) = Len(Elements(arr)) /\ ToSet(Elements(arr')) = ToSet(Elements(arr))
  <2>1. PICK s : IsRing(arr', s) /\ Len(s) = Len(Elements(arr)) /\ ToSet(s) = ToSet(Elements(arr))
    BY <1>8, SortEdit
  <2>2. Elements(arr') = s
    BY <2>1, RingElements
  <2> QED BY <2>1, <2>2
<1>9. ASSUME ArrayClear PROVE Elements(arr') = << >>
  BY <1>9, ClearEdit, RingElements
<1> QED BY <1>1, <1>2, <1>3, <1>4, <1>5, <1>6, <1>7, <1>8, <1>9, Zenon DEF EditIsExact

\* With careful callers every edit through a handle does to the elements just
\* what it says, however long the array is and at whatever index.
THEOREM EditsDoWhatTheySay == Spec => EditsAreExact
<1>1. Followable /\ WellKept => [EditIsExact]_vars
  BY EditExact
<1> QED BY <1>1, WellKeptAlways, PTL DEF EditsAreExact

-----------------------------------------------------------------------------
(* Careful callers: what ListIteration promises *)

Values       == IF isArr THEN Elements(arr) ELSE << >>
TodoOf(i)    == IF Usable(i) THEN SubSeq(Elements(arr), iter[i].idx + 1, arr.len) ELSE Void
CurrentOf(i) == IF Usable(i) THEN current[i] ELSE Null

\* Nothing that the promise tells of changes for iterator i.
Same(i) == TodoOf(i)' = TodoOf(i) /\ CurrentOf(i)' = CurrentOf(i)

LEMMA SameVars ==
  ASSUME Values' = Values, \A i \in Iter : Same(i)
  PROVE  UNCHANGED Promise!vars
BY DEF Promise!vars, Values, Same, TodoOf, CurrentOf

LEMMA EditIs ==
  ASSUME NEW s \in Seq(Node), IsInjective(s), Values' = s,
         \A i \in Iter : TodoOf(i)' = Void /\ CurrentOf(i)' = Null
  PROVE  Promise!Edit
<1>1. \A j, k \in DOMAIN s : s[j] = s[k] => j = k
  BY DEF IsInjective
<1> QED BY <1>1, Zenon DEF Promise!Edit, Values, TodoOf, CurrentOf

\* Iterator i, and it alone, has t to hand out now and c to remove.
Moves(i, t, c) ==
  /\ Values' = Values
  /\ TodoOf(i)' = t /\ CurrentOf(i)' = c
  /\ \A j \in Iter : j # i => Same(j)

LEMMA MovesIs ==
  ASSUME NEW i \in Iter, NEW t, NEW c, Moves(i, t, c)
  PROVE  /\ Values' = Values
         /\ [j \in Iter |-> TodoOf(j)]' = [[j \in Iter |-> TodoOf(j)] EXCEPT ![i] = t]
         /\ [j \in Iter |-> CurrentOf(j)]' = [[j \in Iter |-> CurrentOf(j)] EXCEPT ![i] = c]
BY DEF Moves, Same

LEMMA OpenIs ==
  ASSUME NEW i \in Iter, Moves(i, Values, Null)
  PROVE  Promise!Open(i)
BY MovesIs DEF Promise!Open, Values, TodoOf, CurrentOf

LEMMA CloseIs ==
  ASSUME NEW i \in Iter, Moves(i, Void, Null)
  PROVE  Promise!Close(i)
BY MovesIs DEF Promise!Close, Values, TodoOf, CurrentOf

LEMMA AdvanceIs ==
  ASSUME NEW i \in Iter, TodoOf(i) # Void, TodoOf(i) # << >>,
         Moves(i, Tail(TodoOf(i)), Head(TodoOf(i)))
  PROVE  Promise!Advance(i)
<1> DEFINE T == [j \in Iter |-> TodoOf(j)]
<1> DEFINE C == [j \in Iter |-> CurrentOf(j)]
<1>1. T[i] = TodoOf(i)
  OBVIOUS
<1>2. Values' = Values /\ T' = [T EXCEPT ![i] = Tail(T[i])] /\ C' = [C EXCEPT ![i] = Head(T[i])]
  BY <1>1, MovesIs
<1>3. T[i] # Void /\ T[i] # << >>
  BY <1>1
<1> QED BY <1>2, <1>3 DEF Promise!Advance, Values, TodoOf, CurrentOf

\* Iterator i has removed its value, the one at k; the others are overtaken.
LEMMA RemoveIs ==
  ASSUME NEW i \in Iter, CurrentOf(i) # Null, NEW s, Values = s, NEW k \in DOMAIN s,
         s[k] = CurrentOf(i),
         Values' = SubSeq(s, 1, k - 1) \o SubSeq(s, k + 1, Len(s)),
         TodoOf(i)' = TodoOf(i),
         \A j \in Iter : CurrentOf(j)' = Null /\ (j # i => TodoOf(j)' = Void)
  PROVE  Promise!Remove(i)
<1> DEFINE T == [j \in Iter |-> TodoOf(j)]
<1> DEFINE C == [j \in Iter |-> CurrentOf(j)]
<1>1. T[i] = TodoOf(i) /\ C[i] = CurrentOf(i)
  OBVIOUS
<1>2. T' = [j \in Iter |-> IF j = i THEN T[i] ELSE Void]
  BY <1>1
<1>3. C' = [j \in Iter |-> Null]
  OBVIOUS
<1>4. /\ C[i] # Null
      /\ \E h \in DOMAIN Values :
           /\ Values[h] = C[i]
           /\ Values' = SubSeq(Values, 1, h - 1) \o SubSeq(Values, h + 1, Len(Values))
  BY <1>1
<1> QED BY <1>2, <1>3, <1>4, Zenon DEF Promise!Remove, Values, TodoOf, CurrentOf

LEMMA NotUsable ==
  ASSUME NEW i \in Iter
  PROVE  /\ ~Usable(i) => TodoOf(i) = Void /\ CurrentOf(i) = Null
         /\ ~Usable(i)' => TodoOf(i)' = Void /\ CurrentOf(i)' = Null
BY DEF TodoOf, CurrentOf

LEMMA PutImplements ==
  ASSUME Followable, WellKept, WellKept', careful', NEW L, Put(L)
  PROVE  Promise!Next \/ UNCHANGED Promise!vars
<1>1. arr' = L /\ isArr /\ isArr' = isArr /\ iter' = iter
  BY DEF Put
<1>2. CASE L = arr
  <2>1. arr' = arr /\ current' = current
    BY <1>1, <1>2 DEF Put
  <2>2. Values' = Values /\ \A i \in Iter : Same(i)
    BY <1>1, <2>1 DEF Values, Same, TodoOf, CurrentOf, Usable, IsOpen
  <2> QED BY <2>2, SameVars
<1>3. CASE L # arr
  <2>1. current' = [j \in Iter |-> IF IsOpen(j) THEN Void ELSE current[j]]
    BY <1>3 DEF Put
  <2>2. \A i \in Iter : ~Usable(i)'
    BY <1>1, <2>1 DEF Usable, IsOpen
  <2>3. PICK s : s = Values'
    OBVIOUS
  <2>4. s = Elements(arr')
    BY <1>1, <2>3 DEF Values
  <2>5. IsRing(arr', s)
    BY <1>1, <2>4 DEF WellKept
  <2>6. s \in Seq(Node) /\ IsInjective(s)
    BY <2>5 DEF IsRing
  <2>7. Promise!Edit
    BY <2>2, <2>3, <2>6, NotUsable, EditIs
  <2> QED BY <2>7 DEF Promise!Next
<1> QED BY <1>2, <1>3

LEMMA HandleImplements ==
  ASSUME Followable, WellKept, WellKept', careful', HandleCall
  PROVE  Promise!Next \/ UNCHANGED Promise!vars
<1>1. CASE SetScalar
  <2>1. ~isArr' /\ iter' = iter /\ current' = [j \in Iter |-> IF IsOpen(j) THEN Void ELSE current[j]]
    BY <1>1 DEF SetScalar
  <2>2. \A i \in Iter : ~Usable(i)'
    BY <2>1 DEF Usable, IsOpen
  <2>3. PICK s : s = << >>
    OBVIOUS
  <2>4. Values' = s /\ s \in Seq(Node) /\ DOMAIN s = {}
    BY <2>1, <2>3 DEF Values
  <2>5. IsInjective(s)
    BY <2>4 DEF IsInjective
  <2>6. Promise!Edit
    BY <2>2, <2>4, <2>5, NotUsable, EditIs
  <2> QED BY <2>6 DEF Promise!Next
<1>2. CASE ~SetScalar
  <2>1. \E L : Put(L)
    BY <1>2 DEF HandleCall, ArrayAppend, ArrayPrepend, ArrayInsert, ArrayReplace, ArrayRemove,
                ArrayRemoveFirst, ArrayRemoveLast, ArrayRemoveRange, ArrayClear, ArrayRotate, ArraySort
  <2> QED BY <2>1, PutImplements
<1> QED BY <1>1, <1>2

LEMMA IterCallImplements ==
  ASSUME Followable, WellKept, careful', NEW i \in Iter, IterCall(i)
  PROVE  Promise!Next \/ UNCHANGED Promise!vars
<1>0. /\ careful /\ arr' = arr /\ isArr' = isArr
      /\ \A j \in Iter : j # i => iter'[j] = iter[j] /\ current'[j] = current[j]
  BY DEF IterCall, ArrIterWith, ArrIterReset, ArrIterNext, ReleaseArrIter, Followable
<1>1. Values' = Values
  BY <1>0 DEF Values
<1>2. \A j \in Iter : j # i => Same(j)
  BY <1>0 DEF Same, TodoOf, CurrentOf, Usable, IsOpen
<1>3. ASSUME isArr, iter'[i] = Opened, current'[i] = Null PROVE Promise!Next
  <2>1. PICK s : s = Elements(arr) /\ s \in Seq(Node) /\ Len(s) = arr.len
    BY <1>0, <1>3, ElementsFacts
  <2>2. PICK it : it = iter'[i] /\ it.m_initialized /\ it.idx = 0
    BY <1>3, OpenedIs
  <2>3. iter'[i] # Closed
    BY <1>0, <1>3, OpenedLoose, SentinelAssumption DEF Followable
  <2>4. Usable(i)'
    BY <1>3, <2>2, <2>3, SentinelAssumption DEF Usable, IsOpen
  <2>5. TodoOf(i)' = SubSeq(s, 0 + 1, Len(s)) /\ CurrentOf(i)' = Null
    BY <1>0, <1>3, <2>1, <2>2, <2>4 DEF TodoOf, CurrentOf
  <2>6. TodoOf(i)' = Values
    BY <1>3, <2>1, <2>5, WholeSlice DEF Values
  <2>7. Promise!Open(i)
    BY <1>1, <1>2, <2>5, <2>6, OpenIs DEF Moves
  <2> QED BY <2>7 DEF Promise!Next
<1>4. ASSUME ~Usable(i)' PROVE Promise!Next
  <2>1. Promise!Close(i)
    BY <1>1, <1>2, <1>4, NotUsable, CloseIs DEF Moves
  <2> QED BY <2>1 DEF Promise!Next
<1>5. CASE ArrIterWith(i)
  BY <1>3, <1>5 DEF ArrIterWith, Followable
<1>6. CASE ArrIterReset(i)
  <2>1. CASE isArr
    BY <1>3, <1>6, <2>1 DEF ArrIterReset, Followable
  <2>2. CASE ~isArr
    <3>1. iter' = [iter EXCEPT ![i].m_initialized = FALSE] /\ iter[i] \in IterType
      BY <1>6, <2>2 DEF ArrIterReset, Followable, IterOf
    <3>2. iter'[i].m_initialized = FALSE
      BY <3>1 DEF IterType, Followable
    <3> QED BY <1>4, <3>2 DEF Usable
  <2> QED BY <2>1, <2>2
<1>7. CASE ArrIterNext(i)
  <2>1. PICK was \in IterType : /\ was = iter[i] /\ iter_has_next(was) /\ was.m_initialized
                                /\ IterLoose(was, Linked) /\ was.max <= Cardinality(Linked)
    BY <1>7 DEF Followable, ArrIterNext, IterOf
  <2>2. PICK n : n = iter_next(arr, was)
    OBVIOUS
  <2>3. iter'[i] = n /\ current'[i] = IF current[i] = Void THEN Void ELSE n.cur
    <3>1. iter' = [iter EXCEPT ![i] = n]
      BY <1>7, <2>1, <2>2 DEF ArrIterNext
    <3>2. iter'[i] = n
      BY <3>1 DEF Followable
    <3>3. current' = [current EXCEPT ![i] = IF current[i] = Void THEN Void ELSE iter'[i].cur]
      BY <1>7 DEF ArrIterNext
    <3> QED BY <3>2, <3>3 DEF Followable
  <2>4. CASE current[i] = Void
    <3>1. ~Usable(i) /\ ~Usable(i)'
      BY <2>3, <2>4 DEF Usable
    <3>2. Same(i)
      BY <3>1, NotUsable DEF Same
    <3> QED BY <1>1, <1>2, <3>2, SameVars
  <2>5. CASE current[i] # Void
    <3>1. isArr /\ Stands(arr, was, current[i]) /\ Usable(i)
      BY <1>0, <1>7, <2>1, <2>5 DEF WellKept, InStep, ArrIterNext, Usable
    <3>2. PICK s : /\ s = Elements(arr) /\ s \in Seq(Node) /\ Len(s) = arr.len
                   /\ IsRing(arr, s)
      BY <1>0, <3>1, ElementsFacts DEF Sound
    <3>3. PICK x \in Nat : x = was.idx /\ x < Len(s) /\ was.max = Len(s)
      BY <2>1, <3>1, <3>2, NodeAssumption, FS_CardinalityType DEF IterType, Count, Stands, iter_has_next
    <3>4. n \in IterType /\ IterLoose(n, Linked)
      BY <2>1, <2>2, NextLoose DEF Followable
    <3>5. /\ n.m_initialized = was.m_initialized /\ n.idx = x + 1 /\ n.max = was.max
          /\ n.cur = arr.next[was.cur]
      <4>1. n = [m_initialized |-> was.m_initialized, idx |-> was.idx + 1, max |-> was.max,
                 cur |-> arr.next[was.cur], pre |-> was.cur]
        BY <2>2, IterNextIs
      <4> QED BY <3>3, <4>1
    <3>6. n.cur = s[x + 1]
      <4>1. x + 1 \in 0 .. Len(s) /\ x + 1 # 0 /\ Len(s) > 0
        BY <3>2, <3>3
      <4>2. Walk(arr, arr.ptr, x + 1) = s[x + 1]
        BY <3>2, <4>1, RingPlace DEF Place
      <4>3. was.cur = Walk(arr, arr.ptr, x)
        BY <3>1, <3>2, <3>3, <4>1 DEF Stands
      <4> QED BY <3>5, <4>2, <4>3, WalkNext
    <3>7. n.cur \in Node /\ n # Closed
      <4>1. x + 1 \in 1 .. Len(s)
        BY <3>2, <3>3
      <4> QED BY <3>2, <3>4, <3>6, <4>1, SentinelAssumption
    <3>8. current'[i] = n.cur /\ n.cur # Void
      BY <2>3, <2>5, <3>7, SentinelAssumption
    <3>9. Usable(i)'
      BY <2>1, <2>3, <3>5, <3>7, <3>8 DEF Usable, IsOpen
    <3>10. PICK a : a = SubSeq(s, x + 1, Len(s))
      OBVIOUS
    <3>11. TodoOf(i) = a
      BY <2>1, <3>1, <3>2, <3>3, <3>10 DEF TodoOf
    <3>12. TodoOf(i)' = SubSeq(s, (x + 1) + 1, Len(s)) /\ CurrentOf(i)' = s[x + 1]
      BY <1>0, <2>3, <3>2, <3>5, <3>6, <3>8, <3>9 DEF TodoOf, CurrentOf
    <3>13. a # << >> /\ a # Void /\ Head(a) = s[x + 1] /\ Tail(a) = SubSeq(s, (x + 1) + 1, Len(s))
      BY <3>2, <3>3, <3>10, SliceHead, SentinelAssumption
    <3>14. Promise!Advance(i)
      BY <1>1, <1>2, <3>11, <3>12, <3>13, AdvanceIs DEF Moves
    <3> QED BY <3>14 DEF Promise!Next
  <2> QED BY <2>4, <2>5
<1>8. CASE ReleaseArrIter(i)
  <2>1. iter'[i] = Closed
    BY <1>8 DEF ReleaseArrIter, Followable
  <2> QED BY <1>4, <2>1 DEF Usable, IsOpen
<1> QED BY <1>5, <1>6, <1>7, <1>8 DEF IterCall

LEMMA IterRemoveImplements ==
  ASSUME Followable, WellKept, careful', NEW i \in Iter, ArrIterRemove(i)
  PROVE  Promise!Next
<1>1. PICK k, s : Removes(i, k, s)
  BY IterRemoves
<1>2. careful /\ current[i] \in Node /\ IsOpen(i) /\ isArr' = isArr
  BY DEF ArrIterRemove
<1>3. PICK t : t = Cut(s, k - 1, 1) /\ Elements(arr') = t /\ arr'.len = Len(t)
  BY <1>1, RingElements, RingFacts DEF Removes
<1>4. s = Elements(arr) /\ s \in Seq(Node) /\ IsInjective(s) /\ Len(s) = arr.len /\ k \in 1 .. Len(s)
  BY <1>1, <1>2, ElementsFacts, SoundFacts DEF Removes
<1>5. /\ t = SubSeq(s, 1, k - 1) \o SubSeq(s, k + 1, Len(s))
      /\ SubSeq(t, (k - 1) + 1, Len(t)) = SubSeq(s, k + 1, Len(s))
  BY <1>3, <1>4, RestAfterCut
<1>6. Usable(i) /\ CurrentOf(i) = current[i] /\ TodoOf(i) = SubSeq(s, k + 1, Len(s))
  BY <1>1, <1>2, <1>4 DEF Removes, Usable, TodoOf, CurrentOf
<1>7. current' = [m \in Iter |-> IF m = i
                                 THEN IF current[i] = Void THEN Void ELSE Null
                                 ELSE IF IsOpen(m) THEN Void ELSE current[m]]
  BY DEF ArrIterRemove
<1>8. current'[i] = Null /\ Null # Void
  BY <1>1, <1>7, SentinelAssumption DEF Removes
<1>9. iter'[i] # Closed
  <2>1. Followable'
    BY RemoveFollowable
  <2>2. iter'[i] = iter_remove_iter(iter[i])
    BY DEF ArrIterRemove, Followable
  <2>3. iter[i] \in IterType /\ IterLoose(iter[i], Linked) /\ iter_can_remove(iter[i])
        /\ iter[i].max <= Cardinality(Linked)
    BY <1>2 DEF Followable, IterOf, ArrIterRemove
  <2>4. Linked \in SUBSET Node
    BY DEF Linked
  <2> QED BY <2>2, <2>3, <2>4, RemovedIterLoose, SentinelAssumption
<1>10. Usable(i)'
  BY <1>1, <1>8, <1>9 DEF Removes, Stands, Usable, IsOpen
<1>11. TodoOf(i)' = TodoOf(i) /\ CurrentOf(i)' = Null
  <2>1. TodoOf(i)' = SubSeq(t, (k - 1) + 1, Len(t))
    BY <1>1, <1>3, <1>10 DEF Removes, TodoOf
  <2> QED BY <1>5, <1>6, <1>8, <1>10, <2>1 DEF CurrentOf
<1>12. ASSUME NEW j \in Iter, j # i PROVE TodoOf(j)' = Void /\ CurrentOf(j)' = Null
  <2>1. iter'[j] = iter[j]
    BY <1>1, <1>12 DEF Removes, Followable
  <2>2. ~Usable(j)'
    BY <1>7, <1>12, <2>1 DEF Usable, IsOpen
  <2> QED BY <2>2, NotUsable
<1>13. Values = s /\ Values' = SubSeq(s, 1, k - 1) \o SubSeq(s, k + 1, Len(s))
  BY <1>1, <1>2, <1>3, <1>4, <1>5 DEF Values, Removes
<1>14. k \in DOMAIN s /\ s[k] = CurrentOf(i) /\ CurrentOf(i) # Null
  <2>1. s[k] = current[i] /\ current[i] # Null
    BY <1>1, <1>2, NodeAssumption DEF Removes
  <2> QED BY <1>4, <1>6, <2>1
<1>15. Promise!Remove(i)
  BY <1>11, <1>12, <1>13, <1>14, RemoveIs
<1> QED BY <1>15 DEF Promise!Next

\* With careful callers the array and its iterators do what ListIteration
\* promises: each iterator hands out every element once and in order, whatever it
\* removes on the way, until something else changes the array.
THEOREM IterationIsImplemented == Spec => ImplementsIteration
<1>1. Init => Promise!Init
  <2> SUFFICES ASSUME Init PROVE Promise!Init
    OBVIOUS
  <2>1. \A i \in Iter : ~Usable(i)
    BY DEF Init, Usable, IsOpen
  <2>2. arr.len = 0 /\ isArr
    BY DEF Init, EmptyList
  <2>3. Elements(arr) = << >>
    BY <2>2 DEF Elements
  <2> QED BY <2>1, <2>2, <2>3 DEF Promise!Init
<1>2. /\ Followable /\ WellKept /\ (Followable /\ WellKept)' /\ [Next]_vars
      => [careful' => Promise!Next]_(Promise!vars)
  <2> SUFFICES ASSUME Followable, WellKept, WellKept', [Next]_vars, careful'
               PROVE  Promise!Next \/ UNCHANGED Promise!vars
    OBVIOUS
  <2>1. CASE HandleCall
    BY <2>1, HandleImplements
  <2>2. ASSUME NEW i \in Iter, IterCall(i) PROVE Promise!Next \/ UNCHANGED Promise!vars
    BY <2>2, IterCallImplements
  <2>3. ASSUME NEW i \in Iter, ArrIterRemove(i) PROVE Promise!Next \/ UNCHANGED Promise!vars
    BY <2>3, IterRemoveImplements
  <2>4. CASE UNCHANGED vars
    <3>1. Values' = Values /\ \A i \in Iter : Same(i)
      BY <2>4 DEF vars, Values, Same, TodoOf, CurrentOf, Usable, IsOpen
    <3> QED BY <3>1, SameVars
  <2> QED BY <2>1, <2>2, <2>3, <2>4 DEF Next
<1> QED BY <1>1, <1>2, WellKeptAlways, PTL DEF Spec, ImplementsIteration
=============================================================================
