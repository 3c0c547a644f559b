------------------------- MODULE JsonObject_proofs --------------------------
(* The object and its iterators, for any number of pairs and of iterators.  *)
EXTENDS JsonObject, MutRing_proofs

-----------------------------------------------------------------------------
(* yyjson_mut_obj_put and yyjson_mut_obj_remove_key, pair by pair *)

\* The library's own iterator.
WalkIter == [idx : Nat, max : Nat, cur : Node \cup {Null}, pre : Node \cup {Null}]

LEMMA WalkIterNext ==
  ASSUME NEW L, NEW it \in WalkIter
  PROVE  iter_next(L, it) = [idx |-> it.idx + 1, max |-> it.max, cur |-> L.next[it.cur], pre |-> it.cur]
<1>1. PICK x \in Nat, m \in Nat, c \in Node \cup {Null}, p \in Node \cup {Null} :
        it = [idx |-> x, max |-> m, cur |-> c, pre |-> p]
  BY DEF WalkIter
<1>2. it.idx = x /\ it.max = m /\ it.cur = c /\ it.pre = p
  BY <1>1
<1>3. PICK y, d : y = it.idx + 1 /\ d = L.next[it.cur]
  OBVIOUS
<1>4. iter_next(L, it) = [it EXCEPT !.idx = y, !.pre = c, !.cur = d]
  BY <1>2, <1>3, Zenon DEF iter_next
<1>5. PICK one : one = [it EXCEPT !.idx = y]
  OBVIOUS
<1>6. one = [idx |-> y, max |-> m, cur |-> c, pre |-> p]
  BY <1>1, <1>5
<1>7. PICK two : two = [one EXCEPT !.pre = c]
  OBVIOUS
<1>8. two = [idx |-> y, max |-> m, cur |-> c, pre |-> c]
  BY <1>6, <1>7
<1>9. [two EXCEPT !.cur = d] = [idx |-> y, max |-> m, cur |-> d, pre |-> c]
  BY <1>8
<1>10. [it EXCEPT !.idx = y, !.pre = c, !.cur = d]
         = [[[it EXCEPT !.idx = y] EXCEPT !.pre = c] EXCEPT !.cur = d]
  OBVIOUS
<1>11. iter_next(L, it) = [idx |-> y, max |-> m, cur |-> d, pre |-> c]
  BY <1>4, <1>5, <1>7, <1>9, <1>10
<1> QED BY <1>2, <1>3, <1>11

LEMMA WalkIterRemove ==
  ASSUME NEW it \in WalkIter
  PROVE  iter_remove_iter(it) = [idx |-> it.idx - 1, max |-> it.max - 1, cur |-> it.pre, pre |-> it.pre]
<1>1. PICK x \in Nat, m \in Nat, c \in Node \cup {Null}, p \in Node \cup {Null} :
        it = [idx |-> x, max |-> m, cur |-> c, pre |-> p]
  BY DEF WalkIter
<1>2. it.idx = x /\ it.max = m /\ it.cur = c /\ it.pre = p
  BY <1>1
<1>3. PICK y, n : y = it.idx - 1 /\ n = it.max - 1
  OBVIOUS
<1>4. iter_remove_iter(it) = [it EXCEPT !.idx = y, !.max = n, !.cur = p]
  BY <1>2, <1>3, Zenon DEF iter_remove_iter
<1>5. PICK one : one = [it EXCEPT !.idx = y]
  OBVIOUS
<1>6. one = [idx |-> y, max |-> m, cur |-> c, pre |-> p]
  BY <1>1, <1>5
<1>7. PICK two : two = [one EXCEPT !.max = n]
  OBVIOUS
<1>8. two = [idx |-> y, max |-> n, cur |-> c, pre |-> p]
  BY <1>6, <1>7
<1>9. [two EXCEPT !.cur = p] = [idx |-> y, max |-> n, cur |-> p, pre |-> p]
  BY <1>8
<1>10. [it EXCEPT !.idx = y, !.max = n, !.cur = p]
         = [[[it EXCEPT !.idx = y] EXCEPT !.max = n] EXCEPT !.cur = p]
  OBVIOUS
<1>11. iter_remove_iter(it) = [idx |-> y, max |-> n, cur |-> p, pre |-> p]
  BY <1>4, <1>5, <1>7, <1>9, <1>10
<1> QED BY <1>2, <1>3, <1>11

PutState(L, it, f) == [L |-> L, it |-> it, first |-> f]

LEMMA PutStepIs ==
  ASSUME NEW L, NEW it, NEW f, NEW M, NEW nx, nx = iter_next(L, it)
  PROVE  obj_put_step(PutState(L, it, f), M)
           = IF nx.cur \notin M THEN PutState(L, nx, f)
             ELSE IF f = Null THEN PutState(L, nx, nx.cur)
             ELSE PutState(iter_remove_list(L, nx), iter_remove_iter(nx), f)
<1>1. PICK s : s = PutState(L, it, f)
  OBVIOUS
<1>2. s = [L |-> L, it |-> it, first |-> f] /\ s.L = L /\ s.it = it /\ s.first = f
  BY <1>1 DEF PutState
<1>3. obj_put_step(s, M)
        = IF nx.cur \notin M THEN [s EXCEPT !.it = nx]
          ELSE IF f = Null THEN [s EXCEPT !.it = nx, !.first = nx.cur]
          ELSE [s EXCEPT !.L = iter_remove_list(L, nx), !.it = iter_remove_iter(nx)]
  BY <1>2, Zenon DEF obj_put_step
<1>4. PICK c, K, r : c = nx.cur /\ K = iter_remove_list(L, nx) /\ r = iter_remove_iter(nx)
  OBVIOUS
<1>5. [s EXCEPT !.it = nx] = PutState(L, nx, f)
  BY <1>2 DEF PutState
<1>6. [s EXCEPT !.it = nx, !.first = c] = PutState(L, nx, c)
  <2>1. PICK one : one = [s EXCEPT !.it = nx]
    OBVIOUS
  <2>2. one = [L |-> L, it |-> nx, first |-> f]
    BY <1>2, <2>1
  <2>3. [one EXCEPT !.first = c] = [L |-> L, it |-> nx, first |-> c]
    BY <2>2
  <2>4. [s EXCEPT !.it = nx, !.first = c] = [[s EXCEPT !.it = nx] EXCEPT !.first = c]
    OBVIOUS
  <2> QED BY <2>1, <2>3, <2>4 DEF PutState
<1>7. [s EXCEPT !.L = K, !.it = r] = PutState(K, r, f)
  <2>1. PICK one : one = [s EXCEPT !.L = K]
    OBVIOUS
  <2>2. one = [L |-> K, it |-> it, first |-> f]
    BY <1>2, <2>1
  <2>3. [one EXCEPT !.it = r] = [L |-> K, it |-> r, first |-> f]
    BY <2>2
  <2>4. [s EXCEPT !.L = K, !.it = r] = [[s EXCEPT !.L = K] EXCEPT !.it = r]
    OBVIOUS
  <2> QED BY <2>1, <2>3, <2>4 DEF PutState
<1> QED BY <1>1, <1>3, <1>4, <1>5, <1>6, <1>7

PutRun(L, M, n, r) ==
  /\ r[0] = PutState(L, iter_init(L), Null)
  /\ \A j \in 1 .. n : r[j] = obj_put_step(r[j - 1], M)

LEMMA PutRecursion ==
  ASSUME NEW L, NEW M, L.len \in Nat
  PROVE  \E r : PutRun(L, M, L.len, r) /\ obj_put(L, M) = r[L.len]
<1> DEFINE first == [L |-> L, it |-> iter_init(L), first |-> Null]
           Good(r, m) == r = [j \in 0 .. m |-> IF j = 0 THEN first ELSE obj_put_step(r[j - 1], M)]
           S == {m \in Nat : \E r : Good(r, m)}
<1>1. 0 \in S
  <2>1. Good([j \in 0 .. 0 |-> first], 0)
    OBVIOUS
  <2> QED BY <2>1
<1>2. \A m \in S \cap Nat : m + 1 \in S
  <2> HIDE DEF first
  <2> SUFFICES ASSUME NEW m \in Nat, NEW r, Good(r, m)
               PROVE  m + 1 \in S
    OBVIOUS
  <2> DEFINE more == [j \in 0 .. m + 1 |-> IF j = m + 1 THEN obj_put_step(r[m], M) ELSE r[j]]
  <2>1. Good(more, m + 1)
    OBVIOUS
  <2> HIDE DEF Good
  <2> QED BY <2>1
<1>3. L.len \in S
  <2> HIDE DEF S
  <2> QED BY <1>1, <1>2, NaturalInduction
<1> DEFINE all == CHOOSE r : Good(r, L.len)
<1>4. Good(all, L.len)
  <2> HIDE DEF Good
  <2> QED BY <1>3
<1>5. obj_put(L, M) = all[L.len]
  BY Zenon DEF obj_put
<1>6. PutRun(L, M, L.len, all)
  <2>1. first = PutState(L, iter_init(L), Null)
    BY DEF PutState
  <2> HIDE DEF all, first
  <2> QED BY <1>4, <2>1 DEF PutRun
<1> QED BY <1>5, <1>6

RemoveState(L, p, k) == [L |-> L, pre |-> p, kept |-> k]

LEMMA RemoveStepIs ==
  ASSUME NEW L, NEW p, NEW k, NEW M, NEW c, c = L.next[p]
  PROVE  obj_remove_key_step(RemoveState(L, p, k), M)
           = IF c \notin M THEN RemoveState(L, c, k + 1)
             ELSE RemoveState(Unlink(L, p, 1, k + 1 = L.len), p, k)
<1>1. PICK s : s = RemoveState(L, p, k)
  OBVIOUS
<1>2. s = [L |-> L, pre |-> p, kept |-> k] /\ s.L = L /\ s.pre = p /\ s.kept = k
  BY <1>1 DEF RemoveState
<1>3. PICK h, K : h = k + 1 /\ K = Unlink(L, p, 1, k + 1 = L.len)
  OBVIOUS
<1>4. obj_remove_key_step(s, M)
        = IF c \notin M THEN [s EXCEPT !.pre = c, !.kept = h] ELSE [s EXCEPT !.L = K]
  BY <1>2, <1>3, Zenon DEF obj_remove_key_step
<1>5. [s EXCEPT !.pre = c, !.kept = h] = RemoveState(L, c, h)
  <2>1. PICK one : one = [s EXCEPT !.pre = c]
    OBVIOUS
  <2>2. one = [L |-> L, pre |-> c, kept |-> k]
    BY <1>2, <2>1
  <2>3. [one EXCEPT !.kept = h] = [L |-> L, pre |-> c, kept |-> h]
    BY <2>2
  <2>4. [s EXCEPT !.pre = c, !.kept = h] = [[s EXCEPT !.pre = c] EXCEPT !.kept = h]
    OBVIOUS
  <2> QED BY <2>1, <2>3, <2>4 DEF RemoveState
<1>6. [s EXCEPT !.L = K] = RemoveState(K, p, k)
  BY <1>2 DEF RemoveState
<1> QED BY <1>1, <1>3, <1>4, <1>5, <1>6

RemoveRun(L, M, n, r) ==
  /\ r[0] = RemoveState(L, L.ptr, 0)
  /\ \A j \in 1 .. n : r[j] = obj_remove_key_step(r[j - 1], M)

LEMMA RemoveRecursion ==
  ASSUME NEW L, NEW M, L.len \in Nat
  PROVE  \E r : RemoveRun(L, M, L.len, r) /\ obj_remove_key(L, M) = r[L.len].L
<1> DEFINE first == [L |-> L, pre |-> L.ptr, kept |-> 0]
           Good(r, m) == r = [j \in 0 .. m |-> IF j = 0 THEN first ELSE obj_remove_key_step(r[j - 1], M)]
           S == {m \in Nat : \E r : Good(r, m)}
<1>1. 0 \in S
  <2>1. Good([j \in 0 .. 0 |-> first], 0)
    OBVIOUS
  <2> QED BY <2>1
<1>2. \A m \in S \cap Nat : m + 1 \in S
  <2> HIDE DEF first
  <2> SUFFICES ASSUME NEW m \in Nat, NEW r, Good(r, m)
               PROVE  m + 1 \in S
    OBVIOUS
  <2> DEFINE more == [j \in 0 .. m + 1 |-> IF j = m + 1 THEN obj_remove_key_step(r[m], M) ELSE r[j]]
  <2>1. Good(more, m + 1)
    OBVIOUS
  <2> HIDE DEF Good
  <2> QED BY <2>1
<1>3. L.len \in S
  <2> HIDE DEF S
  <2> QED BY <1>1, <1>2, NaturalInduction
<1> DEFINE all == CHOOSE r : Good(r, L.len)
<1>4. Good(all, L.len)
  <2> HIDE DEF Good
  <2> QED BY <1>3
<1>5. obj_remove_key(L, M) = all[L.len].L
  BY Zenon DEF obj_remove_key
<1>6. RemoveRun(L, M, L.len, all)
  <2>1. first = RemoveState(L, L.ptr, 0)
    BY DEF RemoveState
  <2> HIDE DEF all, first
  <2> QED BY <1>4, <2>1 DEF RemoveRun
<1> QED BY <1>5, <1>6

-----------------------------------------------------------------------------
(* Whatever is called: no pointer that may be followed is null *)

\* The state of obj_put with n - j pairs to look at: the iterator is still inside
\* its bounds and they are those of the ring.
PutLoosely(S, n, j, r) ==
  \E K, it, f :
    /\ r = PutState(K, it, f)
    /\ Loose(K, S) /\ EndIn(K, S)
    /\ it \in WalkIter /\ IterLoose(it, S)
    /\ f \in S \cup {Null}
    /\ it.max = K.len /\ it.max <= n /\ it.max - it.idx = n - j

LEMMA PutStepLoose ==
  ASSUME NEW S, NEW n \in Nat, NEW j \in Nat, j < n, NEW r, PutLoosely(S, n, j, r), NEW M
  PROVE  PutLoosely(S, n, j + 1, obj_put_step(r, M))
<1>1. PICK K, it, f :
        /\ r = PutState(K, it, f)
        /\ Loose(K, S) /\ EndIn(K, S)
        /\ it \in WalkIter /\ IterLoose(it, S)
        /\ f \in S \cup {Null}
        /\ it.max = K.len /\ it.max <= n /\ it.max - it.idx = n - j
  BY DEF PutLoosely
<1>2. PICK x \in Nat, m \in Nat : x = it.idx /\ m = it.max /\ x < m /\ m <= n /\ m - x = n - j
  BY <1>1 DEF IterLoose
<1>3. it.cur \in S /\ S \subseteq Node
  BY <1>1, <1>2 DEF IterLoose, Loose
<1>4. PICK c \in S, p \in S : c = K.next[it.cur] /\ p = it.cur
  BY <1>1, <1>3 DEF Loose
<1>5. PICK y \in Nat : y = x + 1 /\ y - 1 = x
  BY <1>2
<1>6. PICK nx : nx = [idx |-> y, max |-> m, cur |-> c, pre |-> p]
  OBVIOUS
<1>7. nx = iter_next(K, it)
  BY <1>1, <1>2, <1>4, <1>5, <1>6, WalkIterNext
<1>8. nx \in WalkIter /\ nx.idx = y /\ nx.max = m /\ nx.cur = c /\ nx.pre = p
  BY <1>3, <1>6 DEF WalkIter
<1>9. IterLoose(nx, S)
  BY <1>2, <1>5, <1>8 DEF IterLoose
<1>10. CASE c \notin M
  <2>1. obj_put_step(r, M) = PutState(K, nx, f)
    BY <1>1, <1>7, <1>8, <1>10, PutStepIs
  <2>2. nx.max - nx.idx = n - (j + 1)
    BY <1>2, <1>5, <1>8
  <2> QED BY <1>1, <1>2, <1>8, <1>9, <2>1, <2>2 DEF PutLoosely
<1>11. CASE c \in M /\ f = Null
  <2>1. obj_put_step(r, M) = PutState(K, nx, c)
    BY <1>1, <1>7, <1>8, <1>11, PutStepIs
  <2>2. nx.max - nx.idx = n - (j + 1)
    BY <1>2, <1>5, <1>8
  <2> QED BY <1>1, <1>2, <1>8, <1>9, <2>1, <2>2 DEF PutLoosely
<1>12. CASE c \in M /\ f # Null
  <2>1. PICK h : h = iter_remove_iter(nx)
    OBVIOUS
  <2>2. PICK z \in Nat : z = m - 1
    BY <1>2
  <2>3. h = [idx |-> x, max |-> z, cur |-> p, pre |-> p]
    BY <1>5, <1>8, <2>1, <2>2, WalkIterRemove
  <2>4. h \in WalkIter /\ h.idx = x /\ h.max = z /\ h.cur = p /\ h.pre = p
    BY <1>3, <2>3 DEF WalkIter
  <2>5. IterLoose(h, S)
    BY <1>2, <2>2, <2>4 DEF IterLoose
  <2>6. PICK N : N = iter_remove_list(K, nx)
    OBVIOUS
  <2>7. iter_can_remove(nx)
    BY <1>2, <1>5, <1>8 DEF iter_can_remove
  <2>8. Loose(N, S) /\ EndIn(N, S) /\ N.len = z
    BY <1>1, <1>8, <1>9, <2>2, <2>6, <2>7, IterRemoveLoose
  <2>9. obj_put_step(r, M) = PutState(N, h, f)
    BY <1>1, <1>7, <1>8, <1>12, <2>1, <2>6, PutStepIs
  <2>10. h.max - h.idx = n - (j + 1) /\ h.max <= n
    BY <1>2, <2>2, <2>4
  <2> QED BY <1>1, <2>4, <2>5, <2>8, <2>9, <2>10 DEF PutLoosely
<1> QED BY <1>10, <1>11, <1>12

LEMMA PutLoose ==
  ASSUME NEW L, NEW S, Usual(L, S), NEW M
  PROVE  LET r == obj_put(L, M)
         IN  /\ Loose(r.L, S) /\ EndIn(r.L, S) /\ r.L.len <= L.len
             /\ r.first \in S \cup {Null}
<1>1. PICK n \in Nat : n = L.len
  BY UsualFacts
<1>2. PICK q : PutRun(L, M, n, q) /\ obj_put(L, M) = q[n]
  BY <1>1, PutRecursion
<1> DEFINE T == {j \in Nat : j <= n => PutLoosely(S, n, j, q[j])}
<1>3. 0 \in T
  <2>1. PICK c \in Node \cup {Null} : /\ c = IF L.len = 0 THEN Null ELSE L.ptr
                                      /\ n > 0 => c \in S
    BY <1>1, UsualFacts DEF Usual, Loose, RecordType
  <2>2. PICK it : it = [idx |-> 0, max |-> n, cur |-> c, pre |-> Null]
    OBVIOUS
  <2>3. it = iter_init(L)
    BY <1>1, <2>1, <2>2 DEF iter_init
  <2>4. it \in WalkIter /\ it.idx = 0 /\ it.max = n /\ it.cur = c
    BY <2>2 DEF WalkIter
  <2>5. IterLoose(it, S)
    BY <2>1, <2>4 DEF IterLoose
  <2>6. q[0] = PutState(L, it, Null)
    BY <1>2, <2>3 DEF PutRun
  <2>7. it.max <= n /\ it.max - it.idx = n - 0
    BY <2>4
  <2>8. PutLoosely(S, n, 0, q[0])
    BY <1>1, <2>4, <2>5, <2>6, <2>7 DEF PutLoosely, Usual
  <2> QED BY <2>8
<1>4. \A j \in T \cap Nat : j + 1 \in T
  <2> SUFFICES ASSUME NEW j \in Nat, j \in T, j + 1 <= n
               PROVE  PutLoosely(S, n, j + 1, q[j + 1])
    OBVIOUS
  <2>1. PutLoosely(S, n, j, q[j]) /\ j < n
    OBVIOUS
  <2>2. q[j + 1] = obj_put_step(q[j], M)
    <3>1. j + 1 \in 1 .. n /\ (j + 1) - 1 = j
      OBVIOUS
    <3> QED BY <1>2, <3>1 DEF PutRun
  <2> QED BY <2>1, <2>2, PutStepLoose
<1>5. PutLoosely(S, n, n, q[n])
  <2>1. n \in T
    <3> HIDE DEF T
    <3> QED BY <1>3, <1>4, NaturalInduction
  <2> QED BY <2>1
<1>6. PICK K, it, f :
        /\ q[n] = PutState(K, it, f)
        /\ Loose(K, S) /\ EndIn(K, S) /\ f \in S \cup {Null}
        /\ it.max = K.len /\ it.max <= n
  BY <1>5 DEF PutLoosely
<1>7. q[n].L = K /\ q[n].first = f
  BY <1>6 DEF PutState
<1> QED BY <1>1, <1>2, <1>6, <1>7

RemoveLoosely(S, n, j, r) ==
  \E K, p, k :
    /\ r = RemoveState(K, p, k)
    /\ Loose(K, S) /\ EndIn(K, S) /\ p \in S
    /\ k \in Nat /\ k <= j /\ K.len = n - (j - k)

LEMMA RemoveStepLoose ==
  ASSUME NEW S \in SUBSET Node, NEW n \in Nat, n <= Cardinality(S), NEW j \in Nat, j < n, NEW r,
         RemoveLoosely(S, n, j, r), NEW M
  PROVE  RemoveLoosely(S, n, j + 1, obj_remove_key_step(r, M))
<1>1. PICK K, p, k :
        /\ r = RemoveState(K, p, k)
        /\ Loose(K, S) /\ EndIn(K, S) /\ p \in S
        /\ k \in Nat /\ k <= j /\ K.len = n - (j - k)
  BY DEF RemoveLoosely
<1>2. PICK c \in S : c = K.next[p]
  BY <1>1 DEF Loose
<1>3. CASE c \notin M
  <2>1. obj_remove_key_step(r, M) = RemoveState(K, c, k + 1)
    BY <1>1, <1>2, <1>3, RemoveStepIs
  <2>2. k + 1 \in Nat /\ k + 1 <= j + 1 /\ K.len = n - ((j + 1) - (k + 1))
    BY <1>1
  <2> QED BY <1>1, <2>1, <2>2 DEF RemoveLoosely
<1>4. CASE c \in M
  <2>1. PICK tail \in BOOLEAN : tail = (k + 1 = K.len)
    OBVIOUS
  <2>2. PICK N : N = Unlink(K, p, 1, tail)
    OBVIOUS
  <2>3. obj_remove_key_step(r, M) = RemoveState(N, p, k)
    BY <1>1, <1>2, <1>4, <2>1, <2>2, RemoveStepIs
  <2>4. Usual(K, S) /\ 1 \in 0 .. K.len
    <3>1. K.len <= n /\ K.len \in Nat /\ K.len >= 1
      BY <1>1
    <3>2. Cardinality(S) \in Nat
      BY LinkedFacts
    <3> QED BY <1>1, <3>1, <3>2 DEF Usual
  <2>5. Loose(N, S) /\ EndIn(N, S) /\ N.len = K.len - 1
    BY <1>1, <2>2, <2>4, UnlinkLoose
  <2>6. k <= j + 1 /\ N.len = n - ((j + 1) - k)
    BY <1>1, <2>5
  <2> QED BY <1>1, <2>3, <2>5, <2>6 DEF RemoveLoosely
<1> QED BY <1>3, <1>4

LEMMA RemoveKeyLoose ==
  ASSUME NEW L, NEW S, Usual(L, S), L.len > 0, NEW M
  PROVE  LET K == obj_remove_key(L, M)
         IN  Loose(K, S) /\ EndIn(K, S) /\ K.len <= L.len
<1>1. PICK n \in Nat : n = L.len /\ L.ptr \in S /\ n <= Cardinality(S) /\ S \in SUBSET Node
  BY UsualFacts DEF Usual, Loose
<1>2. PICK q : RemoveRun(L, M, n, q) /\ obj_remove_key(L, M) = q[n].L
  BY <1>1, RemoveRecursion
<1> DEFINE T == {j \in Nat : j <= n => RemoveLoosely(S, n, j, q[j])}
<1>3. 0 \in T
  <2>1. q[0] = RemoveState(L, L.ptr, 0)
    BY <1>2 DEF RemoveRun
  <2>2. L.len = n - (0 - 0) /\ 0 \in Nat /\ 0 <= 0
    BY <1>1
  <2>3. RemoveLoosely(S, n, 0, q[0])
    BY <1>1, <2>1, <2>2 DEF RemoveLoosely, Usual
  <2> QED BY <2>3
<1>4. \A j \in T \cap Nat : j + 1 \in T
  <2> SUFFICES ASSUME NEW j \in Nat, j \in T, j + 1 <= n
               PROVE  RemoveLoosely(S, n, j + 1, q[j + 1])
    OBVIOUS
  <2>1. RemoveLoosely(S, n, j, q[j]) /\ j < n
    OBVIOUS
  <2>2. q[j + 1] = obj_remove_key_step(q[j], M)
    <3>1. j + 1 \in 1 .. n /\ (j + 1) - 1 = j
      OBVIOUS
    <3> QED BY <1>2, <3>1 DEF RemoveRun
  <2> QED BY <1>1, <2>1, <2>2, RemoveStepLoose
<1>5. RemoveLoosely(S, n, n, q[n])
  <2>1. n \in T
    <3> HIDE DEF T
    <3> QED BY <1>3, <1>4, NaturalInduction
  <2> QED BY <2>1
<1>6. PICK K, p, k :
        /\ q[n] = RemoveState(K, p, k)
        /\ Loose(K, S) /\ EndIn(K, S)
        /\ k \in Nat /\ k <= n /\ K.len = n - (n - k)
  BY <1>5 DEF RemoveLoosely
<1>7. q[n].L = K /\ K.len <= n
  BY <1>6 DEF RemoveState
<1> QED BY <1>1, <1>2, <1>6, <1>7

\* The ring of an object made of the pairs of s: just these are linked.
LEMMA MadeLoose ==
  ASSUME NEW s \in Seq(Node), IsInjective(s)
  PROVE  \E S \in SUBSET Node :
           LET L == append_all(EmptyList, s)
           IN  Loose(L, S) /\ EndIn(L, S) /\ L.len <= Cardinality(S)
<1>1. PICK n \in Nat : n = Len(s)
  OBVIOUS
<1>2. PICK E : E = EmptyList
  OBVIOUS
<1>3. PICK l : Appended(E, s, n, l) /\ append_all(E, s) = l[n]
  BY <1>1, AppendRecursion
<1>4. DOMAIN s = 1 .. n /\ \A k \in 1 .. n : s[k] \in Node
  BY <1>1
<1>5. \A j, k \in 1 .. n : s[j] = s[k] => j = k
  BY <1>4 DEF IsInjective
<1> DEFINE Made(j, S) == /\ Loose(l[j], S) /\ EndIn(l[j], S) /\ l[j].len = j
                         /\ Cardinality(S) = j /\ S = {s[k] : k \in 1 .. j}
           T == {j \in Nat : j <= n => \E S \in SUBSET Node : Made(j, S)}
<1>6. 0 \in T
  <2>1. l[0] = [next |-> [m \in Node |-> Null], ptr |-> Null, len |-> 0]
    BY <1>2, <1>3 DEF Appended, EmptyList
  <2>2. PICK K : K = l[0] /\ K.next = [m \in Node |-> Null] /\ K.len = 0 /\ K \in RecordType
    BY <2>1 DEF RecordType
  <2>3. Loose(K, {}) /\ EndIn(K, {})
    BY <2>2 DEF Loose, EndIn
  <2>4. Cardinality({}) = 0 /\ {} = {s[k] : k \in 1 .. 0}
    BY FS_EmptySet
  <2>5. Made(0, {})
    BY <2>2, <2>3, <2>4
  <2> QED BY <2>5
<1>7. \A j \in T \cap Nat : j + 1 \in T
  <2> SUFFICES ASSUME NEW j \in Nat, j \in T, j + 1 <= n
               PROVE  \E S \in SUBSET Node : Made(j + 1, S)
    OBVIOUS
  <2>1. PICK S \in SUBSET Node : Made(j, S)
    OBVIOUS
  <2>2. PICK h \in 1 .. n : h = j + 1 /\ h - 1 = j
    OBVIOUS
  <2>3. PICK v \in Node : v = s[h]
    BY <1>4
  <2>4. v \notin S
    <3>1. \A k \in 1 .. j : k \in 1 .. n /\ k # h
      BY <2>2
    <3>2. \A k \in 1 .. j : s[k] # v
      BY <1>5, <2>3, <3>1
    <3> QED BY <2>1, <3>2
  <2>5. PICK K : K = l[j] /\ Loose(K, S) /\ EndIn(K, S) /\ K.len = j /\ Cardinality(S) = j
    BY <2>1
  <2>6. l[h] = arr_insert(K, v, j)
    BY <1>3, <2>2, <2>3, <2>5 DEF Appended, arr_append
  <2>7. j \in 0 .. K.len /\ (K.len > 0 => S # {})
    BY <2>5, LinkedFacts
  <2>8. PICK N : N = l[h] /\ N = arr_insert(K, v, j)
    BY <2>6
  <2>9. Loose(N, S \cup {v}) /\ EndIn(N, S \cup {v}) /\ N.len = j + 1
    <3>1. Loose(K, S) /\ EndIn(K, S) /\ (K.len > 0 => S # {}) /\ j \in 0 .. K.len
      BY <2>5, <2>7
    <3>2. N = arr_insert(K, v, j)
      BY <2>8
    <3>3. N.len = K.len + 1 /\ Loose(N, S \cup {v}) /\ EndIn(N, S \cup {v})
      <4> HIDE DEF T, Made
      <4> QED BY <3>1, <3>2, InsertLoose
    <3> QED BY <2>5, <3>3
  <2>10. Cardinality(S \cup {v}) = j + 1
    BY <2>4, <2>5, LinkedFacts
  <2>11. S \cup {v} = {s[k] : k \in 1 .. h}
    <3>1. \A k \in 1 .. h : k \in 1 .. j \/ k = h
      BY <2>2
    <3>2. \A k \in 1 .. j : k \in 1 .. h
      BY <2>2
    <3>3. h \in 1 .. h
      BY <2>2
    <3>4. S = {s[k] : k \in 1 .. j}
      BY <2>1
    <3> QED BY <2>3, <3>1, <3>2, <3>3, <3>4
  <2>12. Made(j + 1, S \cup {v})
    BY <2>2, <2>8, <2>9, <2>10, <2>11
  <2>13. S \cup {v} \in SUBSET Node
    OBVIOUS
  <2> HIDE DEF Made
  <2> QED BY <2>12, <2>13
<1>8. \E S \in SUBSET Node : Made(n, S)
  <2>1. n \in T
    <3> HIDE DEF T
    <3> QED BY <1>6, <1>7, NaturalInduction
  <2> HIDE DEF Made
  <2> QED BY <2>1
<1>9. PICK S \in SUBSET Node : Loose(l[n], S) /\ EndIn(l[n], S) /\ l[n].len = n /\ Cardinality(S) = n
  BY <1>8
<1> QED BY <1>2, <1>3, <1>9

\* Lengths never exceed the number of pairs ever linked, and as long as the
\* value is an object the end of its ring is one of these.
ObjectLoose ==
  /\ Loose(obj, Linked)
  /\ isObj => EndIn(obj, Linked)
  /\ obj.len <= Cardinality(Linked)

\* An iterator may be followed along the ring, and to the pair Value speaks of.
MayFollow(it, S) ==
  /\ it \in IterType
  /\ IterLoose(it, S)
  /\ it.max <= Cardinality(S)
  /\ it.m_currentKey \in S \cup {Null}

Followable ==
  /\ ObjectLoose
  /\ isObj \in BOOLEAN
  /\ key \in [Node -> Key]
  /\ val \in [Node -> Value]
  /\ iter \in [Iter -> IterType \cup {Closed}]
  /\ \A i \in Iter : IsOpen(i) => MayFollow(iter[i], Linked)
  /\ intact \in [Iter -> BOOLEAN]
  /\ current \in [Iter -> Node \cup {Null, Void}]
  /\ careful \in BOOLEAN

LEMMA LinkedIs == ASSUME NEW S, Loose(obj, S) PROVE Linked = S
BY DEF Loose, Linked, Fresh

LEMMA LinkedNextIs == ASSUME NEW S, Loose(obj', S) PROVE Linked' = S
BY DEF Loose, Linked, Fresh

LEMMA ObjectFacts ==
  ASSUME ObjectLoose
  PROVE  /\ Linked \in SUBSET Node
         /\ isObj => Usual(obj, Linked)
         /\ obj.len \in Nat /\ obj.len <= Cardinality(Node) /\ obj \in ListType
         /\ Cardinality(Linked) \in Nat /\ Cardinality(Linked) <= Cardinality(Node)
         /\ Cardinality(Node) \in Nat /\ Cardinality(Node) < SizeMax /\ SizeMax \in Nat
         /\ \A v \in Fresh : /\ v \in Node \ Linked
                             /\ Cardinality(Linked \cup {v}) = Cardinality(Linked) + 1
         /\ obj.len > 0 => Linked # {}
<1>1. Linked \in SUBSET Node
  BY DEF Linked
<1>2. /\ Cardinality(Linked) \in Nat /\ Cardinality(Linked) <= Cardinality(Node)
      /\ Cardinality(Node) \in Nat /\ Cardinality(Node) < SizeMax /\ SizeMax \in Nat
      /\ \A v \in Node \ Linked : Cardinality(Linked \cup {v}) = Cardinality(Linked) + 1
      /\ Cardinality(Linked) > 0 => Linked # {}
  BY <1>1, LinkedFacts
<1>3. obj \in RecordType /\ obj.len \in Nat /\ obj.len <= Cardinality(Linked)
  BY DEF ObjectLoose, Loose, RecordType
<1>4. obj.len \in Count
  BY <1>2, <1>3 DEF Count
<1>5. obj \in ListType
  BY <1>3, <1>4 DEF RecordType, ListType
<1>6. \A v \in Fresh : v \in Node \ Linked
  BY DEF Linked, Fresh
<1>7. isObj => Usual(obj, Linked)
  BY DEF ObjectLoose, Usual
<1> QED BY <1>1, <1>2, <1>3, <1>5, <1>6, <1>7

\* What an iterator keeps stays good when more pairs have been linked.
LEMMA MayFollowGrows ==
  ASSUME NEW it, NEW S \in SUBSET Node, NEW T \in SUBSET Node, S \subseteq T, MayFollow(it, S)
  PROVE  MayFollow(it, T)
<1>1. IsFiniteSet(T)
  BY LinkedFacts
<1>2. Cardinality(S) <= Cardinality(T) /\ Cardinality(S) \in Nat /\ Cardinality(T) \in Nat
  BY <1>1, FS_Subset, FS_CardinalityType
<1>3. it.max \in Nat
  BY DEF MayFollow, IterLoose
<1> QED BY <1>2, <1>3 DEF MayFollow, IterLoose

LEMMA OvertakeTypes ==
  ASSUME Followable, NEW is, Overtake(is)
  PROVE  /\ intact' \in [Iter -> BOOLEAN]
         /\ current' \in [Iter -> Node \cup {Null, Void}]
<1>1. intact' = [i \in Iter |-> intact[i] /\ i \notin is]
  BY DEF Overtake
<1>2. \A i \in Iter : (intact[i] /\ i \notin is) \in BOOLEAN
  OBVIOUS
<1>3. intact' \in [Iter -> BOOLEAN]
  BY <1>1, <1>2, Zenon
<1>4. current' \in [Iter -> Node \cup {Null, Void}]
  BY DEF Followable, Overtake
<1> QED BY <1>3, <1>4

\* A call through a handle that leaves the object as L.
LEMMA PutFollowable ==
  ASSUME Followable, NEW L, Put(L), NEW T \in SUBSET Node, Linked \subseteq T,
         Loose(L, T), EndIn(L, T), L.len <= Cardinality(T),
         key' \in [Node -> Key], val' \in [Node -> Value]
  PROVE  Followable'
<1>1. obj' = L /\ isObj /\ isObj' = isObj /\ iter' = iter /\ careful' = careful
  BY DEF Put
<1>2. Linked' = T
  BY <1>1, LinkedNextIs
<1>3. ObjectLoose'
  BY <1>1, <1>2 DEF ObjectLoose
<1>4. ASSUME NEW i \in Iter, IsOpen(i)' PROVE MayFollow(iter[i], Linked)'
  <2>1. MayFollow(iter[i], Linked)
    BY <1>1, <1>4 DEF Followable, IsOpen
  <2>2. Linked \in SUBSET Node
    BY DEF Linked
  <2>3. MayFollow(iter[i], T)
    BY <2>1, <2>2, MayFollowGrows
  <2> QED BY <1>1, <1>2, <2>3
<1>5. intact' \in [Iter -> BOOLEAN] /\ current' \in [Iter -> Node \cup {Null, Void}]
  BY OvertakeTypes DEF Put
<1> QED BY <1>1, <1>3, <1>4, <1>5 DEF Followable

\* A call that links no new pair.
LEMMA SameFollowable ==
  ASSUME Followable, NEW L, Put(L), Loose(L, Linked), EndIn(L, Linked), L.len <= obj.len,
         key' \in [Node -> Key], val' \in [Node -> Value]
  PROVE  Followable'
<1>1. ObjectLoose
  BY DEF Followable
<1>2. L.len \in Nat
  BY DEF Loose, RecordType
<1>3. L.len <= Cardinality(Linked) /\ Linked \in SUBSET Node
  BY <1>1, <1>2, ObjectFacts DEF ObjectLoose
<1> QED BY <1>3, PutFollowable

LEMMA AppendFollowable ==
  ASSUME Followable, NEW v \in Fresh, Put(arr_append(obj, v)),
         key' \in [Node -> Key], val' \in [Node -> Value]
  PROVE  Followable'
<1>1. isObj /\ ObjectLoose
  BY DEF Put, Followable
<1>2. Usual(obj, Linked) /\ v \in Node /\ obj.len \in Nat /\ obj.len <= Cardinality(Linked)
      /\ Cardinality(Linked \cup {v}) = Cardinality(Linked) + 1 /\ Cardinality(Linked) \in Nat
      /\ (obj.len > 0 => Linked # {}) /\ Linked \in SUBSET Node
  BY <1>1, ObjectFacts DEF ObjectLoose
<1>3. PICK L, i : L = arr_insert(obj, v, i) /\ i = obj.len /\ i \in 0 .. obj.len /\ Put(L)
  BY <1>2 DEF arr_append
<1>4. Loose(L, Linked \cup {v}) /\ EndIn(L, Linked \cup {v}) /\ L.len = obj.len + 1
  BY <1>2, <1>3, InsertLoose DEF Usual
<1>5. PICK T : T = Linked \cup {v} /\ T \in SUBSET Node /\ Linked \subseteq T /\ L.len <= Cardinality(T)
  BY <1>2, <1>4
<1> QED BY <1>3, <1>4, <1>5, PutFollowable

LEMMA ElementsAreLinked ==
  ASSUME ObjectLoose, isObj
  PROVE  Elements(obj) \in Seq(Linked) /\ Len(Elements(obj)) = obj.len
<1>1. Loose(obj, Linked) /\ obj.len \in Nat /\ (obj.len > 0 => obj.ptr \in Linked)
  BY ObjectFacts, UsualFacts DEF ObjectLoose
<1>2. \A k \in 1 .. obj.len : Walk(obj, obj.ptr, k) \in Linked
  BY <1>1, LooseWalk
<1> QED BY <1>1, <1>2 DEF Elements

LEMMA SortedLoose ==
  ASSUME ObjectLoose, isObj, NEW p \in Orders(obj_size)
  PROVE  LET L == append_all(arr_clear(obj), [k \in 1 .. obj_size |-> Elements(obj)[p[k]]])
         IN  Loose(L, Linked) /\ EndIn(L, Linked) /\ L.len <= obj.len
<1>1. obj_size = obj.len /\ obj.len \in Nat
  BY ObjectFacts DEF obj_size
<1>2. PICK s : s = [k \in 1 .. obj_size |-> Elements(obj)[p[k]]]
  OBVIOUS
<1>3. p \in [1 .. obj.len -> 1 .. obj.len]
  BY <1>1 DEF Orders, Bijection, Injection, Surjection
<1>4. s \in Seq(Linked) /\ Len(s) = obj.len
  <2>1. \A k \in 1 .. obj.len : Elements(obj)[p[k]] \in Linked
    BY <1>1, <1>3, ElementsAreLinked
  <2> QED BY <1>1, <1>2, <2>1
<1>5. PICK K : K = arr_clear(obj)
  OBVIOUS
<1>6. Loose(K, Linked) /\ EndIn(K, Linked) /\ K.len = 0
  BY <1>5, ClearLoose DEF ObjectLoose
<1>7. PICK L : L = append_all(K, s)
  OBVIOUS
<1>8. Loose(L, Linked) /\ EndIn(L, Linked) /\ L.len = Len(s)
  BY <1>4, <1>6, <1>7, AppendAllLoose
<1> QED BY <1>1, <1>2, <1>4, <1>5, <1>7, <1>8

LEMMA HandleFollowable ==
  ASSUME Followable, HandleCall
  PROVE  Followable'
<1>0. /\ ObjectLoose /\ obj.len \in Nat /\ (isObj => Usual(obj, Linked))
      /\ (isObj => obj_size = obj.len) /\ (~isObj => obj_size = 0)
      /\ key \in [Node -> Key] /\ val \in [Node -> Value]
  BY ObjectFacts DEF Followable, obj_size
<1>1. ASSUME NEW k \in Key, NEW x \in Value, ObjectSet(k, x) PROVE Followable'
  <2>1. PICK r : r = obj_put(obj, Named(k))
    OBVIOUS
  <2>2. isObj /\ Loose(r.L, Linked) /\ EndIn(r.L, Linked) /\ r.L.len <= obj.len
    BY <1>0, <1>1, <2>1, PutLoose DEF ObjectSet
  <2>3. CASE r.first # Null
    <3>1. Put(r.L) /\ key' = key /\ val' = [val EXCEPT ![r.first] = x]
      BY <1>1, <2>1, <2>3 DEF ObjectSet
    <3> QED BY <1>0, <2>2, <3>1, SameFollowable
  <2>4. CASE r.first = Null
    <3>1. PICK n \in Fresh : /\ Put(arr_append(obj, n))
                             /\ key' = [key EXCEPT ![n] = k]
                             /\ val' = [val EXCEPT ![n] = x]
      BY <1>1, <2>1, <2>4 DEF ObjectSet
    <3> QED BY <1>0, <3>1, AppendFollowable
  <2> QED BY <2>3, <2>4
<1>2. ASSUME NEW k \in Key, ObjectRemove(k) PROVE Followable'
  <2>1. PICK L : L = obj_remove_key(obj, Named(k))
    OBVIOUS
  <2>2. Put(L) /\ isObj /\ key' = key /\ val' = val /\ Pairs \cap Named(k) # {}
    BY <1>2, <2>1 DEF ObjectRemove, Has, Put
  <2>3. obj.len > 0
    <3>1. PICK s : s = Elements(obj)
      OBVIOUS
    <3>2. s = [j \in 1 .. obj.len |-> Walk(obj, obj.ptr, j)] /\ ToSet(s) # {}
      BY <2>2, <3>1 DEF Elements, Pairs
    <3>3. DOMAIN s # {} /\ DOMAIN s = 1 .. obj.len
      BY <3>2 DEF ToSet
    <3> QED BY <1>0, <3>3
  <2>4. Loose(L, Linked) /\ EndIn(L, Linked) /\ L.len <= obj.len
    BY <1>0, <2>1, <2>2, <2>3, RemoveKeyLoose
  <2> QED BY <1>0, <2>2, <2>4, SameFollowable
<1>3. ASSUME NEW k \in Key, NEW l \in Key, NEW dup \in BOOLEAN, ObjectRenameKey(k, l, dup)
      PROVE  Followable'
  <2>1. Put(obj) /\ isObj /\ val' = val
        /\ key' = [n \in Node |-> IF n \in Pairs /\ key[n] = k THEN l ELSE key[n]]
    BY <1>3 DEF ObjectRenameKey, Put
  <2>2. key' \in [Node -> Key]
    BY <1>0, <2>1
  <2>3. Loose(obj, Linked) /\ EndIn(obj, Linked) /\ obj.len <= obj.len
    BY <1>0, <2>1 DEF ObjectLoose
  <2> QED BY <1>0, <2>1, <2>2, <2>3, SameFollowable
<1>4. ASSUME ObjectClear PROVE Followable'
  <2>1. PICK L : L = arr_clear(obj)
    OBVIOUS
  <2>2. isObj /\ Put(L) /\ key' = key /\ val' = val
    BY <1>4, <2>1 DEF ObjectClear, Put
  <2>3. Loose(L, Linked) /\ EndIn(L, Linked) /\ L.len = 0
    BY <1>0, <2>1, <2>2, ClearLoose DEF Usual
  <2> QED BY <1>0, <2>2, <2>3, SameFollowable
<1>5. ASSUME NEW i \in Size, ObjectRotate(i) PROVE Followable'
  <2>1. PICK L : L = arr_rotate(obj, i)
    OBVIOUS
  <2>2. isObj /\ Put(L) /\ key' = key /\ val' = val /\ i < obj_size
    BY <1>5, <2>1 DEF ObjectRotate, Put
  <2>3. i \in 0 .. obj.len - 1
    BY <1>0, <2>2 DEF Size
  <2>4. Loose(L, Linked) /\ EndIn(L, Linked) /\ L.len = obj.len
    BY <1>0, <2>1, <2>2, <2>3, RotateLoose
  <2> QED BY <1>0, <2>2, <2>4, SameFollowable
<1>6. ASSUME NEW p \in Orders(obj_size), ObjectSort(p) PROVE Followable'
  <2>1. PICK L : L = append_all(arr_clear(obj), [k \in 1 .. obj_size |-> Elements(obj)[p[k]]])
    OBVIOUS
  <2>2. Put(L) /\ isObj /\ key' = key /\ val' = val
    BY <1>6, <2>1 DEF ObjectSort, Put
  <2>3. Loose(L, Linked) /\ EndIn(L, Linked) /\ L.len <= obj.len
    BY <1>0, <2>1, <2>2, SortedLoose
  <2> QED BY <1>0, <2>2, <2>3, SameFollowable
<1>7. ASSUME SetScalar PROVE Followable'
  <2>1. obj \in RecordType
    BY <1>0 DEF ObjectLoose, Loose
  <2>2. /\ obj' = [obj EXCEPT !.ptr = Null, !.len = 0] /\ isObj' = FALSE
        /\ iter' = iter /\ careful' = careful /\ key' = key /\ val' = val /\ Overtake(Iter)
    BY <1>7 DEF SetScalar
  <2>3. obj'.next = obj.next /\ obj'.len = 0 /\ obj' \in RecordType
    BY <2>1, <2>2 DEF RecordType
  <2>4. Loose(obj', Linked)
    BY <1>0, <2>3 DEF ObjectLoose, Loose
  <2>5. Linked' = Linked
    BY <2>4, LinkedNextIs
  <2>6. Cardinality(Linked) \in Nat
    BY <1>0, ObjectFacts
  <2>7. ObjectLoose'
    BY <2>2, <2>3, <2>4, <2>5, <2>6 DEF ObjectLoose
  <2>8. \A i \in Iter : IsOpen(i)' => MayFollow(iter[i], Linked)'
    BY <2>2, <2>5 DEF Followable, IsOpen
  <2>9. intact' \in [Iter -> BOOLEAN] /\ current' \in [Iter -> Node \cup {Null, Void}]
    BY <2>2, OvertakeTypes
  <2> QED BY <1>0, <2>2, <2>7, <2>8, <2>9 DEF Followable
<1> QED BY <1>1, <1>2, <1>3, <1>4, <1>5, <1>6, <1>7 DEF HandleCall

-----------------------------------------------------------------------------
(* Calls on an iterator *)

\* The fields of an iterator.
Iterator(b, q, x, m, c, p) ==
  [m_initialized |-> b, m_currentKey |-> q, idx |-> x, max |-> m, cur |-> c, pre |-> p]

LEMMA IteratorIs ==
  ASSUME NEW it \in IterType
  PROVE  /\ it = Iterator(it.m_initialized, it.m_currentKey, it.idx, it.max, it.cur, it.pre)
         /\ it.m_initialized \in BOOLEAN /\ it.m_currentKey \in Node \cup {Null}
         /\ it.idx \in Nat /\ it.max \in Nat
         /\ it.cur \in Node \cup {Null} /\ it.pre \in Node \cup {Null}
BY NodeAssumption, FS_CardinalityType DEF IterType, Iterator, Count

LEMMA IteratorType ==
  ASSUME NEW b \in BOOLEAN, NEW q \in Node \cup {Null}, NEW x \in Nat, NEW m \in Nat,
         NEW c \in Node \cup {Null}, NEW p \in Node \cup {Null},
         x <= m, m <= Cardinality(Node)
  PROVE  Iterator(b, q, x, m, c, p) \in IterType
<1>1. x \in Count /\ m \in Count
  BY NodeAssumption, FS_CardinalityType DEF Count
<1> QED BY <1>1 DEF Iterator, IterType

LEMMA OpenedIs ==
  Opened = Iterator(TRUE, Null, 0, obj.len, IF obj.len = 0 THEN Null ELSE obj.ptr, Null)
BY DEF Opened, iter_init, Iterator

LEMMA NextIs ==
  ASSUME NEW it \in IterType, NEW L
  PROVE  iter_next(L, it) = Iterator(it.m_initialized, it.m_currentKey, it.idx + 1, it.max,
                                     L.next[it.cur], it.cur)
<1>0. PICK b, q, x, m, c, p :
        /\ it = Iterator(b, q, x, m, c, p)
        /\ b = it.m_initialized /\ q = it.m_currentKey /\ x = it.idx /\ m = it.max
        /\ c = it.cur /\ p = it.pre
  BY IteratorIs
<1>1. PICK y, d : y = x + 1 /\ d = L.next[c]
  OBVIOUS
<1>3. iter_next(L, it) = [it EXCEPT !.idx = y, !.pre = c, !.cur = d]
  BY <1>0, <1>1, Zenon DEF iter_next
<1>4. PICK one : one = [it EXCEPT !.idx = y]
  OBVIOUS
<1>5. one = Iterator(b, q, y, m, c, p)
  BY <1>0, <1>4 DEF Iterator
<1>6. PICK two : two = [one EXCEPT !.pre = c]
  OBVIOUS
<1>7. two = Iterator(b, q, y, m, c, c)
  BY <1>5, <1>6 DEF Iterator
<1>8. [two EXCEPT !.cur = d] = Iterator(b, q, y, m, d, c)
  BY <1>7 DEF Iterator
<1>9. [it EXCEPT !.idx = y, !.pre = c, !.cur = d]
        = [[[it EXCEPT !.idx = y] EXCEPT !.pre = c] EXCEPT !.cur = d]
  OBVIOUS
<1>10. iter_next(L, it) = Iterator(b, q, y, m, d, c)
  BY <1>3, <1>4, <1>6, <1>8, <1>9
<1> QED BY <1>0, <1>1, <1>10, Zenon

LEMMA RemovedIs ==
  ASSUME NEW it \in IterType
  PROVE  iter_remove_iter(it) = Iterator(it.m_initialized, it.m_currentKey, it.idx - 1,
                                         it.max - 1, it.pre, it.pre)
<1>0. PICK b, q, x, m, c, p :
        /\ it = Iterator(b, q, x, m, c, p)
        /\ b = it.m_initialized /\ q = it.m_currentKey /\ x = it.idx /\ m = it.max
        /\ c = it.cur /\ p = it.pre
  BY IteratorIs
<1>1. PICK y, n : y = x - 1 /\ n = m - 1
  OBVIOUS
<1>3. iter_remove_iter(it) = [it EXCEPT !.idx = y, !.max = n, !.cur = p]
  BY <1>0, <1>1, Zenon DEF iter_remove_iter
<1>4. PICK one : one = [it EXCEPT !.idx = y]
  OBVIOUS
<1>5. one = Iterator(b, q, y, m, c, p)
  BY <1>0, <1>4 DEF Iterator
<1>6. PICK two : two = [one EXCEPT !.max = n]
  OBVIOUS
<1>7. two = Iterator(b, q, y, n, c, p)
  BY <1>5, <1>6 DEF Iterator
<1>8. [two EXCEPT !.cur = p] = Iterator(b, q, y, n, p, p)
  BY <1>7 DEF Iterator
<1>9. [it EXCEPT !.idx = y, !.max = n, !.cur = p]
        = [[[it EXCEPT !.idx = y] EXCEPT !.max = n] EXCEPT !.cur = p]
  OBVIOUS
<1>10. iter_remove_iter(it) = Iterator(b, q, y, n, p, p)
  BY <1>3, <1>4, <1>6, <1>8, <1>9
<1> QED BY <1>0, <1>1, <1>10, Zenon

LEMMA SoughtIs ==
  ASSUME NEW it \in IterType, NEW L, NEW n
  PROVE  iter_seek(L, it, n)
           = Iterator(it.m_initialized, it.m_currentKey,
                      IF it.idx + n > it.max THEN it.idx + n - (it.max + 1) ELSE it.idx + n,
                      it.max, Walk(L, it.cur, n), Walk(L, it.cur, n - 1))
<1>0. PICK b, q, x, m, c, p :
        /\ it = Iterator(b, q, x, m, c, p)
        /\ b = it.m_initialized /\ q = it.m_currentKey /\ x = it.idx /\ m = it.max
        /\ c = it.cur /\ p = it.pre
  BY IteratorIs
<1>1. PICK y, d, e : /\ y = IF x + n > m THEN x + n - (m + 1) ELSE x + n
                     /\ d = Walk(L, c, n) /\ e = Walk(L, c, n - 1)
  OBVIOUS
<1>3. iter_seek(L, it, n) = [it EXCEPT !.idx = y, !.pre = e, !.cur = d]
  BY <1>0, <1>1, Zenon DEF iter_seek
<1>4. PICK one : one = [it EXCEPT !.idx = y]
  OBVIOUS
<1>5. one = Iterator(b, q, y, m, c, p)
  BY <1>0, <1>4 DEF Iterator
<1>6. PICK two : two = [one EXCEPT !.pre = e]
  OBVIOUS
<1>7. two = Iterator(b, q, y, m, c, e)
  BY <1>5, <1>6 DEF Iterator
<1>8. [two EXCEPT !.cur = d] = Iterator(b, q, y, m, d, e)
  BY <1>7 DEF Iterator
<1>9. [it EXCEPT !.idx = y, !.pre = e, !.cur = d]
        = [[[it EXCEPT !.idx = y] EXCEPT !.pre = e] EXCEPT !.cur = d]
  OBVIOUS
<1>10. iter_seek(L, it, n) = Iterator(b, q, y, m, d, e)
  BY <1>3, <1>4, <1>6, <1>8, <1>9
<1> QED BY <1>0, <1>1, <1>10, Zenon

\* The key that Get stops at is one of the max next ones.
LEMMA FindFacts ==
  ASSUME NEW L, NEW it, it.max \in Nat, NEW M, NEW n, n = iter_find(L, it, M)
  PROVE  /\ n \in 0 .. it.max
         /\ n # 0 => Walk(L, it.cur, n) \in M
         /\ n = 0 => \A j \in 1 .. it.max : Walk(L, it.cur, j) \notin M
<1> DEFINE hits == {j \in 1 .. it.max : Walk(L, it.cur, j) \in M}
<1>1. n = IF hits = {} THEN 0 ELSE Min(hits)
  BY DEF iter_find
<1>2. CASE hits = {}
  BY <1>1, <1>2
<1>3. CASE hits # {}
  <2>1. hits \in SUBSET Nat
    OBVIOUS
  <2>2. \E m \in hits : \A k \in hits : m <= k
    <3> HIDE DEF hits
    <3> QED BY <1>3, <2>1, LeastNatural
  <2>3. n \in hits
    <3> HIDE DEF hits
    <3> QED BY <1>1, <1>3, <2>2 DEF Min
  <2>4. n # 0 /\ n \in 1 .. it.max
    BY <2>3
  <2> QED BY <2>3, <2>4
<1> QED BY <1>2, <1>3

LEMMA OpenedFollows ==
  ASSUME ObjectLoose, isObj
  PROVE  MayFollow(Opened, Linked)
<1>1. /\ obj.len \in Nat /\ (obj.len > 0 => obj.ptr \in Linked) /\ Linked \in SUBSET Node
      /\ obj.len <= Cardinality(Linked) /\ obj.len <= Cardinality(Node)
  BY ObjectFacts, UsualFacts DEF ObjectLoose
<1>2. PICK c \in Node \cup {Null} : /\ c = IF obj.len = 0 THEN Null ELSE obj.ptr
                                    /\ obj.len > 0 => c \in Linked
  BY <1>1
<1>3. PICK it : it = Opened
  OBVIOUS
<1>4. it = Iterator(TRUE, Null, 0, obj.len, c, Null)
  BY <1>2, <1>3, OpenedIs
<1>5. it.idx = 0 /\ it.max = obj.len /\ it.cur = c /\ it.m_currentKey = Null
  BY <1>4 DEF Iterator
<1>6. it \in IterType
  <2>1. 0 \in Nat /\ 0 <= obj.len /\ TRUE \in BOOLEAN /\ Null \in Node \cup {Null}
    BY <1>1
  <2> QED BY <1>1, <1>2, <1>4, <2>1, IteratorType
<1>7. IterLoose(it, Linked)
  BY <1>1, <1>2, <1>5 DEF IterLoose
<1>8. it.max <= Cardinality(Linked) /\ it.m_currentKey \in Linked \cup {Null}
  BY <1>1, <1>5
<1>9. MayFollow(it, Linked)
  BY <1>6, <1>7, <1>8 DEF MayFollow
<1> QED BY <1>3, <1>9

\* The iterator after Next, after Get, after Remove, and when its object is gone.
LEMMA FollowsIs ==
  ASSUME NEW S \in SUBSET Node, NEW was, MayFollow(was, S)
  PROVE  /\ was \in IterType
         /\ was.m_initialized \in BOOLEAN /\ was.m_currentKey \in Node \cup {Null}
         /\ was.m_currentKey \in S \cup {Null}
         /\ was.idx \in Nat /\ was.max \in Nat /\ was.idx <= was.max
         /\ was.max <= Cardinality(S) /\ was.max <= Cardinality(Node)
         /\ (was.max > 0 => was.cur \in S) /\ (was.idx > 0 => was.pre \in S)
         /\ was.cur \in Node \cup {Null} /\ was.pre \in Node \cup {Null}
<1>1. was \in IterType /\ IterLoose(was, S) /\ was.max <= Cardinality(S)
      /\ was.m_currentKey \in S \cup {Null}
  BY DEF MayFollow
<1>2. Cardinality(S) \in Nat /\ Cardinality(Node) \in Nat /\ Cardinality(S) <= Cardinality(Node)
  BY LinkedFacts
<1>3. was.m_initialized \in BOOLEAN /\ was.cur \in Node \cup {Null} /\ was.pre \in Node \cup {Null}
  BY <1>1 DEF IterType
<1> QED BY <1>1, <1>2, <1>3 DEF IterLoose

LEMMA FollowsThen ==
  ASSUME NEW S \in SUBSET Node, NEW b \in BOOLEAN, NEW q \in S \cup {Null}, NEW x \in Nat,
         NEW m \in Nat, NEW c \in S, NEW p \in S, NEW it, it = Iterator(b, q, x, m, c, p),
         x <= m, m <= Cardinality(S)
  PROVE  MayFollow(it, S)
<1>1. Cardinality(S) \in Nat /\ Cardinality(Node) \in Nat /\ Cardinality(S) <= Cardinality(Node)
  BY LinkedFacts
<1>2. x \in Count /\ m \in Count
  BY <1>1 DEF Count
<1>3. it \in IterType
  BY <1>2 DEF Iterator, IterType
<1>4. it.idx = x /\ it.max = m /\ it.cur = c /\ it.pre = p /\ it.m_currentKey = q
  BY DEF Iterator
<1> QED BY <1>3, <1>4 DEF MayFollow, IterLoose

LEMMA NextFollows ==
  ASSUME ObjectLoose, NEW was, MayFollow(was, Linked), iter_has_next(was),
         NEW it, it = [iter_next(obj, was) EXCEPT !.m_currentKey = iter_next(obj, was).cur]
  PROVE  /\ MayFollow(it, Linked)
         /\ it = Iterator(was.m_initialized, obj.next[was.cur], was.idx + 1, was.max,
                          obj.next[was.cur], was.cur)
         /\ iter_next(obj, was).cur = obj.next[was.cur] /\ obj.next[was.cur] \in Linked
<1>1. Linked \in SUBSET Node
  BY ObjectFacts
<1>2. /\ was \in IterType /\ was.m_initialized \in BOOLEAN
      /\ was.idx \in Nat /\ was.max \in Nat /\ was.max <= Cardinality(Linked)
      /\ (was.max > 0 => was.cur \in Linked)
  BY <1>1, FollowsIs
<1>3. was.idx < was.max
  BY DEF iter_has_next
<1>4. was.cur \in Linked /\ was.idx + 1 \in Nat /\ was.idx + 1 <= was.max
  BY <1>2, <1>3
<1>5. obj.next[was.cur] \in Linked
  BY <1>4 DEF ObjectLoose, Loose
<1>6. PICK b, q, x, m, d, c :
        /\ b = was.m_initialized /\ q = was.m_currentKey /\ x = was.idx + 1 /\ m = was.max
        /\ d = obj.next[was.cur] /\ c = was.cur
  OBVIOUS
<1>7. PICK one : one = iter_next(obj, was)
  OBVIOUS
<1>8. iter_next(obj, was) = Iterator(b, q, x, m, d, c)
  <2>1. iter_next(obj, was) = Iterator(was.m_initialized, was.m_currentKey, was.idx + 1, was.max,
                                       obj.next[was.cur], was.cur)
    BY <1>2, NextIs
  <2> QED BY <1>6, <2>1, Zenon
<1>9. one = Iterator(b, q, x, m, d, c)
  BY <1>7, <1>8
<1>10. one.cur = d
  BY <1>9 DEF Iterator
<1>11. it = [one EXCEPT !.m_currentKey = d]
  BY <1>7, <1>10
<1>12. it = Iterator(b, d, x, m, d, c)
  BY <1>9, <1>11 DEF Iterator
<1>13. /\ b \in BOOLEAN /\ d \in Linked \cup {Null} /\ x \in Nat /\ m \in Nat /\ d \in Linked
       /\ c \in Linked /\ x <= m /\ m <= Cardinality(Linked)
  BY <1>2, <1>4, <1>5, <1>6
<1>14. MayFollow(it, Linked)
  BY <1>1, <1>12, <1>13, FollowsThen
<1> QED BY <1>5, <1>6, <1>7, <1>10, <1>12, <1>14

LEMMA SoughtFollows ==
  ASSUME ObjectLoose, NEW was, MayFollow(was, Linked), NEW n \in 1 .. was.max,
         NEW it, it = iter_seek(obj, was, n)
  PROVE  /\ MayFollow(it, Linked)
         /\ it.max = was.max /\ it.cur = Walk(obj, was.cur, n)
<1>1. Linked \in SUBSET Node
  BY ObjectFacts
<1>2. /\ was \in IterType /\ was.m_initialized \in BOOLEAN
      /\ was.m_currentKey \in Linked \cup {Null}
      /\ was.idx \in Nat /\ was.max \in Nat /\ was.idx <= was.max
      /\ was.max <= Cardinality(Linked)
      /\ (was.max > 0 => was.cur \in Linked)
  BY <1>1, FollowsIs
<1>3. n \in Nat /\ n - 1 \in Nat /\ n <= was.max /\ was.cur \in Linked
  BY <1>2
<1>4. Walk(obj, was.cur, n) \in Linked /\ Walk(obj, was.cur, n - 1) \in Linked
  BY <1>1, <1>3, LooseWalk DEF ObjectLoose
<1>5. PICK b, q, y, m, d, e :
        /\ b = was.m_initialized /\ q = was.m_currentKey
        /\ y = IF was.idx + n > was.max THEN was.idx + n - (was.max + 1) ELSE was.idx + n
        /\ m = was.max /\ d = Walk(obj, was.cur, n) /\ e = Walk(obj, was.cur, n - 1)
  OBVIOUS
<1>6. it = Iterator(b, q, y, m, d, e)
  <2>1. iter_seek(obj, was, n)
          = Iterator(was.m_initialized, was.m_currentKey,
                     IF was.idx + n > was.max THEN was.idx + n - (was.max + 1) ELSE was.idx + n,
                     was.max, Walk(obj, was.cur, n), Walk(obj, was.cur, n - 1))
    BY <1>2, SoughtIs
  <2> QED BY <1>5, <2>1, Zenon
<1>7. y \in Nat /\ y <= m /\ m \in Nat
  BY <1>2, <1>3, <1>5
<1>8. /\ b \in BOOLEAN /\ q \in Linked \cup {Null} /\ d \in Linked /\ e \in Linked
      /\ m <= Cardinality(Linked)
  BY <1>2, <1>4, <1>5
<1>9. MayFollow(it, Linked)
  BY <1>1, <1>6, <1>7, <1>8, FollowsThen
<1>10. it.max = m /\ it.cur = d
  BY <1>6 DEF Iterator
<1> QED BY <1>5, <1>9, <1>10

LEMMA RemovedFollows ==
  ASSUME NEW S \in SUBSET Node, NEW was, MayFollow(was, S), iter_can_remove(was),
         NEW it, it = iter_remove_iter(was)
  PROVE  /\ MayFollow(it, S)
         /\ it = Iterator(was.m_initialized, was.m_currentKey, was.idx - 1, was.max - 1,
                          was.pre, was.pre)
<1>2. /\ was \in IterType /\ was.m_initialized \in BOOLEAN
      /\ was.m_currentKey \in S \cup {Null}
      /\ was.idx \in Nat /\ was.max \in Nat /\ was.idx <= was.max
      /\ was.max <= Cardinality(S) /\ (was.idx > 0 => was.pre \in S)
  BY FollowsIs
<1>3. 0 < was.idx
  BY DEF iter_can_remove
<1>4. Cardinality(S) \in Nat
  BY LinkedFacts
<1>5. PICK b, q, x, m, p :
        /\ b = was.m_initialized /\ q = was.m_currentKey /\ x = was.idx - 1 /\ m = was.max - 1
        /\ p = was.pre
  OBVIOUS
<1>6. it = Iterator(b, q, x, m, p, p)
  <2>1. iter_remove_iter(was) = Iterator(was.m_initialized, was.m_currentKey, was.idx - 1,
                                         was.max - 1, was.pre, was.pre)
    BY <1>2, RemovedIs
  <2> QED BY <1>5, <2>1, Zenon
<1>7. /\ b \in BOOLEAN /\ q \in S \cup {Null} /\ x \in Nat /\ m \in Nat /\ p \in S
      /\ x <= m /\ m <= Cardinality(S)
  BY <1>2, <1>3, <1>4, <1>5
<1>8. MayFollow(it, S)
  BY <1>6, <1>7, FollowsThen
<1> QED BY <1>5, <1>6, <1>8

LEMMA ClosedFollows ==
  ASSUME NEW was, MayFollow(was, Linked), NEW it, it = [was EXCEPT !.m_initialized = FALSE]
  PROVE  MayFollow(it, Linked) /\ it.m_initialized = FALSE
<1>1. it \in IterType /\ it.idx = was.idx /\ it.max = was.max /\ it.cur = was.cur /\ it.pre = was.pre
      /\ it.m_currentKey = was.m_currentKey /\ it.m_initialized = FALSE
  BY DEF MayFollow, IterType
<1> QED BY <1>1 DEF MayFollow, IterLoose

\* A call that changes no more than the iterator it is made on.
LEMMA TrackFollowable ==
  ASSUME Followable, NEW i \in Iter, NEW it, NEW ok \in BOOLEAN, NEW n \in Node \cup {Null, Void},
         it = Closed \/ MayFollow(it, Linked),
         Track(i, it, ok, n), UNCHANGED <<obj, isObj, key, val, careful>>
  PROVE  Followable'
<1>1. Linked' = Linked /\ ObjectLoose' = ObjectLoose
  BY DEF Linked, Fresh, ObjectLoose, EndIn, Loose
<1>2. it \in IterType \cup {Closed}
  BY DEF MayFollow
<1>3. iter' \in [Iter -> IterType \cup {Closed}]
  BY <1>2 DEF Followable, Track
<1>4. \A j \in Iter : iter'[j] = IF j = i THEN it ELSE iter[j]
  BY DEF Followable, Track
<1>5. ASSUME NEW j \in Iter, IsOpen(j)' PROVE MayFollow(iter[j], Linked)'
  <2>1. CASE j = i
    BY <1>1, <1>4, <1>5, <2>1 DEF IsOpen
  <2>2. CASE j # i
    BY <1>1, <1>4, <1>5, <2>2 DEF IsOpen, Followable
  <2> QED BY <2>1, <2>2
<1>6. intact' \in [Iter -> BOOLEAN] /\ current' \in [Iter -> Node \cup {Null, Void}]
  BY DEF Followable, Track
<1> QED BY <1>1, <1>3, <1>5, <1>6 DEF Followable

LEMMA IterCallFollowable ==
  ASSUME Followable, NEW i \in Iter, IterCall(i)
  PROVE  Followable'
<1>0. /\ ObjectLoose /\ intact[i] \in BOOLEAN /\ current[i] \in Node \cup {Null, Void}
      /\ (IsOpen(i) => MayFollow(iter[i], Linked)) /\ Linked \in SUBSET Node
  BY ObjectFacts DEF Followable
<1>1. CASE ObjIterWith(i)
  BY <1>0, <1>1, OpenedFollows, TrackFollowable DEF ObjIterWith
<1>2. CASE ObjIterReset(i)
  <2>1. CASE isObj
    BY <1>0, <1>2, <2>1, OpenedFollows, TrackFollowable DEF ObjIterReset
  <2>2. CASE ~isObj
    BY <1>0, <1>2, <2>2, ClosedFollows, TrackFollowable DEF ObjIterReset
  <2> QED BY <2>1, <2>2
<1>3. CASE ObjIterNext(i)
  <2>1. PICK it : it = [iter_next(obj, iter[i]) EXCEPT !.m_currentKey = iter_next(obj, iter[i]).cur]
    OBVIOUS
  <2>2. MayFollow(it, Linked) /\ iter_next(obj, iter[i]).cur \in Linked
    BY <1>0, <1>3, <2>1, NextFollows DEF ObjIterNext
  <2>3. PICK n \in Node \cup {Null, Void} : n = IF current[i] = Void THEN Void ELSE iter_next(obj, iter[i]).cur
    BY <1>0, <2>2
  <2>4. Track(i, it, intact[i], n) /\ UNCHANGED <<obj, isObj, key, val, careful>>
    BY <1>3, <2>1, <2>3 DEF ObjIterNext
  <2> QED BY <1>0, <2>2, <2>4, TrackFollowable
<1>4. ASSUME NEW k \in Key, ObjIterGet(i, k) PROVE Followable'
  <2>1. MayFollow(iter[i], Linked)
    BY <1>0, <1>4 DEF ObjIterGet
  <2>2. PICK n \in 1 .. iter[i].max : n = Found(i, k)
    <3>1. iter[i].max \in Nat
      BY <2>1 DEF MayFollow, IterLoose
    <3>2. Found(i, k) \in 0 .. iter[i].max
      BY <3>1, FindFacts DEF Found
    <3>3. Found(i, k) # 0
      BY <1>4 DEF ObjIterGet
    <3> QED BY <3>1, <3>2, <3>3
  <2>3. PICK it : it = iter_seek(obj, iter[i], n)
    OBVIOUS
  <2>4. MayFollow(it, Linked)
    BY <1>0, <2>1, <2>3, SoughtFollows
  <2>5. Track(i, it, intact[i], Void) /\ UNCHANGED <<obj, isObj, key, val, careful>>
    BY <1>4, <2>2, <2>3 DEF ObjIterGet
  <2> QED BY <1>0, <2>4, <2>5, TrackFollowable
<1>5. CASE ReleaseObjIter(i)
  BY <1>5, TrackFollowable DEF ReleaseObjIter
<1> QED BY <1>1, <1>2, <1>3, <1>4, <1>5 DEF IterCall

LEMMA RemoveFollowable ==
  ASSUME Followable, NEW i \in Iter, ObjIterRemove(i)
  PROVE  Followable'
<1>1. ObjectLoose /\ MayFollow(iter[i], Linked) /\ iter_can_remove(iter[i])
  BY DEF Followable, ObjIterRemove
<1>2. PICK was : was = iter[i]
  OBVIOUS
<1>3. /\ Loose(obj, Linked) /\ obj' = iter_remove_list(obj, was) /\ isObj' = isObj
      /\ key' = key /\ val' = val /\ IterLoose(was, Linked) /\ iter_can_remove(was)
      /\ was.max <= Cardinality(Linked) /\ MayFollow(was, Linked)
  BY <1>1, <1>2 DEF ObjectLoose, ObjIterRemove, MayFollow
<1>4. Loose(obj', Linked) /\ (EndIn(obj, Linked) => EndIn(obj', Linked)) /\ obj'.len = was.max - 1
  BY <1>3, IterRemoveLoose
<1>5. Linked' = Linked
  BY <1>4, LinkedNextIs
<1>6. Linked \in SUBSET Node /\ Cardinality(Linked) \in Nat
  BY <1>1, ObjectFacts
<1>7. PICK it : it = iter_remove_iter(was)
  OBVIOUS
<1>8. MayFollow(it, Linked)
  BY <1>3, <1>6, <1>7, RemovedFollows
<1>9. ObjectLoose'
  <2>1. was.max \in Nat
    BY <1>3 DEF IterLoose
  <2>2. obj'.len <= Cardinality(Linked)
    BY <1>3, <1>4, <1>6, <2>1
  <2> QED BY <1>1, <1>3, <1>4, <1>5, <2>2 DEF ObjectLoose
<1>10. iter' = [iter EXCEPT ![i] = it] /\ it \in IterType
  BY <1>2, <1>7, <1>8 DEF ObjIterRemove, MayFollow
<1>11. \A j \in Iter : iter'[j] = IF j = i THEN it ELSE iter[j]
  BY <1>10 DEF Followable
<1>12. ASSUME NEW j \in Iter, IsOpen(j)' PROVE MayFollow(iter[j], Linked)'
  <2>1. CASE j = i
    BY <1>5, <1>8, <1>11, <2>1
  <2>2. CASE j # i
    BY <1>5, <1>11, <1>12, <2>2 DEF IsOpen, Followable
  <2> QED BY <2>1, <2>2
<1>13. iter' \in [Iter -> IterType \cup {Closed}]
  BY <1>10 DEF Followable
<1>14. current' \in [Iter -> Node \cup {Null, Void}]
  BY DEF Followable, ObjIterRemove
<1>15. intact' \in [Iter -> BOOLEAN]
  <2>1. intact' = [j \in Iter |-> j = i /\ intact[i]]
    BY DEF ObjIterRemove
  <2>2. \A j \in Iter : (j = i /\ intact[i]) \in BOOLEAN
    OBVIOUS
  <2> QED BY <2>1, <2>2, Zenon
<1>16. isObj' \in BOOLEAN /\ careful' \in BOOLEAN
  <2>1. careful' = (careful /\ current[i] \in Node)
    BY DEF ObjIterRemove
  <2> QED BY <1>3, <2>1, Zenon DEF Followable
<1>17. key' \in [Node -> Key] /\ val' \in [Node -> Value]
  BY <1>3 DEF Followable
<1> QED BY <1>9, <1>12, <1>13, <1>14, <1>15, <1>16, <1>17 DEF Followable

LEMMA InitFollowable == Init => Followable
<1> SUFFICES ASSUME Init PROVE Followable
  OBVIOUS
<1>1. PICK s \in BoundedSeq(Node, MaxInit) : IsInjective(s) /\ obj = append_all(EmptyList, s)
  BY DEF Init
<1>2. s \in Seq(Node)
  <2>1. PICK n \in 0 .. MaxInit : s \in [1 .. n -> Node]
    BY <1>1, Zenon DEF BoundedSeq, SeqOf
  <2> QED BY <2>1, BoundAssumption
<1>3. PICK S \in SUBSET Node : Loose(obj, S) /\ EndIn(obj, S) /\ obj.len <= Cardinality(S)
  BY <1>1, <1>2, MadeLoose
<1>4. ObjectLoose
  BY <1>3, LinkedIs DEF ObjectLoose
<1>5. key \in [Node -> Key] /\ val \in [Node -> Value]
  BY DEF Init
<1> QED BY <1>4, <1>5 DEF Init, Followable, IsOpen

LEMMA StepFollowable == Followable /\ [Next]_vars => Followable'
<1> SUFFICES ASSUME Followable, [Next]_vars PROVE Followable'
  OBVIOUS
<1>1. CASE HandleCall
  BY <1>1, HandleFollowable
<1>2. ASSUME NEW i \in Iter, IterCall(i) PROVE Followable'
  BY <1>2, IterCallFollowable
<1>3. ASSUME NEW i \in Iter, ObjIterRemove(i) PROVE Followable'
  BY <1>3, RemoveFollowable
<1>4. CASE UNCHANGED vars
  BY <1>4 DEF vars, Followable, ObjectLoose, Linked, Fresh, IsOpen, EndIn, Loose
<1> QED BY <1>1, <1>2, <1>3, <1>4 DEF Next

LEMMA FollowableAlways == Spec => []Followable
BY InitFollowable, StepFollowable, PTL DEF Spec

\* Every length, and every index of an iterator, stays within the number of
\* pairs of the document, however stale the iterators that calls are made on:
\* no size_t ever wraps around.
THEOREM LengthsAreBounded == Spec => []TypeOK
<1>1. Followable => TypeOK
  BY ObjectFacts DEF Followable, TypeOK
<1> QED BY <1>1, FollowableAlways, PTL

\* However many iterators there are and whatever is called in whatever order,
\* no call follows a null pointer.
THEOREM NullIsNeverFollowed == Spec => []NeverFollowsNull
<1>1. Followable => NeverFollowsNull
  <2> SUFFICES ASSUME Followable PROVE NeverFollowsNull
    OBVIOUS
  <2>1. \A n \in Linked : obj.next[n] \in Linked
    BY DEF Followable, ObjectLoose, Loose
  <2>2. isObj /\ obj.len > 0 => obj.ptr \in Linked
    BY ObjectFacts DEF Followable, ObjectLoose, EndIn
  <2>3. \A i \in Iter : IsOpen(i) => MayFollow(iter[i], Linked)
    BY DEF Followable
  <2> QED BY <2>1, <2>2, <2>3 DEF NeverFollowsNull, MayFollow, IterLoose
<1> QED BY <1>1, FollowableAlways, PTL

-----------------------------------------------------------------------------
(* The members of a set in a sequence *)

AmongStep(S, a, v) == IF v \in S THEN Append(a, v) ELSE a

AmongRun(s, S, f) ==
  /\ f[0] = << >>
  /\ \A j \in 1 .. Len(s) : f[j] = AmongStep(S, f[j - 1], s[j])

LEMMA AmongRecursion ==
  ASSUME NEW s, Len(s) \in Nat, NEW S
  PROVE  \E f : AmongRun(s, S, f) /\ Among(s, S) = f[Len(s)]
<1> DEFINE Good(f, m) == f = [j \in 0 .. m |-> IF j = 0 THEN << >> ELSE AmongStep(S, f[j - 1], s[j])]
           T == {m \in Nat : \E f : Good(f, m)}
<1>1. 0 \in T
  <2>1. Good([j \in 0 .. 0 |-> << >>], 0)
    OBVIOUS
  <2> QED BY <2>1
<1>2. \A m \in T \cap Nat : m + 1 \in T
  <2> SUFFICES ASSUME NEW m \in Nat, NEW f, Good(f, m)
               PROVE  m + 1 \in T
    OBVIOUS
  <2> DEFINE more == [j \in 0 .. m + 1 |-> IF j = m + 1 THEN AmongStep(S, f[m], s[m + 1]) ELSE f[j]]
  <2>1. Good(more, m + 1)
    OBVIOUS
  <2> HIDE DEF Good
  <2> QED BY <2>1
<1>3. Len(s) \in T
  <2> HIDE DEF T
  <2> QED BY <1>1, <1>2, NaturalInduction
<1> DEFINE all == CHOOSE f : Good(f, Len(s))
<1>4. Good(all, Len(s))
  <2> HIDE DEF Good
  <2> QED BY <1>3
<1>5. Among(s, S) = all[Len(s)]
  BY Zenon DEF Among, AmongStep
<1>6. AmongRun(s, S, all)
  <2> HIDE DEF all
  <2> QED BY <1>4 DEF AmongRun
<1> QED BY <1>5, <1>6

\* What is found up to a place depends on what stands there alone.
LEMMA AmongAgrees ==
  ASSUME NEW s, NEW t, NEW S, NEW T, NEW f, NEW g, AmongRun(s, S, f), AmongRun(t, T, g),
         NEW m \in Nat, Len(s) \in Nat, Len(t) \in Nat, m <= Len(s), m <= Len(t),
         \A k \in 1 .. m : s[k] = t[k] /\ (s[k] \in S <=> t[k] \in T)
  PROVE  f[m] = g[m]
<1> DEFINE Q == {k \in Nat : k <= m => f[k] = g[k]}
<1>1. 0 \in Q
  BY DEF AmongRun
<1>2. \A k \in Q \cap Nat : k + 1 \in Q
  <2> SUFFICES ASSUME NEW k \in Nat, k \in Q, k + 1 <= m PROVE f[k + 1] = g[k + 1]
    OBVIOUS
  <2>1. f[k] = g[k]
    OBVIOUS
  <2>2. PICK h \in 1 .. m : h = k + 1 /\ h - 1 = k /\ h \in 1 .. Len(s) /\ h \in 1 .. Len(t)
    OBVIOUS
  <2> HIDE DEF Q
  <2>3. f[h] = (IF s[h] \in S THEN Append(f[k], s[h]) ELSE f[k])
    BY <2>2 DEF AmongRun, AmongStep
  <2>4. g[h] = (IF t[h] \in T THEN Append(g[k], t[h]) ELSE g[k])
    BY <2>2 DEF AmongRun, AmongStep
  <2> QED BY <2>1, <2>2, <2>3, <2>4
<1>3. m \in Q
  <2> HIDE DEF Q
  <2> QED BY <1>1, <1>2, NaturalInduction
<1> QED BY <1>3

LEMMA PrefixIs ==
  ASSUME NEW s \in Seq(Node), NEW c \in Nat, c <= Len(s)
  PROVE  /\ Prefix(s, c) \in Seq(Node) /\ Len(Prefix(s, c)) = c
         /\ \A k \in 1 .. c : Prefix(s, c)[k] = s[k] /\ s[k] \in Node
<1>1. \A k \in 1 .. c : s[k] \in Node
  OBVIOUS
<1>2. PICK p : p = [k \in 1 .. c |-> s[k]]
  OBVIOUS
<1>3. p \in Seq(Node) /\ Len(p) = c /\ \A k \in 1 .. c : p[k] = s[k]
  BY <1>1, <1>2
<1> QED BY <1>1, <1>2, <1>3 DEF Prefix

LEMMA AmongNone ==
  ASSUME NEW s, Len(s) = 0, NEW S
  PROVE  Among(s, S) = << >>
<1>1. PICK f : AmongRun(s, S, f) /\ Among(s, S) = f[Len(s)]
  BY AmongRecursion
<1> QED BY <1>1 DEF AmongRun

LEMMA AmongSame ==
  ASSUME NEW s, NEW t, NEW S, NEW T, Len(s) \in Nat, Len(t) = Len(s),
         \A k \in 1 .. Len(s) : s[k] = t[k] /\ (s[k] \in S <=> t[k] \in T)
  PROVE  Among(s, S) = Among(t, T)
<1>1. PICK f : AmongRun(s, S, f) /\ Among(s, S) = f[Len(s)]
  BY AmongRecursion
<1>2. PICK g : AmongRun(t, T, g) /\ Among(t, T) = g[Len(t)]
  BY AmongRecursion
<1>3. PICK m \in Nat : m = Len(s) /\ m = Len(t) /\ m <= Len(s) /\ m <= Len(t)
  OBVIOUS
<1>4. f[m] = g[m]
  BY <1>1, <1>2, <1>3, AmongAgrees
<1> QED BY <1>1, <1>2, <1>3, <1>4

\* Of one element more.
OneMore(s, c, S) ==
  Among(Prefix(s, c + 1), S) = AmongStep(S, Among(Prefix(s, c), S), s[c + 1])

LEMMA AmongNext ==
  ASSUME NEW s \in Seq(Node), NEW c \in Nat, c < Len(s), NEW S
  PROVE  OneMore(s, c, S)
<1>1. PICK d \in Nat : d = c + 1 /\ d <= Len(s) /\ d - 1 = c /\ c <= Len(s) /\ c <= d /\ d \in 1 .. d
  OBVIOUS
<1>2. PICK p, q : p = Prefix(s, c) /\ q = Prefix(s, d)
  OBVIOUS
<1>3. /\ Len(p) = c /\ Len(q) = d /\ q[d] = s[d]
      /\ \A k \in 1 .. c : p[k] = s[k] /\ q[k] = s[k]
  <2>1. Len(p) = c /\ \A k \in 1 .. c : p[k] = s[k]
    BY <1>1, <1>2, PrefixIs
  <2>2. Len(q) = d /\ \A k \in 1 .. d : q[k] = s[k]
    BY <1>1, <1>2, PrefixIs
  <2> QED BY <1>1, <2>1, <2>2
<1>4. PICK f : AmongRun(p, S, f) /\ Among(p, S) = f[c]
  BY <1>3, AmongRecursion
<1>5. PICK g : AmongRun(q, S, g) /\ Among(q, S) = g[d]
  BY <1>1, <1>3, AmongRecursion
<1>6. f[c] = g[c]
  BY <1>1, <1>3, <1>4, <1>5, AmongAgrees
<1>7. g[d] = IF q[d] \in S THEN Append(g[c], q[d]) ELSE g[c]
  BY <1>1, <1>3, <1>5 DEF AmongRun, AmongStep
<1> QED BY <1>1, <1>2, <1>3, <1>4, <1>5, <1>6, <1>7 DEF OneMore, AmongStep

LEMMA AmongWhole ==
  ASSUME NEW s \in Seq(Node)
  PROVE  Prefix(s, Len(s)) = s
<1>1. PICK n \in Nat : n = Len(s)
  OBVIOUS
<1> QED BY <1>1 DEF Prefix

\* None is found exactly if there is none.
LEMMA AmongEmpty ==
  ASSUME NEW s \in Seq(Node), NEW S
  PROVE  /\ Among(s, S) \in Seq(Node)
         /\ (\A k \in 1 .. Len(s) : s[k] \notin S) => Among(s, S) = << >>
<1>1. PICK n \in Nat : n = Len(s)
  OBVIOUS
<1> DEFINE Q == {c \in Nat : c <= n =>
                    /\ Among(Prefix(s, c), S) \in Seq(Node)
                    /\ (\A k \in 1 .. n : s[k] \notin S) => Among(Prefix(s, c), S) = << >>}
<1>2. 0 \in Q
  <2>1. 0 <= Len(s) /\ 0 \in Nat
    OBVIOUS
  <2>2. Len(Prefix(s, 0)) = 0
    BY <2>1, PrefixIs
  <2>3. Among(Prefix(s, 0), S) = << >>
    BY <2>2, AmongNone
  <2>4. << >> \in Seq(Node)
    OBVIOUS
  <2> QED BY <2>3, <2>4
<1>3. \A c \in Q \cap Nat : c + 1 \in Q
  <2> SUFFICES ASSUME NEW c \in Nat, c \in Q, c + 1 <= n
               PROVE  /\ Among(Prefix(s, c + 1), S) \in Seq(Node)
                      /\ (\A k \in 1 .. n : s[k] \notin S) => Among(Prefix(s, c + 1), S) = << >>
    OBVIOUS
  <2>1. /\ Among(Prefix(s, c), S) \in Seq(Node)
        /\ (\A k \in 1 .. n : s[k] \notin S) => Among(Prefix(s, c), S) = << >>
    OBVIOUS
  <2> HIDE DEF Q
  <2>2. PICK a, b : a = Among(Prefix(s, c), S) /\ b = Among(Prefix(s, c + 1), S)
    OBVIOUS
  <2>3. PICK d \in 1 .. n : d = c + 1 /\ s[d] \in Node /\ c < Len(s)
    BY <1>1
  <2>4. b = IF s[d] \in S THEN Append(a, s[d]) ELSE a
    <3>1. OneMore(s, c, S)
      BY <2>3, AmongNext
    <3> QED BY <2>2, <2>3, <3>1 DEF OneMore, AmongStep
  <2>5. b \in Seq(Node)
    <3>1. PICK v \in Node : v = s[d]
      BY <2>3
    <3>2. a \in Seq(Node)
      BY <2>1, <2>2
    <3>3. Append(a, v) \in Seq(Node)
      BY <3>2
    <3> QED BY <2>4, <3>1, <3>2, <3>3
  <2>6. (\A k \in 1 .. n : s[k] \notin S) => b = << >>
    <3> SUFFICES ASSUME \A k \in 1 .. n : s[k] \notin S PROVE b = << >>
      OBVIOUS
    <3>1. s[d] \notin S
      BY <2>3
    <3>2. a = << >>
      BY <2>1, <2>2
    <3> QED BY <2>4, <3>1, <3>2
  <2> QED BY <2>2, <2>5, <2>6
<1>4. n \in Q
  <2> HIDE DEF Q
  <2> QED BY <1>2, <1>3, NaturalInduction
<1> QED BY <1>1, <1>4, AmongWhole

-----------------------------------------------------------------------------
(* What is still ahead of obj_put and obj_remove_key is as it was *)

\* Of the pairs e the first j have been looked at; c of them are kept, and with
\* the rest they make t.
Ahead(e, j, t, c) ==
  /\ e \in Seq(Node) /\ t \in Seq(Node) /\ IsInjective(t)
  /\ j \in Nat /\ c \in Nat /\ c <= j /\ j <= Len(e)
  /\ Len(t) = c + (Len(e) - j)
  /\ \A k \in 1 .. Len(e) - j : t[c + k] = e[j + k]

AheadOne(e, j, t, c) ==
  /\ t[c + 1] = e[j + 1] /\ e[j + 1] \in Node
  /\ c + 1 \in 1 .. Len(t) /\ j + 1 \in 1 .. Len(e) /\ c < Len(t)
  /\ Ahead(e, j + 1, t, c + 1)

LEMMA AheadNext ==
  ASSUME NEW e, NEW j, NEW t, NEW c, Ahead(e, j, t, c), j < Len(e)
  PROVE  AheadOne(e, j, t, c)
<1>1. PICK n \in Nat, m \in Nat :
        n = Len(e) /\ m = Len(t) /\ j \in Nat /\ c \in Nat /\ c <= j /\ j < n /\ m = c + (n - j)
  BY DEF Ahead
<1>2. \A k \in 1 .. n - j : t[c + k] = e[j + k]
  BY <1>1 DEF Ahead
<1>3. t[c + 1] = e[j + 1]
  <2>1. 1 \in 1 .. n - j
    BY <1>1
  <2> QED BY <1>2, <2>1
<1>4. \A k \in 1 .. n - (j + 1) : t[(c + 1) + k] = e[(j + 1) + k]
  <2> TAKE k \in 1 .. n - (j + 1)
  <2>1. k + 1 \in 1 .. n - j /\ c + (k + 1) = (c + 1) + k /\ j + (k + 1) = (j + 1) + k
    BY <1>1
  <2> QED BY <1>2, <2>1
<1>5. c + 1 \in 1 .. m /\ j + 1 \in 1 .. n /\ m = (c + 1) + (n - (j + 1)) /\ c + 1 <= j + 1
      /\ j + 1 \in Nat /\ c + 1 \in Nat /\ c < m
  BY <1>1
<1>6. t[c + 1] \in Node
  BY <1>1, <1>5 DEF Ahead
<1> QED BY <1>1, <1>3, <1>4, <1>5, <1>6 DEF Ahead, AheadOne

OneCut(e, j, t, c, u) ==
  /\ Ahead(e, j + 1, u, c) /\ Len(u) = Len(t) - 1
  /\ \A k \in 1 .. c : u[k] = t[k]
  /\ \A k \in 1 .. Len(u) : \E h \in 1 .. Len(t) : u[k] = t[h]
  /\ Len(u) > 0 => Place(u, c) = Place(t, c)

LEMMA AheadCut ==
  ASSUME NEW e, NEW j, NEW t, NEW c, Ahead(e, j, t, c), j < Len(e), NEW u, u = Cut(t, c, 1)
  PROVE  OneCut(e, j, t, c, u)
<1>1. PICK n \in Nat, m \in Nat :
        n = Len(e) /\ m = Len(t) /\ j \in Nat /\ c \in Nat /\ c <= j /\ j < n /\ m = c + (n - j)
  BY DEF Ahead
<1>2. \A k \in 1 .. n - j : t[c + k] = e[j + k]
  BY <1>1 DEF Ahead
<1>3. PICK l \in Nat : l = m - 1 /\ c <= l /\ l = c + (n - (j + 1)) /\ m = l + 1
  <2>1. /\ m - 1 \in Nat /\ c <= m - 1 /\ m - 1 = c + (n - (j + 1))
        /\ m = (m - 1) + 1
    BY <1>1
  <2> QED BY <2>1
<1>4. /\ u \in Seq(Node) /\ Len(u) = l /\ IsInjective(u)
      /\ \A k \in 1 .. l : u[k] = IF k <= c THEN t[k] ELSE t[k + 1]
  <2>1. t \in Seq(Node) /\ IsInjective(t) /\ c \in Nat
    BY DEF Ahead
  <2>2. PICK one \in Nat : one = 1 /\ c + one <= Len(t)
    BY <1>1
  <2>3. /\ Cut(t, c, one) \in Seq(Node) /\ Len(Cut(t, c, one)) = Len(t) - one
        /\ IsInjective(Cut(t, c, one))
        /\ \A k \in 1 .. Len(t) - one : Cut(t, c, one)[k] = IF k <= c THEN t[k] ELSE t[k + one]
    <3>1. CutLeaves(t, c, one)
      BY <2>1, <2>2, CutIsLeft
    <3> QED BY <3>1 DEF CutLeaves
  <2>4. u = Cut(t, c, one) /\ Len(t) - one = l
    BY <1>1, <1>3, <2>2
  <2> QED BY <2>2, <2>3, <2>4
<1>5. \A k \in 1 .. c : u[k] = t[k]
  <2> TAKE k \in 1 .. c
  <2>1. k \in 1 .. l /\ k <= c
    BY <1>1, <1>3
  <2> QED BY <1>4, <2>1
<1>6. \A k \in 1 .. n - (j + 1) : u[c + k] = e[(j + 1) + k]
  <2> TAKE k \in 1 .. n - (j + 1)
  <2>1. PICK h : h = c + k /\ h \in 1 .. l /\ ~(h <= c) /\ h + 1 = c + (k + 1)
    BY <1>1, <1>3
  <2>2. k + 1 \in 1 .. n - j /\ j + (k + 1) = (j + 1) + k
    BY <1>1
  <2>3. u[h] = t[h + 1]
    BY <1>4, <2>1
  <2> QED BY <1>2, <2>1, <2>2, <2>3
<1>7. \A k \in 1 .. l : \E h \in 1 .. m : u[k] = t[h]
  <2> TAKE k \in 1 .. l
  <2>1. k \in 1 .. m /\ k + 1 \in 1 .. m
    BY <1>3
  <2> QED BY <1>4, <2>1
<1>8. ASSUME l > 0 PROVE Place(u, c) = Place(t, c)
  <2>1. CASE c = 0
    <3>1. l \in 1 .. l /\ ~(l <= c)
      BY <1>8, <2>1
    <3>2. u[l] = t[m]
      BY <1>3, <1>4, <3>1
    <3> QED BY <1>1, <1>4, <2>1, <3>2 DEF Place
  <2>2. CASE c # 0
    <3>1. c \in 1 .. c
      BY <1>1, <2>2
    <3> QED BY <1>5, <2>2, <3>1 DEF Place
  <2> QED BY <2>1, <2>2
<1>9. Ahead(e, j + 1, u, c)
  <2>1. j + 1 \in Nat /\ c <= j + 1 /\ j + 1 <= n /\ e \in Seq(Node)
    BY <1>1 DEF Ahead
  <2> QED BY <1>1, <1>3, <1>4, <1>6, <2>1 DEF Ahead
<1> QED BY <1>1, <1>3, <1>4, <1>5, <1>7, <1>8, <1>9 DEF OneCut

\* When all have been looked at, what is kept is all there is.
LEMMA AheadEnd ==
  ASSUME NEW e, NEW j, NEW t, NEW c, Ahead(e, j, t, c), j = Len(e)
  PROVE  c = Len(t) /\ Prefix(t, c) = t /\ Prefix(e, j) = e
<1>1. PICK n \in Nat : n = Len(e) /\ e \in Seq(Node) /\ t \in Seq(Node) /\ c \in Nat /\ j = n
                       /\ Len(t) = c + (n - j)
  BY DEF Ahead
<1>2. c = Len(t)
  BY <1>1
<1> QED BY <1>1, <1>2, AmongWhole

-----------------------------------------------------------------------------
(* obj_put and obj_remove_key on a sound ring *)

PutStands(e, j, K, it, t, c) ==
  /\ Ahead(e, j, t, c) /\ IsRing(K, t) /\ K.next \in [Node -> Node \cup {Null}]
  /\ it \in WalkIter /\ it.idx = c /\ it.max = Len(t)
  /\ Len(t) > 0 => it.cur = Place(t, c)

LEMMA PutNextStands ==
  ASSUME NEW e, NEW j, NEW K, NEW it, NEW t, NEW c, PutStands(e, j, K, it, t, c), j < Len(e),
         NEW nx, nx = iter_next(K, it)
  PROVE  /\ nx.cur = e[j + 1] /\ nx.pre = Place(t, c) /\ nx.pre \in Node
         /\ PutStands(e, j + 1, K, nx, t, c + 1)
<1>1. /\ Ahead(e, j, t, c) /\ IsRing(K, t) /\ it \in WalkIter /\ it.idx = c /\ it.max = Len(t)
      /\ (Len(t) > 0 => it.cur = Place(t, c)) /\ K.next \in [Node -> Node \cup {Null}]
  BY DEF PutStands
<1>2. PICK d \in Nat, m \in Nat :
        /\ d = c + 1 /\ m = Len(t) /\ d \in 1 .. m /\ t[d] = e[j + 1] /\ t[d] \in Node
        /\ c \in Nat /\ c < m /\ m > 0 /\ c + 1 <= m /\ d # 0
        /\ Ahead(e, j + 1, t, d)
  <2>1. c \in Nat /\ Len(t) \in Nat
    BY <1>1 DEF Ahead
  <2>2. c + 1 \in 1 .. Len(t) /\ t[c + 1] = e[j + 1] /\ t[c + 1] \in Node /\ Ahead(e, j + 1, t, c + 1)
    <3>1. AheadOne(e, j, t, c)
      BY <1>1, AheadNext
    <3> QED BY <3>1 DEF AheadOne
  <2>3. c + 1 \in Nat /\ c < Len(t) /\ Len(t) > 0 /\ c + 1 <= Len(t) /\ c + 1 # 0
    BY <2>1, <2>2
  <2> QED BY <2>1, <2>2, <2>3
<1>3. K.next[Place(t, c)] = t[d]
  <2>1. 1 \in Nat /\ c < Len(t) /\ c + 1 <= Len(t) /\ 1 > 0
    BY <1>2
  <2>2. K.next[Place(t, c)] = t[c + 1]
    BY <1>1, <1>2, <2>1, RingReach
  <2> QED BY <1>2, <2>2
<1>4. Place(t, c) \in Node
  <2>1. \A k \in 1 .. m : t[k] \in Node
    BY <1>1, <1>2, RingFacts
  <2>2. m \in 1 .. m /\ (c # 0 => c \in 1 .. m)
    BY <1>2
  <2> QED BY <1>2, <2>1, <2>2 DEF Place
<1>5. PICK p \in Node, q \in Node : p = Place(t, c) /\ q = t[d]
  BY <1>2, <1>4
<1>6. nx = [idx |-> d, max |-> m, cur |-> q, pre |-> p]
  BY <1>1, <1>2, <1>3, <1>5, WalkIterNext
<1>7. nx \in WalkIter /\ nx.idx = d /\ nx.max = m /\ nx.cur = q /\ nx.pre = p
  BY <1>2, <1>5, <1>6 DEF WalkIter
<1>8. Place(t, d) = q
  BY <1>2, <1>5 DEF Place
<1>9. PutStands(e, j + 1, K, nx, t, d)
  BY <1>1, <1>2, <1>7, <1>8 DEF PutStands
<1> QED BY <1>2, <1>5, <1>7, <1>9

LEMMA PutRemoveStands ==
  ASSUME NEW e, NEW j, NEW K, NEW it, NEW t, NEW c, PutStands(e, j, K, it, t, c), j < Len(e),
         NEW nx, nx = iter_next(K, it), NEW u, u = Cut(t, c, 1)
  PROVE  PutStands(e, j + 1, iter_remove_list(K, nx), iter_remove_iter(nx), u, c)
<1>1. /\ Ahead(e, j, t, c) /\ IsRing(K, t) /\ K.next \in [Node -> Node \cup {Null}]
  BY DEF PutStands
<1>2. /\ nx.cur = e[j + 1] /\ nx.pre = Place(t, c) /\ nx.pre \in Node
      /\ PutStands(e, j + 1, K, nx, t, c + 1)
  BY PutNextStands
<1>3. nx \in WalkIter /\ nx.idx = c + 1 /\ nx.max = Len(t)
  BY <1>2 DEF PutStands
<1>4. c + 1 \in 1 .. Len(t) /\ t[c + 1] = e[j + 1] /\ e[j + 1] \in Node
  <2>1. AheadOne(e, j, t, c)
    BY <1>1, AheadNext
  <2> QED BY <2>1 DEF AheadOne
<1>5. PICK k \in 1 .. Len(t) : k = c + 1 /\ k - 1 = c /\ c \in Nat /\ Len(t) \in Nat
  BY <1>1, <1>4 DEF Ahead
<1>6. PICK N, h : N = iter_remove_list(K, nx) /\ h = iter_remove_iter(nx)
  OBVIOUS
<1>7. IsRing(N, u)
  <2>1. nx.idx = k /\ nx.max = Len(t) /\ nx.cur = t[k] /\ nx.pre = Place(t, k - 1)
    BY <1>2, <1>3, <1>4, <1>5
  <2>2. IsRing(iter_remove_list(K, nx), Cut(t, k - 1, 1))
    BY <1>1, <2>1, IterRemoveRing
  <2> QED BY <1>5, <1>6, <2>2
<1>8. N.next \in [Node -> Node \cup {Null}]
  <2>1. PICK prev \in Node, to \in Node \cup {Null} : prev = nx.pre /\ to = K.next[nx.cur]
    BY <1>1, <1>2, <1>4
  <2>2. N.next = [K.next EXCEPT ![prev] = to]
    BY <1>6, <2>1, Zenon DEF iter_remove_list
  <2> QED BY <1>1, <2>1, <2>2
<1>9. /\ Ahead(e, j + 1, u, c) /\ Len(u) = Len(t) - 1
      /\ Len(u) > 0 => Place(u, c) = Place(t, c)
  <2>1. OneCut(e, j, t, c, u)
    BY <1>1, AheadCut
  <2> QED BY <2>1 DEF OneCut
<1>10. PICK l \in Nat, p \in Node : l = Len(u) /\ l = Len(t) - 1 /\ p = nx.pre
  BY <1>2, <1>5, <1>9
<1>11. h = [idx |-> c, max |-> l, cur |-> p, pre |-> p]
  BY <1>3, <1>5, <1>6, <1>10, WalkIterRemove
<1>12. h \in WalkIter /\ h.idx = c /\ h.max = l /\ h.cur = p
  BY <1>5, <1>11 DEF WalkIter
<1>13. PutStands(e, j + 1, N, h, u, c)
  BY <1>2, <1>7, <1>8, <1>9, <1>10, <1>12 DEF PutStands
<1> QED BY <1>6, <1>13

\* What has been kept of the first j: all that do not match, and the first match f.
PutKept(e, M, j, t, c, f) ==
  /\ \A k \in 1 .. Len(t) : \E h \in 1 .. Len(e) : t[k] = e[h]
  /\ Among(Prefix(t, c), Node \ M) = Among(Prefix(e, j), Node \ M)
  /\ f = Null => t = e /\ c = j /\ \A k \in 1 .. c : t[k] \notin M
  /\ f # Null => f \in M /\ f \in Node /\ Among(Prefix(t, c), M) = <<f>>

LEMMA PutKeepsOther ==
  ASSUME NEW e, NEW j, NEW t, NEW c, Ahead(e, j, t, c), j < Len(e), NEW M, NEW f,
         PutKept(e, M, j, t, c, f), e[j + 1] \notin M
  PROVE  PutKept(e, M, j + 1, t, c + 1, f)
<1>1. AheadOne(e, j, t, c)
  BY AheadNext
<1>2. /\ e \in Seq(Node) /\ t \in Seq(Node) /\ j \in Nat /\ c \in Nat /\ c < Len(t)
  BY <1>1 DEF Ahead, AheadOne
<1>3. PICK v \in Node : v = e[j + 1] /\ v = t[c + 1] /\ v \notin M
  BY <1>1 DEF AheadOne
<1>4. Among(Prefix(t, c + 1), Node \ M) = Append(Among(Prefix(t, c), Node \ M), v)
  <2>1. OneMore(t, c, Node \ M)
    BY <1>2, AmongNext
  <2> QED BY <1>3, <2>1 DEF OneMore, AmongStep
<1>5. Among(Prefix(e, j + 1), Node \ M) = Append(Among(Prefix(e, j), Node \ M), v)
  <2>1. OneMore(e, j, Node \ M)
    BY <1>2, AmongNext
  <2> QED BY <1>3, <2>1 DEF OneMore, AmongStep
<1>6. Among(Prefix(t, c + 1), M) = Among(Prefix(t, c), M)
  <2>1. OneMore(t, c, M)
    BY <1>2, AmongNext
  <2> QED BY <1>3, <2>1 DEF OneMore, AmongStep
<1>7. f = Null => \A k \in 1 .. c + 1 : t[k] \notin M
  BY <1>2, <1>3 DEF PutKept
<1> QED BY <1>4, <1>5, <1>6, <1>7 DEF PutKept

LEMMA PutKeepsFirst ==
  ASSUME NEW e, NEW j, NEW t, NEW c, Ahead(e, j, t, c), j < Len(e), NEW M,
         PutKept(e, M, j, t, c, Null), NEW f, f = e[j + 1], f \in M
  PROVE  PutKept(e, M, j + 1, t, c + 1, f) /\ f # Null
<1>1. AheadOne(e, j, t, c)
  BY AheadNext
<1>2. /\ e \in Seq(Node) /\ t \in Seq(Node) /\ j \in Nat /\ c \in Nat /\ c < Len(t)
  BY <1>1 DEF Ahead, AheadOne
<1>3. f \in Node /\ f = t[c + 1] /\ f # Null
  BY <1>1, NodeAssumption DEF AheadOne
<1>4. Among(Prefix(t, c + 1), Node \ M) = Among(Prefix(t, c), Node \ M)
  <2>1. OneMore(t, c, Node \ M)
    BY <1>2, AmongNext
  <2> QED BY <1>3, <2>1 DEF OneMore, AmongStep
<1>5. Among(Prefix(e, j + 1), Node \ M) = Among(Prefix(e, j), Node \ M)
  <2>1. OneMore(e, j, Node \ M)
    BY <1>2, AmongNext
  <2> QED BY <1>3, <2>1 DEF OneMore, AmongStep
<1>6. Among(Prefix(t, c), M) = << >>
  <2>1. PICK p : p = Prefix(t, c)
    OBVIOUS
  <2>2. p \in Seq(Node) /\ Len(p) = c /\ \A k \in 1 .. c : p[k] = t[k]
    BY <1>2, <2>1, PrefixIs, SMTT(30)
  <2>3. \A k \in 1 .. c : t[k] \notin M
    BY DEF PutKept
  <2>4. \A k \in 1 .. Len(p) : p[k] \notin M
    BY <2>2, <2>3
  <2>5. Among(p, M) = << >>
    BY <2>2, <2>4, AmongEmpty
  <2> QED BY <2>1, <2>5
<1>7. Among(Prefix(t, c + 1), M) = Append(Among(Prefix(t, c), M), f)
  <2>1. OneMore(t, c, M)
    BY <1>2, AmongNext
  <2> QED BY <1>3, <2>1 DEF OneMore, AmongStep
<1>8. Append(<< >>, f) = <<f>>
  OBVIOUS
<1> QED BY <1>3, <1>4, <1>5, <1>6, <1>7, <1>8 DEF PutKept

LEMMA PutKeepsOne ==
  ASSUME NEW e, NEW j, NEW t, NEW c, Ahead(e, j, t, c), j < Len(e), NEW M, NEW f,
         PutKept(e, M, j, t, c, f), f # Null, e[j + 1] \in M, NEW u, u = Cut(t, c, 1)
  PROVE  PutKept(e, M, j + 1, u, c, f)
<1>1. AheadOne(e, j, t, c)
  BY AheadNext
<1>2. /\ e \in Seq(Node) /\ t \in Seq(Node) /\ j \in Nat /\ c \in Nat /\ c < Len(t)
  BY <1>1 DEF Ahead, AheadOne
<1>3. Among(Prefix(e, j + 1), Node \ M) = Among(Prefix(e, j), Node \ M)
  <2>1. OneMore(e, j, Node \ M)
    BY <1>2, AmongNext
  <2> QED BY <2>1 DEF OneMore, AmongStep
<1>4. /\ \A k \in 1 .. c : u[k] = t[k]
      /\ \A k \in 1 .. Len(u) : \E h \in 1 .. Len(t) : u[k] = t[h]
  <2>1. OneCut(e, j, t, c, u)
    BY AheadCut
  <2> QED BY <2>1 DEF OneCut
<1>5. Prefix(u, c) = Prefix(t, c)
  BY <1>4 DEF Prefix
<1>6. \A k \in 1 .. Len(u) : \E h \in 1 .. Len(e) : u[k] = e[h]
  BY <1>4 DEF PutKept
<1> QED BY <1>3, <1>5, <1>6 DEF PutKept

PutDoes(e, M, j, r) ==
  \E K, it, f, t, c :
    /\ r = PutState(K, it, f)
    /\ PutStands(e, j, K, it, t, c)
    /\ PutKept(e, M, j, t, c, f)

LEMMA PutStepDoes ==
  ASSUME NEW e, NEW j, j < Len(e), NEW M, NEW r, PutDoes(e, M, j, r)
  PROVE  PutDoes(e, M, j + 1, obj_put_step(r, M))
<1>1. PICK K, it, f, t, c :
        /\ r = PutState(K, it, f)
        /\ PutStands(e, j, K, it, t, c)
        /\ PutKept(e, M, j, t, c, f)
  BY DEF PutDoes
<1>2. PICK nx : nx = iter_next(K, it)
  OBVIOUS
<1>3. Ahead(e, j, t, c)
  BY <1>1 DEF PutStands
<1>4. nx.cur = e[j + 1] /\ PutStands(e, j + 1, K, nx, t, c + 1)
  BY <1>1, <1>2, PutNextStands
<1>5. CASE e[j + 1] \notin M
  <2>1. obj_put_step(r, M) = PutState(K, nx, f)
    BY <1>1, <1>2, <1>4, <1>5, PutStepIs
  <2>2. PutKept(e, M, j + 1, t, c + 1, f)
    BY <1>1, <1>3, <1>5, PutKeepsOther
  <2> QED BY <1>4, <2>1, <2>2 DEF PutDoes
<1>6. CASE e[j + 1] \in M /\ f = Null
  <2>1. obj_put_step(r, M) = PutState(K, nx, nx.cur)
    BY <1>1, <1>2, <1>4, <1>6, PutStepIs
  <2>2. PutKept(e, M, j, t, c, Null)
    BY <1>1, <1>6
  <2>3. PICK g : g = e[j + 1] /\ g \in M
    BY <1>6
  <2>4. PutKept(e, M, j + 1, t, c + 1, g)
    BY <1>3, <2>2, <2>3, PutKeepsFirst
  <2> QED BY <1>4, <2>1, <2>3, <2>4 DEF PutDoes
<1>7. CASE e[j + 1] \in M /\ f # Null
  <2>1. PICK N, h, u : N = iter_remove_list(K, nx) /\ h = iter_remove_iter(nx) /\ u = Cut(t, c, 1)
    OBVIOUS
  <2>2. obj_put_step(r, M) = PutState(N, h, f)
    BY <1>1, <1>2, <1>4, <1>7, <2>1, PutStepIs
  <2>3. PutKept(e, M, j + 1, u, c, f)
    BY <1>1, <1>3, <1>7, <2>1, PutKeepsOne
  <2>4. PutStands(e, j + 1, N, h, u, c)
    BY <1>1, <1>2, <2>1, PutRemoveStands
  <2> QED BY <2>2, <2>3, <2>4 DEF PutDoes
<1> QED BY <1>5, <1>6, <1>7

\* What obj_put makes of the pairs e.
PutResult(e, M, r, t) ==
  /\ IsRing(r.L, t)
  /\ \A k \in 1 .. Len(t) : \E h \in 1 .. Len(e) : t[k] = e[h]
  /\ Among(t, Node \ M) = Among(e, Node \ M)
  /\ r.first = Null => \A k \in 1 .. Len(e) : e[k] \notin M
  /\ r.first # Null => r.first \in M /\ r.first \in Node /\ Among(t, M) = <<r.first>>

LEMMA PutRing ==
  ASSUME NEW L \in RecordType, NEW e, IsRing(L, e), NEW M
  PROVE  \E t : PutResult(e, M, obj_put(L, M), t)
<1>1. PICK n \in Nat : n = L.len /\ n = Len(e)
  BY RingFacts
<1>2. PICK q : PutRun(L, M, n, q) /\ obj_put(L, M) = q[n]
  BY <1>1, PutRecursion
<1>3. e \in Seq(Node) /\ IsInjective(e) /\ L.next \in [Node -> Node \cup {Null}]
      /\ L.ptr \in Node \cup {Null} /\ (n > 0 => L.ptr = e[n])
  BY <1>1 DEF IsRing, RecordType
<1> DEFINE T == {j \in Nat : j <= n => PutDoes(e, M, j, q[j])}
<1>4. 0 \in T
  <2>1. PICK a \in Node \cup {Null} : a = IF L.len = 0 THEN Null ELSE L.ptr
    BY <1>3
  <2>2. PICK it : it = [idx |-> 0, max |-> n, cur |-> a, pre |-> Null]
    OBVIOUS
  <2>3. it = iter_init(L)
    BY <1>1, <2>1, <2>2 DEF iter_init
  <2>4. it \in WalkIter /\ it.idx = 0 /\ it.max = n /\ it.cur = a
    BY <2>2 DEF WalkIter
  <2>5. ASSUME n > 0 PROVE a = Place(e, 0)
    <3>1. L.len # 0
      BY <1>1, <2>5
    <3>2. a = L.ptr
      BY <2>1, <3>1
    <3> QED BY <1>1, <1>3, <2>5, <3>2 DEF Place
  <2>6. Ahead(e, 0, e, 0)
    <3>1. 0 \in Nat /\ 0 <= 0 /\ 0 <= Len(e) /\ Len(e) = 0 + (Len(e) - 0)
      BY <1>1
    <3>2. \A k \in 1 .. Len(e) - 0 : e[0 + k] = e[0 + k]
      OBVIOUS
    <3> QED BY <1>3, <3>1, <3>2 DEF Ahead
  <2>7. PutStands(e, 0, L, it, e, 0)
    BY <1>1, <1>3, <2>4, <2>5, <2>6 DEF PutStands
  <2>8. PutKept(e, M, 0, e, 0, Null)
    <3>1. \A k \in 1 .. 0 : e[k] \notin M
      OBVIOUS
    <3>2. \A k \in 1 .. Len(e) : \E h \in 1 .. Len(e) : e[k] = e[h]
      OBVIOUS
    <3> QED BY <3>1, <3>2 DEF PutKept
  <2>9. q[0] = PutState(L, it, Null)
    BY <1>2, <2>3 DEF PutRun
  <2>10. PutDoes(e, M, 0, q[0])
    BY <2>7, <2>8, <2>9 DEF PutDoes
  <2> QED BY <2>10
<1>5. \A j \in T \cap Nat : j + 1 \in T
  <2> SUFFICES ASSUME NEW j \in Nat, j \in T, j + 1 <= n PROVE PutDoes(e, M, j + 1, q[j + 1])
    OBVIOUS
  <2>1. PutDoes(e, M, j, q[j]) /\ j < Len(e)
    BY <1>1
  <2>2. q[j + 1] = obj_put_step(q[j], M)
    <3>1. j + 1 \in 1 .. n /\ (j + 1) - 1 = j
      OBVIOUS
    <3> QED BY <1>2, <3>1 DEF PutRun
  <2> HIDE DEF T
  <2> QED BY <2>1, <2>2, PutStepDoes
<1>6. PutDoes(e, M, n, q[n])
  <2>1. n \in T
    <3> HIDE DEF T
    <3> QED BY <1>4, <1>5, NaturalInduction
  <2> QED BY <2>1
<1>7. PICK K, it, f, t, c :
        /\ q[n] = PutState(K, it, f)
        /\ PutStands(e, n, K, it, t, c)
        /\ PutKept(e, M, n, t, c, f)
  BY <1>6 DEF PutDoes
<1>8. PICK r : r = obj_put(L, M)
  OBVIOUS
<1>9. r.L = K /\ r.first = f
  BY <1>2, <1>7, <1>8 DEF PutState
<1>10. Prefix(t, c) = t /\ Prefix(e, n) = e /\ IsRing(K, t)
  <2>1. Ahead(e, n, t, c) /\ IsRing(K, t)
    BY <1>7 DEF PutStands
  <2> QED BY <1>1, <2>1, AheadEnd
<1>11. PutResult(e, M, r, t)
  <2>1. Among(t, Node \ M) = Among(e, Node \ M)
    BY <1>7, <1>10 DEF PutKept
  <2>2. f # Null => f \in M /\ f \in Node /\ Among(t, M) = <<f>>
    BY <1>7, <1>10 DEF PutKept
  <2>3. f = Null => \A k \in 1 .. Len(e) : e[k] \notin M
    BY <1>1, <1>7 DEF PutKept
  <2> QED BY <1>7, <1>9, <1>10, <2>1, <2>2, <2>3 DEF PutKept, PutResult
<1> QED BY <1>8, <1>11

-----------------------------------------------------------------------------
\* The pairs kept so far are those not in M.
RemoveKept(e, M, j, t, c) == Prefix(t, c) = Among(Prefix(e, j), Node \ M)

LEMMA RemoveKeepsOther ==
  ASSUME NEW e, NEW j, NEW t, NEW c, Ahead(e, j, t, c), j < Len(e), NEW M,
         RemoveKept(e, M, j, t, c), e[j + 1] \notin M
  PROVE  RemoveKept(e, M, j + 1, t, c + 1)
<1>1. AheadOne(e, j, t, c)
  BY AheadNext
<1>2. /\ e \in Seq(Node) /\ t \in Seq(Node) /\ j \in Nat /\ c \in Nat /\ c < Len(t)
  BY <1>1 DEF Ahead, AheadOne
<1>3. PICK v \in Node : v = e[j + 1] /\ v = t[c + 1] /\ v \notin M
  BY <1>1 DEF AheadOne
<1>4. Prefix(t, c + 1) = Append(Prefix(t, c), v)
  <2>1. PICK p, q : p = Prefix(t, c) /\ q = Prefix(t, c + 1)
    OBVIOUS
  <2>2. p \in Seq(Node) /\ Len(p) = c /\ \A k \in 1 .. c : p[k] = t[k]
    BY <1>2, <2>1, PrefixIs
  <2>3. PICK d \in Nat : d = c + 1 /\ d <= Len(t)
    BY <1>2
  <2>4. q \in Seq(Node) /\ Len(q) = d /\ \A k \in 1 .. d : q[k] = t[k]
    BY <1>2, <2>1, <2>3, PrefixIs
  <2>5. q = Append(p, v)
    <3>1. \A k \in 1 .. d : q[k] = Append(p, v)[k]
      <4> SUFFICES ASSUME NEW k \in 1 .. d PROVE q[k] = Append(p, v)[k]
        OBVIOUS
      <4>1. CASE k = d
        BY <1>3, <2>2, <2>3, <2>4, <4>1
      <4>2. CASE k # d
        <5>1. k \in 1 .. c
          BY <1>2, <2>3, <4>2
        <5>2. q[k] = t[k] /\ p[k] = t[k]
          BY <2>2, <2>4, <5>1
        <5> QED BY <2>2, <5>1, <5>2
      <4> QED BY <4>1, <4>2
    <3>2. Append(p, v) \in Seq(Node) /\ Len(Append(p, v)) = d
      BY <2>2, <2>3
    <3> QED BY <2>4, <3>1, <3>2
  <2> QED BY <2>1, <2>5
<1>5. Among(Prefix(e, j + 1), Node \ M) = Append(Among(Prefix(e, j), Node \ M), v)
  <2>1. OneMore(e, j, Node \ M)
    BY <1>2, AmongNext
  <2> QED BY <1>3, <2>1 DEF OneMore, AmongStep
<1> QED BY <1>4, <1>5 DEF RemoveKept

LEMMA RemoveDropsOne ==
  ASSUME NEW e, NEW j, NEW t, NEW c, Ahead(e, j, t, c), j < Len(e), NEW M,
         RemoveKept(e, M, j, t, c), e[j + 1] \in M, NEW u, u = Cut(t, c, 1)
  PROVE  RemoveKept(e, M, j + 1, u, c)
<1>1. AheadOne(e, j, t, c)
  BY AheadNext
<1>2. /\ e \in Seq(Node) /\ j \in Nat
  BY <1>1 DEF Ahead, AheadOne
<1>3. Among(Prefix(e, j + 1), Node \ M) = Among(Prefix(e, j), Node \ M)
  <2>1. OneMore(e, j, Node \ M)
    BY <1>2, AmongNext
  <2> QED BY <2>1 DEF OneMore, AmongStep
<1>4. \A k \in 1 .. c : u[k] = t[k]
  <2>1. OneCut(e, j, t, c, u)
    BY AheadCut
  <2> QED BY <2>1 DEF OneCut
<1>5. Prefix(u, c) = Prefix(t, c)
  BY <1>4 DEF Prefix
<1> QED BY <1>3, <1>5 DEF RemoveKept

RemoveDoes(e, M, j, r) ==
  \E K, p, t, c :
    /\ r = RemoveState(K, p, c)
    /\ Ahead(e, j, t, c) /\ IsRing(K, t) /\ K \in RecordType
    /\ RemoveKept(e, M, j, t, c)
    /\ Len(t) > 0 => p = Place(t, c)
    /\ \A k \in 1 .. Len(t) : \E h \in 1 .. Len(e) : t[k] = e[h]

LEMMA RemoveStepDoes ==
  ASSUME NEW e, Len(e) < SizeMax, NEW j, j < Len(e), NEW M, NEW r, RemoveDoes(e, M, j, r)
  PROVE  RemoveDoes(e, M, j + 1, obj_remove_key_step(r, M))
<1>1. PICK K, p, t, c :
        /\ r = RemoveState(K, p, c)
        /\ Ahead(e, j, t, c) /\ IsRing(K, t) /\ K \in RecordType
        /\ RemoveKept(e, M, j, t, c)
        /\ Len(t) > 0 => p = Place(t, c)
        /\ \A k \in 1 .. Len(t) : \E h \in 1 .. Len(e) : t[k] = e[h]
  BY DEF RemoveDoes
<1>2. AheadOne(e, j, t, c)
  BY <1>1, AheadNext
<1>3. PICK n \in Nat, m \in Nat, d \in Nat :
        /\ n = Len(e) /\ m = Len(t) /\ d = c + 1 /\ d \in 1 .. m /\ c \in Nat /\ c < m /\ m > 0 /\ m <= n
        /\ t[d] = e[j + 1] /\ t[d] \in Node /\ d # 0
        /\ Ahead(e, j + 1, t, d)
  <2>1. c \in Nat /\ Len(t) \in Nat /\ Len(e) \in Nat /\ Len(t) <= Len(e)
    BY <1>1 DEF Ahead
  <2>2. /\ c + 1 \in 1 .. Len(t) /\ t[c + 1] = e[j + 1] /\ t[c + 1] \in Node /\ c < Len(t)
        /\ Ahead(e, j + 1, t, c + 1)
    BY <1>2 DEF AheadOne
  <2>3. Len(t) > 0 /\ c + 1 # 0
    BY <2>1, <2>2
  <2> QED BY <2>1, <2>2, <2>3
<1>4. p = Place(t, c) /\ p \in Node
  <2>1. \A k \in 1 .. m : t[k] \in Node
    BY <1>1, <1>3, RingFacts
  <2>2. m \in 1 .. m /\ (c # 0 => c \in 1 .. m)
    BY <1>3
  <2> QED BY <1>1, <1>3, <2>1, <2>2 DEF Place
<1>5. PICK one \in Nat : one = 1 /\ one > 0 /\ c + one <= Len(t)
  BY <1>3
<1>6. K.next[p] = t[d] /\ p = Walk(K, K.ptr, c)
  BY <1>1, <1>3, <1>4, <1>5, RingReach
<1>7. CASE t[d] \notin M
  <2>1. obj_remove_key_step(r, M) = RemoveState(K, t[d], d)
    BY <1>1, <1>3, <1>6, <1>7, RemoveStepIs
  <2>2. t[d] = Place(t, d)
    BY <1>3 DEF Place
  <2>3. RemoveKept(e, M, j + 1, t, d)
    BY <1>1, <1>3, <1>7, RemoveKeepsOther
  <2> QED BY <1>1, <1>3, <2>1, <2>2, <2>3 DEF RemoveDoes
<1>8. CASE t[d] \in M
  <2>1. K.len = m /\ Sound(K, t)
    <3>1. K.len = m
      BY <1>1, <1>3, RingFacts
    <3>2. m < SizeMax
      BY <1>3, NodeAssumption
    <3> QED BY <1>1, <3>1, <3>2 DEF Sound
  <2>2. PICK tail \in BOOLEAN : tail = (d = m)
    OBVIOUS
  <2>3. PICK N : N = Unlink(K, p, 1, tail)
    OBVIOUS
  <2>4. obj_remove_key_step(r, M) = RemoveState(N, p, c)
    BY <1>1, <1>3, <1>6, <1>8, <2>1, <2>2, <2>3, RemoveStepIs
  <2>5. PICK u : u = Cut(t, c, 1)
    OBVIOUS
  <2>6. OneCut(e, j, t, c, u)
    BY <1>1, <2>5, AheadCut
  <2>7. PICK to \in Node \cup {Null}, l \in Nat :
          to = Walk(K, K.next[p], 1) /\ l = m - 1 /\ l = Sz(K.len - 1)
    <3>1. K.next[t[d]] \in Node \cup {Null}
      BY <1>1, <1>3 DEF RecordType
    <3>2. Walk(K, K.next[p], 1) = K.next[t[d]]
      BY <1>6, WalkOne
    <3>3. m - 1 \in Nat
      BY <1>3
    <3>4. Sz(K.len - 1) = m - 1
      <4>1. SizeMax \in Nat /\ m - 1 \in 0 .. SizeMax
        BY <1>3, <2>1, NodeAssumption DEF Sound
      <4>2. \A x \in 0 .. SizeMax : x % (SizeMax + 1) = x
        BY <4>1
      <4> QED BY <2>1, <4>1, <4>2 DEF Sz
    <3> QED BY <3>1, <3>2, <3>3, <3>4
  <2>8. PICK last \in Node \cup {Null} : last = IF tail THEN p ELSE K.ptr
    BY <1>1, <1>4 DEF RecordType
  <2>9. N = [next |-> [K.next EXCEPT ![p] = to], ptr |-> last, len |-> l]
    BY <2>3, <2>7, <2>8, Zenon DEF Unlink
  <2>10. N \in RecordType /\ N.len = m - 1
    BY <1>1, <1>4, <2>7, <2>9 DEF RecordType
  <2>11. IsRing(N, u)
    <3>1. Unlinked(K, t, c, one, N)
      <4>1. CASE m = 1
        <5>1. N.len = Len(t) - one /\ ~(one < Len(t))
          BY <1>3, <1>5, <2>10, <4>1
        <5> QED BY <5>1 DEF Unlinked
      <4>2. CASE m # 1
        <5>1. one < Len(t) /\ (tail <=> c + one = Len(t))
          <6>1. tail <=> d = m
            BY <2>2
          <6>2. one < Len(t)
            BY <1>3, <1>5, <4>2
          <6>3. d = m <=> c + one = Len(t)
            BY <1>3, <1>5
          <6> QED BY <6>1, <6>2, <6>3
        <5>2. Unlinked(K, t, c, one, Unlink(K, p, one, tail))
          BY <1>3, <1>5, <1>6, <2>1, <5>1, UnlinkUnlinks
        <5> QED BY <1>5, <2>3, <5>2
      <4> QED BY <4>1, <4>2
    <3>2. IsRing(N, Cut(t, c, one))
      <4>1. K.next \in [Node -> Node \cup {Null}]
        BY <1>1 DEF RecordType
      <4> QED BY <1>1, <1>3, <1>5, <3>1, <4>1, CutRing
    <3> QED BY <1>5, <2>5, <3>2
  <2>12. Len(u) > 0 => p = Place(u, c)
    BY <1>4, <2>6 DEF OneCut
  <2>13. \A k \in 1 .. Len(u) : \E h \in 1 .. Len(e) : u[k] = e[h]
    <3>1. \A k \in 1 .. Len(u) : \E h \in 1 .. Len(t) : u[k] = t[h]
      BY <2>6, Zenon DEF OneCut
    <3> QED BY <1>1, <3>1, Zenon
  <2>14. Ahead(e, j + 1, u, c)
    BY <2>6 DEF OneCut
  <2>15. RemoveKept(e, M, j + 1, u, c)
    BY <1>1, <1>3, <1>8, <2>5, RemoveDropsOne
  <2> QED BY <2>4, <2>10, <2>11, <2>12, <2>13, <2>14, <2>15 DEF RemoveDoes
<1> QED BY <1>7, <1>8

LEMMA RemoveKeyRing ==
  ASSUME NEW L, NEW e, Sound(L, e), NEW M
  PROVE  \E t : /\ IsRing(obj_remove_key(L, M), t) /\ t = Among(e, Node \ M)
                /\ \A k \in 1 .. Len(t) : \E h \in 1 .. Len(e) : t[k] = e[h]
<1>1. PICK n \in Nat : n = L.len /\ n = Len(e) /\ n < SizeMax /\ L \in RecordType /\ IsRing(L, e)
  BY SoundFacts DEF Sound
<1>2. PICK q : RemoveRun(L, M, n, q) /\ obj_remove_key(L, M) = q[n].L
  BY <1>1, RemoveRecursion
<1>3. e \in Seq(Node) /\ IsInjective(e) /\ (n > 0 => L.ptr = e[n])
  BY <1>1 DEF IsRing
<1> DEFINE T == {j \in Nat : j <= n => RemoveDoes(e, M, j, q[j])}
<1>4. 0 \in T
  <2>1. Ahead(e, 0, e, 0)
    <3>1. 0 \in Nat /\ 0 <= 0 /\ 0 <= Len(e) /\ Len(e) = 0 + (Len(e) - 0)
      BY <1>1
    <3>2. \A k \in 1 .. Len(e) - 0 : e[0 + k] = e[0 + k]
      OBVIOUS
    <3> QED BY <1>3, <3>1, <3>2 DEF Ahead
  <2>2. q[0] = RemoveState(L, L.ptr, 0)
    BY <1>2 DEF RemoveRun
  <2>3. Len(e) > 0 => L.ptr = Place(e, 0)
    BY <1>1, <1>3 DEF Place
  <2>4. \A k \in 1 .. Len(e) : \E h \in 1 .. Len(e) : e[k] = e[h]
    OBVIOUS
  <2>5. RemoveKept(e, M, 0, e, 0)
    <3>1. 0 <= Len(e) /\ 0 \in Nat
      BY <1>1
    <3>2. Prefix(e, 0) \in Seq(Node) /\ Len(Prefix(e, 0)) = 0
      BY <1>3, <3>1, PrefixIs
    <3>3. Among(Prefix(e, 0), Node \ M) = << >>
      BY <3>2, AmongNone
    <3> QED BY <3>2, <3>3 DEF RemoveKept
  <2>6. RemoveDoes(e, M, 0, q[0])
    BY <1>1, <2>1, <2>2, <2>3, <2>4, <2>5 DEF RemoveDoes
  <2> QED BY <2>6
<1>5. \A j \in T \cap Nat : j + 1 \in T
  <2> SUFFICES ASSUME NEW j \in Nat, j \in T, j + 1 <= n PROVE RemoveDoes(e, M, j + 1, q[j + 1])
    OBVIOUS
  <2>1. RemoveDoes(e, M, j, q[j]) /\ j < Len(e) /\ Len(e) < SizeMax
    BY <1>1
  <2>2. q[j + 1] = obj_remove_key_step(q[j], M)
    <3>1. j + 1 \in 1 .. n /\ (j + 1) - 1 = j
      OBVIOUS
    <3> QED BY <1>2, <3>1 DEF RemoveRun
  <2> HIDE DEF T
  <2> QED BY <2>1, <2>2, RemoveStepDoes
<1>6. RemoveDoes(e, M, n, q[n])
  <2>1. n \in T
    <3> HIDE DEF T
    <3> QED BY <1>4, <1>5, NaturalInduction
  <2> QED BY <2>1
<1>7. PICK K, p, t, c :
        /\ q[n] = RemoveState(K, p, c) /\ IsRing(K, t)
        /\ Ahead(e, n, t, c) /\ RemoveKept(e, M, n, t, c)
        /\ \A k \in 1 .. Len(t) : \E h \in 1 .. Len(e) : t[k] = e[h]
  BY <1>6 DEF RemoveDoes
<1>8. obj_remove_key(L, M) = K
  BY <1>2, <1>7 DEF RemoveState
<1>9. t = Among(e, Node \ M)
  <2>1. Prefix(t, c) = t /\ Prefix(e, n) = e
    BY <1>1, <1>7, AheadEnd
  <2> QED BY <1>7, <2>1 DEF RemoveKept
<1> QED BY <1>7, <1>8, <1>9

-----------------------------------------------------------------------------
(* Careful callers: the ring is sound and the iterators are in step with it *)

\* An iterator in step with the ring L, that handed out c last.
Stands(L, it, c) ==
  /\ it.m_initialized
  /\ it.max = L.len
  /\ L.len > 0 => it.cur = Walk(L, L.ptr, it.idx)
  /\ c \in Node => /\ it.idx > 0
                   /\ it.cur = c
                   /\ it.m_currentKey = c
                   /\ it.pre = Walk(L, L.ptr, it.idx - 1)

\* An iterator that stands somewhere on the ring L and knows its length.
Fits(L, it) ==
  /\ it.max = L.len
  /\ L.len > 0 => it.cur \in ToSet(Elements(L))

InStep(i) ==
  /\ current[i] # Void => isObj /\ Stands(obj, iter[i], current[i])
  /\ intact[i] => isObj /\ Fits(obj, iter[i])

WellKept ==
  careful =>
    /\ isObj => IsRing(obj, Elements(obj))
    /\ \A i \in Iter : IsOpen(i) => InStep(i)

LEMMA ElementsFacts ==
  ASSUME Followable, WellKept, careful, isObj
  PROVE  /\ Sound(obj, Elements(obj))
         /\ Elements(obj) \in Seq(Node) /\ Len(Elements(obj)) = obj.len
         /\ obj.len \in Nat /\ obj_size = obj.len
         /\ \A v \in Fresh : v \in Node /\ \A k \in 1 .. Len(Elements(obj)) : Elements(obj)[k] # v
<1>1. ObjectLoose /\ IsRing(obj, Elements(obj))
  BY DEF Followable, WellKept
<1>2. obj \in RecordType /\ obj.len < SizeMax /\ obj.len \in Nat
  BY <1>1, ObjectFacts DEF ObjectLoose, Loose
<1>3. Elements(obj) \in Seq(Linked) /\ Len(Elements(obj)) = obj.len
  BY <1>1, ElementsAreLinked
<1>4. \A k \in 1 .. Len(Elements(obj)) : Elements(obj)[k] \in Linked
  BY <1>3
<1>5. \A v \in Fresh : v \in Node \ Linked
  BY <1>1, ObjectFacts
<1>6. Elements(obj) \in Seq(Node)
  BY <1>1 DEF IsRing
<1> QED BY <1>1, <1>2, <1>3, <1>4, <1>5, <1>6 DEF Sound, obj_size

\* No pair but those that were there.
NoOthers(t, e) == \A k \in 1 .. Len(t) : \E h \in 1 .. Len(e) : t[k] = e[h]

\* What each call through a handle makes of the pairs: t.
SetReplaced(k, x, t) ==
  LET r == obj_put(obj, Named(k))
  IN  /\ PutResult(Elements(obj), Named(k), r, t)
      /\ r.first # Null
      /\ Put(r.L) /\ key' = key /\ val' = [val EXCEPT ![r.first] = x]

SetAdded(k, x, n, t) ==
  /\ n \in Node /\ \A h \in 1 .. Len(Elements(obj)) : Elements(obj)[h] # n /\ Elements(obj)[h] \notin Named(k)
  /\ IsRing(obj', t) /\ t = Append(Elements(obj), n)
  /\ Put(arr_append(obj, n)) /\ key' = [key EXCEPT ![n] = k] /\ val' = [val EXCEPT ![n] = x]

LEMMA SetEdit ==
  ASSUME Followable, WellKept, careful, NEW k \in Key, NEW x \in Value, ObjectSet(k, x)
  PROVE  \E t : SetReplaced(k, x, t) \/ \E n : SetAdded(k, x, n, t)
<1>1. PICK r, M : r = obj_put(obj, M) /\ M = Named(k)
  OBVIOUS
<1>2. isObj
  BY DEF ObjectSet
<1>3. PICK e : e = Elements(obj)
  OBVIOUS
<1>4. Sound(obj, e) /\ e \in Seq(Node) /\ Len(e) = obj.len
  BY <1>2, <1>3, ElementsFacts
<1>5. obj \in RecordType /\ IsRing(obj, e) /\ obj.next \in [Node -> Node \cup {Null}]
  BY <1>4, SoundFacts DEF Sound
<1>6. PICK t : PutResult(e, M, r, t)
  BY <1>1, <1>5, PutRing
<1>7. CASE r.first # Null
  <2>1. Put(r.L) /\ key' = key /\ val' = [val EXCEPT ![r.first] = x]
    BY <1>1, <1>7 DEF ObjectSet
  <2> QED BY <1>1, <1>3, <1>6, <1>7, <2>1 DEF SetReplaced
<1>8. CASE r.first = Null
  <2>1. PICK n \in Fresh : /\ Put(arr_append(obj, n))
                           /\ key' = [key EXCEPT ![n] = k]
                           /\ val' = [val EXCEPT ![n] = x]
    BY <1>1, <1>8 DEF ObjectSet
  <2>2. n \in Node /\ \A h \in 1 .. Len(e) : e[h] # n
    BY <1>2, <1>3, ElementsFacts
  <2>3. \A h \in 1 .. Len(e) : e[h] \notin M
    BY <1>6, <1>8 DEF PutResult
  <2>4. PICK i : i = obj.len /\ i \in 0 .. Len(e) /\ i = Len(e)
    BY <1>4
  <2>5. obj' = arr_insert(obj, n, i)
    BY <2>1, <2>4 DEF Put, arr_append
  <2>6. IsRing(arr_insert(obj, n, i), Put1(e, i, n))
    BY <1>5, <2>2, <2>4, InsertRing
  <2>7. Put1(e, i, n) = Append(e, n)
    BY <1>4, <2>2, <2>4, Put1EndsIs
  <2>8. IsRing(obj', Append(e, n))
    BY <2>5, <2>6, <2>7
  <2> QED BY <1>1, <1>3, <2>1, <2>2, <2>3, <2>8 DEF SetAdded
<1> QED BY <1>7, <1>8

LEMMA RemoveEdit ==
  ASSUME Followable, WellKept, careful, NEW k \in Key, ObjectRemove(k)
  PROVE  \E t : /\ IsRing(obj', t) /\ NoOthers(t, Elements(obj))
                /\ t = Among(Elements(obj), Node \ Named(k))
<1>1. isObj /\ obj' = obj_remove_key(obj, Named(k))
  BY DEF ObjectRemove, Put
<1>2. Sound(obj, Elements(obj))
  BY <1>1, ElementsFacts
<1> QED BY <1>1, <1>2, RemoveKeyRing DEF NoOthers

LEMMA ClearEdit ==
  ASSUME Followable, ObjectClear
  PROVE  IsRing(obj', << >>)
<1>1. obj' = arr_clear(obj) /\ obj \in RecordType
  BY DEF ObjectClear, Put, Followable, ObjectLoose, Loose
<1> QED BY <1>1, ClearRing

LEMMA RotateEdit ==
  ASSUME Followable, WellKept, careful, NEW i \in Size, ObjectRotate(i)
  PROVE  \E t : IsRing(obj', t) /\ NoOthers(t, Elements(obj))
<1>1. isObj /\ obj' = arr_rotate(obj, i) /\ i < obj_size
  BY DEF ObjectRotate, Put
<1>2. PICK s : s = Elements(obj)
  OBVIOUS
<1>3. Sound(obj, s) /\ s \in Seq(Node) /\ Len(s) = obj_size
  BY <1>1, <1>2, ElementsFacts
<1>4. PICK n \in Nat : n = Len(s) /\ i \in Nat /\ i < n
  BY <1>1, <1>3 DEF Size
<1>5. IsRing(arr_rotate(obj, i), Turn(s, i))
  BY <1>3, <1>4, RotateRing
<1>6. PICK t : t = Turn(s, i)
  OBVIOUS
<1>7. t = [k \in 1 .. n |-> IF k + i <= n THEN s[k + i] ELSE s[k + i - n]]
  BY <1>4, <1>6 DEF Turn
<1>8. Len(t) = n
  <2>1. t \in Seq(Node)
    BY <1>5, <1>6 DEF IsRing
  <2>2. DOMAIN t = 1 .. n
    BY <1>7
  <2> QED BY <2>1, <2>2
<1>9. ASSUME NEW k \in 1 .. n PROVE \E h \in 1 .. n : t[k] = s[h]
  <2>1. CASE k + i <= n
    <3>1. k + i \in 1 .. n /\ t[k] = s[k + i]
      BY <1>4, <1>7, <2>1
    <3> QED BY <3>1
  <2>2. CASE ~(k + i <= n)
    <3>1. k + i - n \in 1 .. n /\ t[k] = s[k + i - n]
      BY <1>4, <1>7, <2>2
    <3> QED BY <3>1
  <2> QED BY <2>1, <2>2
<1>10. NoOthers(t, s)
  BY <1>4, <1>8, <1>9 DEF NoOthers
<1> QED BY <1>1, <1>2, <1>5, <1>6, <1>10

LEMMA SortEdit ==
  ASSUME Followable, WellKept, careful, NEW p \in Orders(obj_size), ObjectSort(p)
  PROVE  \E t : IsRing(obj', t) /\ NoOthers(t, Elements(obj))
<1>1. isObj /\ obj' = append_all(arr_clear(obj), [k \in 1 .. obj_size |-> Elements(obj)[p[k]]])
  BY DEF ObjectSort, Put
<1>2. PICK e : e = Elements(obj)
  OBVIOUS
<1>3. PICK n \in Nat : n = obj_size /\ n = Len(e)
  BY <1>1, <1>2, ElementsFacts
<1>4. e \in Seq(Node) /\ IsInjective(e) /\ obj \in RecordType
  BY <1>1, <1>2, ElementsFacts, SoundFacts DEF Sound
<1>5. /\ p \in [1 .. n -> 1 .. n]
      /\ \A j, k \in 1 .. n : p[j] = p[k] => j = k
  BY <1>3 DEF Orders, Bijection, Injection, Surjection, IsInjective
<1>6. PICK s : s = [k \in 1 .. n |-> e[p[k]]]
  OBVIOUS
<1>7. /\ DOMAIN e = 1 .. n /\ \A k \in 1 .. n : e[k] \in Node
      /\ \A j, k \in 1 .. n : e[j] = e[k] => j = k
  BY <1>3, <1>4 DEF IsInjective
<1>8. s \in Seq(Node) /\ Len(s) = n /\ DOMAIN s = 1 .. n /\ \A k \in 1 .. n : s[k] = e[p[k]]
  <2>1. \A k \in 1 .. n : e[p[k]] \in Node
    BY <1>5, <1>7
  <2> QED BY <1>6, <2>1
<1>9. IsInjective(s)
  <2>1. \A j, k \in 1 .. n : s[j] = s[k] => j = k
    <3> TAKE j, k \in 1 .. n
    <3>1. s[j] = e[p[j]] /\ s[k] = e[p[k]] /\ p[j] \in 1 .. n /\ p[k] \in 1 .. n
      BY <1>5, <1>8
    <3>2. s[j] = s[k] => p[j] = p[k]
      BY <1>7, <3>1
    <3> QED BY <1>5, <3>2
  <2> QED BY <1>8, <2>1 DEF IsInjective
<1>10. PICK K : K = arr_clear(obj) /\ K \in RecordType /\ K.len = 0
  <2>1. PICK K : K = [obj EXCEPT !.len = 0]
    OBVIOUS
  <2>2. K \in RecordType /\ K.len = 0
    BY <1>4, <2>1 DEF RecordType
  <2> QED BY <2>1, <2>2 DEF arr_clear
<1>11. IsRing(append_all(K, s), s)
  <2>1. s \in Seq(Node) /\ K \in RecordType /\ K.len = 0
    BY <1>8, <1>10
  <2> QED BY <1>9, <2>1, AppendAllRing
<1>12. obj' = append_all(K, s)
  BY <1>1, <1>2, <1>3, <1>6, <1>10
<1>13. NoOthers(s, e)
  BY <1>3, <1>5, <1>8 DEF NoOthers
<1> QED BY <1>2, <1>11, <1>12, <1>13

LEMMA MadeRing == ASSUME Init PROVE \E s : IsRing(obj, s)
<1>1. PICK s \in BoundedSeq(Node, MaxInit) : IsInjective(s) /\ obj = append_all(EmptyList, s)
  BY DEF Init
<1>2. s \in Seq(Node)
  <2>1. PICK n \in 0 .. MaxInit : s \in [1 .. n -> Node]
    BY <1>1, Zenon DEF BoundedSeq, SeqOf
  <2> QED BY <2>1, BoundAssumption
<1>3. PICK K : K = EmptyList /\ K \in RecordType /\ K.len = 0
  <2>1. PICK f \in [Node -> Node \cup {Null}] : f = [n \in Node |-> Null]
    OBVIOUS
  <2>2. EmptyList = [next |-> f, ptr |-> Null, len |-> 0]
    BY <2>1, Zenon DEF EmptyList
  <2>3. EmptyList \in RecordType /\ EmptyList.len = 0
    BY <2>2 DEF RecordType
  <2> QED BY <2>3
<1>4. IsRing(append_all(K, s), s)
  BY <1>1, <1>2, <1>3, AppendAllRing
<1> QED BY <1>1, <1>3, <1>4

LEMMA InitWellKept == Init => WellKept
<1> SUFFICES ASSUME Init PROVE WellKept
  OBVIOUS
<1>1. IsRing(obj, Elements(obj))
  BY MadeRing, RingElements
<1>2. \A i \in Iter : ~IsOpen(i)
  BY DEF Init, IsOpen
<1> QED BY <1>1, <1>2 DEF WellKept

\* A call through a handle keeps what it leaves: either the ring is just as it
\* was, or no open iterator is in step with it any more.
LEMMA PutWellKept ==
  ASSUME Followable, WellKept, NEW L, Put(L), careful => \E t : IsRing(L, t)
  PROVE  WellKept'
<1> SUFFICES ASSUME careful' PROVE WellKept'
  BY DEF WellKept
<1>1. obj' = L /\ isObj /\ isObj' = isObj /\ iter' = iter /\ careful' = careful
  BY DEF Put
<1>2. PICK t : IsRing(L, t)
  BY <1>1
<1>3. IsRing(obj', Elements(obj'))
  <2>1. Elements(L) = t
    BY <1>2, RingElements
  <2> QED BY <1>1, <1>2, <2>1
<1>4. ASSUME NEW i \in Iter, IsOpen(i)' PROVE InStep(i)'
  <2>1. IsOpen(i)
    BY <1>1, <1>4 DEF IsOpen
  <2>2. CASE L = obj
    <3>1. Overtake({})
      BY <2>2 DEF Put
    <3>2. current'[i] = current[i] /\ obj' = obj
      BY <1>1, <2>2, <3>1 DEF Overtake
    <3>3. intact'[i] => intact[i]
      BY <3>1 DEF Overtake
    <3>4. InStep(i)
      BY <1>1, <2>1 DEF WellKept
    <3> QED BY <1>1, <3>2, <3>3, <3>4 DEF InStep
  <2>3. CASE L # obj
    <3>1. Overtake(Iter)
      BY <2>3 DEF Put
    <3>2. current'[i] = Void /\ ~intact'[i]
      BY <2>1, <3>1 DEF Overtake
    <3> QED BY <3>2 DEF InStep
  <2> QED BY <2>2, <2>3
<1> QED BY <1>3, <1>4 DEF WellKept

LEMMA SetScalarWellKept ==
  ASSUME Followable, WellKept, SetScalar
  PROVE  WellKept'
<1>1. ~isObj' /\ iter' = iter /\ Overtake(Iter)
  BY DEF SetScalar
<1>2. ASSUME NEW i \in Iter, IsOpen(i)' PROVE InStep(i)'
  <2>1. IsOpen(i)
    BY <1>1, <1>2 DEF IsOpen
  <2>2. current'[i] = Void /\ ~intact'[i]
    BY <1>1, <2>1 DEF Overtake
  <2> QED BY <2>2 DEF InStep
<1> QED BY <1>1, <1>2 DEF WellKept

\* What a call through a handle leaves is the ring of some pairs.
LEMMA HandleRing ==
  ASSUME Followable, WellKept, careful, HandleCall, isObj'
  PROVE  /\ Put(obj')
         /\ \E t : IsRing(obj', t)
<1>1. ASSUME NEW k \in Key, NEW x \in Value, ObjectSet(k, x)
      PROVE  Put(obj') /\ \E t : IsRing(obj', t)
  <2>1. PICK t : SetReplaced(k, x, t) \/ \E n : SetAdded(k, x, n, t)
    BY <1>1, SetEdit
  <2>2. CASE SetReplaced(k, x, t)
    <3>1. PICK r : r = obj_put(obj, Named(k)) /\ Put(r.L) /\ IsRing(r.L, t)
      BY <2>2 DEF SetReplaced, PutResult
    <3>2. obj' = r.L
      BY <3>1 DEF Put
    <3> QED BY <3>1, <3>2
  <2>3. CASE \E n : SetAdded(k, x, n, t)
    <3>1. PICK n : SetAdded(k, x, n, t)
      BY <2>3
    <3>2. IsRing(obj', t) /\ Put(arr_append(obj, n))
      BY <3>1 DEF SetAdded
    <3>3. obj' = arr_append(obj, n)
      BY <3>2 DEF Put
    <3> QED BY <3>2, <3>3
  <2> QED BY <2>1, <2>2, <2>3
<1>2. ASSUME NEW k \in Key, ObjectRemove(k) PROVE Put(obj') /\ \E t : IsRing(obj', t)
  <2>1. PICK L : L = obj_remove_key(obj, Named(k))
    OBVIOUS
  <2>2. Put(L) /\ obj' = L
    BY <1>2, <2>1 DEF ObjectRemove, Put
  <2>3. Put(obj')
    BY <2>2
  <2> QED BY <1>2, <2>3, RemoveEdit
<1>3. ASSUME NEW k \in Key, NEW l \in Key, NEW dup \in BOOLEAN, ObjectRenameKey(k, l, dup)
      PROVE  Put(obj') /\ \E t : IsRing(obj', t)
  <2>1. Put(obj)
    BY <1>3 DEF ObjectRenameKey
  <2>2. obj' = obj /\ isObj
    BY <2>1 DEF Put
  <2>3. IsRing(obj, Elements(obj))
    BY <2>2 DEF WellKept
  <2> QED BY <2>1, <2>2, <2>3
<1>4. ASSUME ObjectClear PROVE Put(obj') /\ \E t : IsRing(obj', t)
  <2>1. PICK L : L = arr_clear(obj)
    OBVIOUS
  <2>2. Put(L) /\ obj' = L
    BY <1>4, <2>1 DEF ObjectClear, Put
  <2>3. Put(obj')
    BY <2>2
  <2> QED BY <1>4, <2>3, ClearEdit
<1>5. ASSUME NEW i \in Size, ObjectRotate(i) PROVE Put(obj') /\ \E t : IsRing(obj', t)
  <2>1. PICK L : L = arr_rotate(obj, i)
    OBVIOUS
  <2>2. Put(L) /\ obj' = L
    BY <1>5, <2>1 DEF ObjectRotate, Put
  <2>3. Put(obj')
    BY <2>2
  <2> QED BY <1>5, <2>3, RotateEdit
<1>6. ASSUME NEW p \in Orders(obj_size), ObjectSort(p) PROVE Put(obj') /\ \E t : IsRing(obj', t)
  <2>1. PICK L : L = append_all(arr_clear(obj), [k \in 1 .. obj_size |-> Elements(obj)[p[k]]])
    OBVIOUS
  <2>2. Put(L) /\ obj' = L
    BY <1>6, <2>1 DEF ObjectSort, Put
  <2>3. Put(obj')
    BY <2>2
  <2> QED BY <1>6, <2>3, SortEdit
<1>7. ~SetScalar
  BY DEF SetScalar
<1> QED BY <1>1, <1>2, <1>3, <1>4, <1>5, <1>6, <1>7 DEF HandleCall

\* Every call through a handle but SetScalar puts a ring.
LEMMA HandlePuts ==
  ASSUME HandleCall, ~SetScalar
  PROVE  Put(obj') /\ isObj'
<1>1. ASSUME NEW L, Put(L) PROVE Put(obj') /\ isObj'
  BY <1>1 DEF Put
<1>2. ASSUME NEW k \in Key, NEW x \in Value, ObjectSet(k, x) PROVE Put(obj') /\ isObj'
  <2>1. \/ Put(obj_put(obj, Named(k)).L)
        \/ \E n \in Fresh : Put(arr_append(obj, n))
    BY <1>2 DEF ObjectSet
  <2> QED BY <1>1, <2>1
<1>3. ASSUME NEW k \in Key, ObjectRemove(k) PROVE Put(obj') /\ isObj'
  BY <1>1, <1>3 DEF ObjectRemove
<1>4. ASSUME NEW k \in Key, NEW l \in Key, NEW dup \in BOOLEAN, ObjectRenameKey(k, l, dup)
      PROVE  Put(obj') /\ isObj'
  BY <1>1, <1>4 DEF ObjectRenameKey
<1>5. ASSUME ObjectClear PROVE Put(obj') /\ isObj'
  BY <1>1, <1>5 DEF ObjectClear
<1>6. ASSUME NEW i \in Size, ObjectRotate(i) PROVE Put(obj') /\ isObj'
  BY <1>1, <1>6 DEF ObjectRotate
<1>7. ASSUME NEW p \in Orders(obj_size), ObjectSort(p) PROVE Put(obj') /\ isObj'
  BY <1>1, <1>7 DEF ObjectSort
<1> QED BY <1>2, <1>3, <1>4, <1>5, <1>6, <1>7 DEF HandleCall

LEMMA HandleWellKept ==
  ASSUME Followable, WellKept, HandleCall
  PROVE  WellKept'
<1>1. CASE SetScalar
  BY <1>1, SetScalarWellKept
<1>2. CASE ~SetScalar
  <2>1. Put(obj') /\ isObj'
    BY <1>2, HandlePuts
  <2>2. careful => \E t : IsRing(obj', t)
    BY <2>1, HandleRing
  <2>3. PICK L : L = obj' /\ Put(L)
    BY <2>1
  <2> QED BY <2>2, <2>3, PutWellKept
<1> QED BY <1>1, <1>2

-----------------------------------------------------------------------------
(* The iterators of careful callers *)

\* A walk does not leave the pairs of a sound ring.
LEMMA RingStays ==
  ASSUME NEW L, NEW s, IsRing(L, s), NEW p \in ToSet(s), NEW k \in Nat
  PROVE  Walk(L, p, k) \in ToSet(s)
<1>1. PICK n \in Nat : n = Len(s) /\ DOMAIN s = 1 .. n
  BY RingFacts
<1>2. PICK S : S = {s[j] : j \in 1 .. n} /\ S = ToSet(s)
  BY <1>1 DEF ToSet
<1>3. \A q \in S : L.next[q] \in S
  <2> TAKE q \in S
  <2>1. PICK j \in 1 .. n : q = s[j]
    BY <1>2
  <2>2. L.next[s[j]] = After(s, j)
    BY <1>1, RingSuccessor
  <2>3. CASE j = n
    <3>1. 1 \in 1 .. n /\ After(s, j) = s[1]
      BY <1>1, <2>3 DEF After
    <3> QED BY <1>2, <2>1, <2>2, <3>1
  <2>4. CASE j # n
    <3>1. j + 1 \in 1 .. n /\ After(s, j) = s[j + 1]
      BY <1>1, <2>4 DEF After
    <3> QED BY <1>2, <2>1, <2>2, <3>1
  <2> QED BY <2>3, <2>4
<1>4. p \in S
  BY <1>2
<1>5. Walk(L, p, k) \in S
  BY <1>3, <1>4, WalkStays
<1> QED BY <1>2, <1>5

LEMMA PlaceIn ==
  ASSUME NEW s \in Seq(Node), Len(s) > 0, NEW k \in 0 .. Len(s)
  PROVE  Place(s, k) \in ToSet(s)
<1>1. PICK n \in Nat : n = Len(s) /\ DOMAIN s = 1 .. n /\ n > 0
  OBVIOUS
<1>2. n \in 1 .. n /\ (k # 0 => k \in 1 .. n)
  BY <1>1
<1> QED BY <1>1, <1>2 DEF Place, ToSet

\* An iterator that is in step stands somewhere on the ring.
LEMMA StandsFits ==
  ASSUME NEW L, NEW s, IsRing(L, s), NEW it, NEW c, Stands(L, it, c), it.idx \in 0 .. it.max
  PROVE  Fits(L, it)
<1>1. Elements(L) = s /\ s \in Seq(Node) /\ Len(s) = L.len
  BY RingElements DEF IsRing
<1>2. it.max = L.len
  BY DEF Stands
<1>3. ASSUME L.len > 0 PROVE it.cur \in ToSet(s)
  <2>1. PICK k \in 0 .. Len(s) : k = it.idx
    BY <1>1, <1>2
  <2>2. it.cur = Walk(L, L.ptr, k)
    BY <1>3, <2>1 DEF Stands
  <2>3. Walk(L, L.ptr, k) = Place(s, k)
    BY <1>1, <1>3, RingPlace
  <2> QED BY <1>1, <1>3, <2>2, <2>3, PlaceIn
<1> QED BY <1>1, <1>2, <1>3 DEF Fits

\* A call that changes no more than the iterator it is made on.
LEMMA TrackWellKept ==
  ASSUME Followable, WellKept, NEW i \in Iter, NEW it, NEW ok, NEW c,
         Track(i, it, ok, c), UNCHANGED <<obj, isObj, key, val, careful>>,
         careful /\ it # Closed /\ c # Void => isObj /\ Stands(obj, it, c),
         careful /\ it # Closed /\ ok => isObj /\ Fits(obj, it)
  PROVE  WellKept'
<1> SUFFICES ASSUME careful' PROVE WellKept'
  BY DEF WellKept
<1>1. /\ \A j \in Iter : iter'[j] = IF j = i THEN it ELSE iter[j]
      /\ \A j \in Iter : current'[j] = IF j = i THEN c ELSE current[j]
      /\ \A j \in Iter : intact'[j] = IF j = i THEN ok ELSE intact[j]
  BY DEF Followable, Track
<1>2. ASSUME NEW j \in Iter, IsOpen(j)' PROVE InStep(j)'
  <2>1. CASE j = i
    BY <1>1, <1>2, <2>1 DEF InStep, IsOpen
  <2>2. CASE j # i
    <3>1. InStep(j)
      BY <1>1, <1>2, <2>2 DEF IsOpen, WellKept
    <3>2. iter'[j] = iter[j] /\ current'[j] = current[j] /\ intact'[j] = intact[j]
      BY <1>1, <2>2
    <3> QED BY <3>1, <3>2 DEF InStep
  <2> QED BY <2>1, <2>2
<1> QED BY <1>2 DEF WellKept

LEMMA OpenedStands ==
  ASSUME ObjectLoose
  PROVE  Stands(obj, Opened, Null) /\ Opened.idx \in 0 .. Opened.max
<1>1. PICK it : it = Opened
  OBVIOUS
<1>2. PICK b, c : b = TRUE /\ c = IF obj.len = 0 THEN Null ELSE obj.ptr
  OBVIOUS
<1>3. it = Iterator(b, Null, 0, obj.len, c, Null)
  BY <1>1, <1>2, OpenedIs
<1>4. it.m_initialized = b /\ it.max = obj.len /\ it.idx = 0 /\ it.cur = c
  BY <1>3 DEF Iterator
<1>5. obj.len \in Nat /\ (obj.len > 0 => obj.len # 0)
  BY ObjectFacts
<1>6. Walk(obj, obj.ptr, 0) = obj.ptr
  BY WalkNone
<1>7. obj.len > 0 => it.cur = Walk(obj, obj.ptr, it.idx)
  BY <1>2, <1>4, <1>5, <1>6
<1>8. Stands(obj, it, Null)
  BY <1>2, <1>4, <1>7, NodeAssumption DEF Stands
<1>9. it.idx \in 0 .. it.max
  BY <1>4, <1>5
<1> QED BY <1>1, <1>8, <1>9

\* What Next hands out is the pair at the new index.
LEMMA NextStands ==
  ASSUME ObjectLoose, NEW was, MayFollow(was, Linked), iter_has_next(was), NEW c, Stands(obj, was, c),
         NEW it, it = [iter_next(obj, was) EXCEPT !.m_currentKey = iter_next(obj, was).cur]
  PROVE  Stands(obj, it, iter_next(obj, was).cur)
<1>1. /\ it = Iterator(was.m_initialized, obj.next[was.cur], was.idx + 1, was.max,
                       obj.next[was.cur], was.cur)
      /\ iter_next(obj, was).cur = obj.next[was.cur]
  BY NextFollows
<1>2. PICK b, d, y, m, p :
        b = was.m_initialized /\ d = obj.next[was.cur] /\ y = was.idx + 1 /\ m = was.max /\ p = was.cur
  OBVIOUS
<1>3. it = Iterator(b, d, y, m, d, p) /\ iter_next(obj, was).cur = d
  BY <1>1, <1>2
<1>4. /\ it.m_initialized = b /\ it.m_currentKey = d /\ it.idx = y /\ it.max = m
      /\ it.cur = d /\ it.pre = p
  BY <1>3 DEF Iterator
<1>5. was.idx \in Nat /\ was.max \in Nat /\ was.idx < was.max
  BY DEF MayFollow, IterLoose, iter_has_next
<1>6. was.m_initialized /\ m = obj.len /\ p = Walk(obj, obj.ptr, was.idx)
  BY <1>2, <1>5 DEF Stands
<1>7. d = Walk(obj, obj.ptr, was.idx + 1)
  BY <1>2, <1>5, <1>6, WalkNext
<1>8. y - 1 = was.idx /\ y > 0
  BY <1>2, <1>5
<1> QED BY <1>2, <1>3, <1>4, <1>6, <1>7, <1>8 DEF Stands

LEMMA NextFits ==
  ASSUME ObjectLoose, NEW was, MayFollow(was, Linked), iter_has_next(was), Fits(obj, was),
         IsRing(obj, Elements(obj)),
         NEW it, it = [iter_next(obj, was) EXCEPT !.m_currentKey = iter_next(obj, was).cur]
  PROVE  Fits(obj, it)
<1>1. it = Iterator(was.m_initialized, obj.next[was.cur], was.idx + 1, was.max,
                    obj.next[was.cur], was.cur)
  BY NextFollows
<1>2. PICK b, d, y, m, p :
        b = was.m_initialized /\ d = obj.next[was.cur] /\ y = was.idx + 1 /\ m = was.max /\ p = was.cur
  OBVIOUS
<1>3. it = Iterator(b, d, y, m, d, p)
  BY <1>1, <1>2
<1>4. it.max = m /\ it.cur = d
  BY <1>3 DEF Iterator
<1>5. was.idx \in Nat /\ was.max \in Nat /\ was.idx < was.max
  BY DEF MayFollow, IterLoose, iter_has_next
<1>6. m = obj.len /\ obj.len > 0 /\ p \in ToSet(Elements(obj))
  BY <1>2, <1>5 DEF Fits
<1>7. PICK s : s = Elements(obj)
  OBVIOUS
<1>8. Walk(obj, p, 1) = d
  BY <1>2, WalkOne
<1>9. 1 \in Nat /\ IsRing(obj, s) /\ p \in ToSet(s)
  BY <1>6, <1>7
<1>10. Walk(obj, p, 1) \in ToSet(s)
  BY <1>9, RingStays
<1> QED BY <1>4, <1>6, <1>7, <1>8, <1>10 DEF Fits

\* Get leaves the iterator at some pair of the ring.
LEMMA SoughtFits ==
  ASSUME NEW was \in IterType, Fits(obj, was), IsRing(obj, Elements(obj)),
         NEW n \in 1 .. was.max, NEW it, it = iter_seek(obj, was, n)
  PROVE  Fits(obj, it)
<1>1. was.max \in Nat
  BY IteratorIs
<1>2. PICK y, d, e : /\ y = IF was.idx + n > was.max THEN was.idx + n - (was.max + 1) ELSE was.idx + n
                     /\ d = Walk(obj, was.cur, n) /\ e = Walk(obj, was.cur, n - 1)
  OBVIOUS
<1>3. it = Iterator(was.m_initialized, was.m_currentKey, y, was.max, d, e)
  BY <1>2, SoughtIs
<1>4. it.max = was.max /\ it.cur = d
  BY <1>3 DEF Iterator
<1>5. was.max = obj.len /\ obj.len > 0 /\ was.cur \in ToSet(Elements(obj))
  BY <1>1 DEF Fits
<1>6. PICK s : s = Elements(obj)
  OBVIOUS
<1>7. n \in Nat /\ IsRing(obj, s) /\ was.cur \in ToSet(s)
  BY <1>1, <1>5, <1>6
<1>8. Walk(obj, was.cur, n) \in ToSet(s)
  BY <1>7, RingStays
<1> QED BY <1>2, <1>4, <1>5, <1>6, <1>8 DEF Fits

LEMMA IterCallWellKept ==
  ASSUME Followable, WellKept, NEW i \in Iter, IterCall(i)
  PROVE  WellKept'
<1>0. /\ ObjectLoose /\ (IsOpen(i) => MayFollow(iter[i], Linked)) /\ Linked \in SUBSET Node
      /\ careful /\ isObj => IsRing(obj, Elements(obj))
  BY ObjectFacts DEF Followable, WellKept
<1>1. careful /\ isObj => Stands(obj, Opened, Null) /\ Fits(obj, Opened)
  BY <1>0, OpenedStands, StandsFits
<1>2. CASE ObjIterWith(i)
  BY <1>1, <1>2, TrackWellKept DEF ObjIterWith
<1>3. CASE ObjIterReset(i)
  <2>1. CASE isObj
    BY <1>1, <1>3, <2>1, TrackWellKept DEF ObjIterReset
  <2>2. CASE ~isObj
    BY <1>3, <2>2, TrackWellKept DEF ObjIterReset
  <2> QED BY <2>1, <2>2
<1>4. CASE ObjIterNext(i)
  <2>1. PICK was : was = iter[i]
    OBVIOUS
  <2>2. MayFollow(was, Linked) /\ iter_has_next(was)
    BY <1>0, <1>4, <2>1 DEF ObjIterNext
  <2>3. PICK it : it = [iter_next(obj, was) EXCEPT !.m_currentKey = iter_next(obj, was).cur]
    OBVIOUS
  <2>4. PICK c, q : c = (IF current[i] = Void THEN Void ELSE q) /\ q = iter_next(obj, was).cur
    OBVIOUS
  <2>5. Track(i, it, intact[i], c) /\ UNCHANGED <<obj, isObj, key, val, careful>> /\ IsOpen(i)
    BY <1>4, <2>1, <2>3, <2>4 DEF ObjIterNext
  <2>6. ASSUME careful PROVE InStep(i)
    BY <2>5, <2>6 DEF WellKept
  <2>7. ASSUME careful, c # Void PROVE isObj /\ Stands(obj, it, c)
    <3>1. isObj /\ Stands(obj, was, current[i]) /\ c = iter_next(obj, was).cur
      BY <2>1, <2>4, <2>6, <2>7 DEF InStep
    <3> QED BY <1>0, <2>2, <2>3, <3>1, NextStands
  <2>8. ASSUME careful, intact[i] PROVE isObj /\ Fits(obj, it)
    <3>1. isObj /\ Fits(obj, was)
      BY <2>1, <2>6, <2>8 DEF InStep
    <3>2. IsRing(obj, Elements(obj))
      BY <1>0, <2>8, <3>1
    <3> QED BY <1>0, <2>2, <2>3, <3>1, <3>2, NextFits
  <2> QED BY <2>5, <2>7, <2>8, TrackWellKept
<1>5. ASSUME NEW k \in Key, ObjIterGet(i, k) PROVE WellKept'
  <2>1. PICK was \in IterType : was = iter[i]
    BY <1>0, <1>5 DEF ObjIterGet, MayFollow
  <2>2. was.max \in Nat
    BY IteratorIs
  <2>3. PICK n \in 1 .. was.max : n = Found(i, k)
    <3>1. Found(i, k) \in 0 .. was.max
      BY <2>1, <2>2, FindFacts DEF Found
    <3>2. Found(i, k) # 0
      BY <1>5 DEF ObjIterGet
    <3> QED BY <2>2, <3>1, <3>2
  <2>4. PICK it : it = iter_seek(obj, was, n)
    OBVIOUS
  <2>5. Track(i, it, intact[i], Void) /\ UNCHANGED <<obj, isObj, key, val, careful>> /\ IsOpen(i)
    BY <1>5, <2>1, <2>3, <2>4 DEF ObjIterGet
  <2>6. ASSUME careful, intact[i] PROVE isObj /\ Fits(obj, it)
    <3>1. isObj /\ Fits(obj, was) /\ IsRing(obj, Elements(obj))
      BY <2>1, <2>5, <2>6 DEF InStep, WellKept
    <3> QED BY <2>4, <3>1, SoughtFits
  <2> QED BY <2>5, <2>6, TrackWellKept
<1>6. CASE ReleaseObjIter(i)
  BY <1>6, TrackWellKept DEF ReleaseObjIter
<1> QED BY <1>2, <1>3, <1>4, <1>5, <1>6 DEF IterCall

\* Removing the pair at k that the iterator handed out last: the ring loses
\* that pair alone, and the iterator stands before it.
Removes(i, k, s) ==
  /\ isObj /\ current[i] # Void
  /\ s = Elements(obj) /\ k \in 1 .. Len(s)
  /\ s[k] = current[i] /\ iter[i].idx = k
  /\ IsRing(obj', Cut(s, k - 1, 1))
  /\ iter' = [iter EXCEPT ![i] = iter'[i]]
  /\ iter'[i].idx = k - 1
  /\ Stands(obj', iter'[i], Null)
  /\ Fits(obj', iter'[i])

LEMMA IterRemoves ==
  ASSUME Followable, WellKept, NEW i \in Iter, ObjIterRemove(i), careful'
  PROVE  \E k, s : Removes(i, k, s)
<1>1. careful /\ current[i] \in Node /\ IsOpen(i) /\ isObj' = isObj
  BY DEF ObjIterRemove
<1>2. PICK it \in IterType : it = iter[i] /\ iter_can_remove(it)
  BY <1>1 DEF Followable, MayFollow, ObjIterRemove
<1>3. isObj /\ Stands(obj, it, current[i])
  <2>1. current[i] # Void
    BY <1>1, SentinelAssumption
  <2> QED BY <1>1, <1>2, <2>1 DEF WellKept, InStep
<1>4. PICK s : s = Elements(obj)
  OBVIOUS
<1>5. /\ Sound(obj, s) /\ s \in Seq(Node) /\ IsRing(obj, s) /\ Len(s) \in Nat /\ obj.len = Len(s)
      /\ obj.next \in [Node -> Node \cup {Null}] /\ IsInjective(s)
  BY <1>1, <1>3, <1>4, ElementsFacts, SoundFacts
<1>6. PICK k \in Nat, j \in Nat, n \in Nat :
        k = it.idx /\ n = Len(s) /\ j = k - 1 /\ k = j + 1 /\ k <= n /\ it.max = n
  <2>1. it.max = Len(s)
    BY <1>3, <1>5 DEF Stands
  <2>2. it.idx \in Nat /\ 0 < it.idx /\ it.idx <= it.max
    BY <1>2, IteratorIs DEF iter_can_remove
  <2>3. it.idx - 1 \in Nat /\ it.idx = (it.idx - 1) + 1
    BY <2>2
  <2> QED BY <1>5, <2>1, <2>2, <2>3
<1>7. it.cur = s[k] /\ it.pre = Place(s, j)
  <2>1. /\ it.cur = Walk(obj, obj.ptr, k)
        /\ it.pre = Walk(obj, obj.ptr, j)
    BY <1>1, <1>3, <1>5, <1>6 DEF Stands
  <2>2. k \in 0 .. Len(s) /\ j \in 0 .. Len(s) /\ k # 0 /\ Len(s) > 0
    BY <1>6
  <2> QED BY <1>5, <2>1, <2>2, RingPlace DEF Place
<1>8. PICK t : t = Cut(s, j, 1)
  OBVIOUS
<1>9. IsRing(obj', t)
  <2>1. k \in 1 .. Len(s) /\ it.max = Len(s) /\ it.idx = k /\ it.pre = Place(s, k - 1)
    <3>1. k - 1 = j /\ k \in 1 .. n
      BY <1>6
    <3> QED BY <1>6, <1>7, <3>1, Zenon
  <2>2. IsRing(iter_remove_list(obj, it), Cut(s, k - 1, 1))
    BY <1>5, <1>7, <2>1, IterRemoveRing
  <2>3. obj' = iter_remove_list(obj, it) /\ Cut(s, k - 1, 1) = t
    BY <1>2, <1>6, <1>8 DEF ObjIterRemove
  <2> QED BY <2>2, <2>3
<1>10. /\ Len(t) = n - 1
       /\ \A m \in 1 .. n - 1 : t[m] = IF m <= j THEN s[m] ELSE s[m + 1]
  <2>1. PICK one \in Nat : one = 1 /\ j + one <= Len(s)
    BY <1>6
  <2>2. /\ Len(Cut(s, j, one)) = Len(s) - one
        /\ \A m \in 1 .. Len(s) - one : Cut(s, j, one)[m] = IF m <= j THEN s[m] ELSE s[m + one]
    <3>1. CutLeaves(s, j, one)
      BY <1>5, <2>1, CutIsLeft
    <3> QED BY <3>1 DEF CutLeaves
  <2> QED BY <1>6, <1>8, <2>1, <2>2
<1>11. IsRing(obj', Elements(obj')) /\ obj'.len = n - 1
  BY <1>9, <1>10, RingElements, RingFacts
<1>12. obj'.len > 0 => Place(s, j) = Walk(obj', obj'.ptr, j)
  <2> SUFFICES ASSUME obj'.len > 0 PROVE Place(s, j) = Walk(obj', obj'.ptr, j)
    OBVIOUS
  <2>1. Len(t) > 0 /\ j \in 0 .. Len(t)
    BY <1>6, <1>10, <1>11
  <2>2. Walk(obj', obj'.ptr, j) = Place(t, j)
    BY <1>9, <2>1, RingPlace
  <2>3. CASE j = 0
    <3>1. PICK m \in 1 .. n - 1 : m = n - 1 /\ ~(m <= j) /\ m + 1 = n
      <4>1. n - 1 > 0
        BY <1>10, <2>1
      <4>2. n \in Nat /\ j = 0
        BY <2>3
      <4>3. n - 1 \in 1 .. n - 1 /\ ~(n - 1 <= j) /\ (n - 1) + 1 = n
        BY <4>1, <4>2
      <4> QED BY <4>3
    <3>2. t[m] = s[n]
      BY <1>10, <3>1
    <3> QED BY <1>6, <1>10, <2>2, <2>3, <3>1, <3>2 DEF Place
  <2>4. CASE j # 0
    <3>1. j \in 1 .. n - 1 /\ j <= j
      BY <1>6, <1>10, <2>1, <2>4
    <3>2. t[j] = s[j]
      BY <1>10, <3>1
    <3> QED BY <2>2, <2>4, <3>2 DEF Place
  <2> QED BY <2>3, <2>4
<1>13. PICK b, q, new : /\ new = iter_remove_iter(it) /\ b = it.m_initialized
                        /\ new = Iterator(b, q, j, n - 1, Place(s, j), Place(s, j))
  <2>1. it.idx - 1 = j /\ it.max - 1 = n - 1 /\ it.pre = Place(s, j)
    BY <1>6, <1>7
  <2> QED BY <2>1, RemovedIs
<1>14. iter' = [iter EXCEPT ![i] = new]
  BY <1>2, <1>13 DEF ObjIterRemove
<1>15. iter'[i] = new
  BY <1>14 DEF Followable
<1>16. new.m_initialized = b /\ new.max = n - 1 /\ new.cur = Place(s, j) /\ new.idx = j
  BY <1>13 DEF Iterator
<1>17. Stands(obj', new, Null)
  <2>1. b
    BY <1>3, <1>13 DEF Stands
  <2> QED BY <1>11, <1>12, <1>16, <2>1, NodeAssumption DEF Stands
<1>18. Fits(obj', new)
  <2>1. new.idx \in 0 .. new.max
    <3>1. j \in 0 .. n - 1
      BY <1>6
    <3> QED BY <1>16, <3>1, Zenon
  <2> QED BY <1>9, <1>17, <2>1, StandsFits
<1>19. s[k] = current[i]
  <2>1. it.cur = current[i]
    BY <1>1, <1>3 DEF Stands
  <2> QED BY <1>7, <2>1
<1>20. j = k - 1 /\ k \in 1 .. Len(s) /\ current[i] # Void
  BY <1>1, <1>6, SentinelAssumption
<1>21. IsRing(obj', Cut(s, k - 1, 1))
  BY <1>8, <1>9, <1>20
<1>22. Removes(i, k, s)
  BY <1>2, <1>3, <1>4, <1>6, <1>14, <1>15, <1>16, <1>17, <1>18, <1>19, <1>20, <1>21 DEF Removes
<1> QED BY <1>22

LEMMA IterRemoveWellKept ==
  ASSUME Followable, WellKept, NEW i \in Iter, ObjIterRemove(i)
  PROVE  WellKept'
<1> SUFFICES ASSUME careful' PROVE WellKept'
  BY DEF WellKept
<1>1. PICK k, s : Removes(i, k, s)
  BY IterRemoves
<1>2. careful /\ current[i] \in Node /\ IsOpen(i) /\ isObj' = isObj
  BY DEF ObjIterRemove
<1>3. IsRing(obj', Elements(obj'))
  BY <1>1, RingElements DEF Removes
<1>4. ASSUME NEW h \in Iter, IsOpen(h)' PROVE InStep(h)'
  <2>1. current'[h] = IF ~IsOpen(h) THEN current[h]
                      ELSE IF h = i /\ current[i] # Void THEN Null ELSE Void
    BY DEF ObjIterRemove
  <2>2. CASE h = i
    <3>1. current'[h] = Null
      BY <1>2, <2>1, <2>2, SentinelAssumption
    <3> QED BY <1>1, <1>2, <2>2, <3>1 DEF InStep, Removes
  <2>3. CASE h # i
    <3>1. IsOpen(h)
      BY <1>1, <1>4, <2>3 DEF IsOpen, Followable, Removes
    <3>2. current'[h] = Void
      BY <2>1, <2>3, <3>1
    <3>3. ~intact'[h]
      BY <2>3 DEF ObjIterRemove
    <3> QED BY <3>2, <3>3 DEF InStep
  <2> QED BY <2>2, <2>3
<1> QED BY <1>3, <1>4 DEF WellKept

LEMMA StepWellKept == Followable /\ WellKept /\ [Next]_vars => WellKept'
<1> SUFFICES ASSUME Followable, WellKept, [Next]_vars PROVE WellKept'
  OBVIOUS
<1>1. CASE HandleCall
  BY <1>1, HandleWellKept
<1>2. ASSUME NEW i \in Iter, IterCall(i) PROVE WellKept'
  BY <1>2, IterCallWellKept
<1>3. ASSUME NEW i \in Iter, ObjIterRemove(i) PROVE WellKept'
  BY <1>3, IterRemoveWellKept
<1>4. CASE UNCHANGED vars
  BY <1>4 DEF vars, WellKept, IsOpen, InStep
<1> QED BY <1>1, <1>2, <1>3, <1>4 DEF Next

LEMMA WellKeptAlways == Spec => [](Followable /\ WellKept)
<1>1. Init => Followable /\ WellKept
  BY InitFollowable, InitWellKept
<1>2. Followable /\ WellKept /\ [Next]_vars => (Followable /\ WellKept)'
  BY StepFollowable, StepWellKept
<1> QED BY <1>1, <1>2, PTL DEF Spec

-----------------------------------------------------------------------------
(* Where the iterators of careful callers are *)

\* From any pair of a sound ring every pair is reached, at most once around.
LEMMA RingReaches ==
  ASSUME NEW L, NEW s, IsRing(L, s), NEW p \in ToSet(s), NEW v \in ToSet(s)
  PROVE  \E j \in 1 .. L.len : Walk(L, p, j) = v
<1>1. PICK n \in Nat : n = Len(s) /\ DOMAIN s = 1 .. n /\ n = L.len
  BY RingFacts
<1>2. PICK a \in 1 .. n, b \in 1 .. n : p = s[a] /\ v = s[b]
  BY <1>1 DEF ToSet
<1>3. CASE a < b
  <2>1. PICK j \in 1 .. n : j = b - a
    BY <1>3
  <2>2. a \in 1 .. Len(s) /\ j \in 0 .. Len(s) - a /\ a + j = b
    BY <1>1, <2>1
  <2>3. Walk(L, s[a], j) = s[a + j]
    BY <2>2, RingWalk
  <2> QED BY <1>1, <1>2, <2>2, <2>3
<1>4. CASE ~(a < b)
  <2>1. PICK h \in Nat : h = n - a /\ h + b \in 1 .. n
    BY <1>4
  <2>2. a \in 1 .. Len(s) /\ h \in 0 .. Len(s) - a /\ a + h = n /\ n > 0
    BY <1>1, <2>1
  <2>3. Walk(L, s[a], h) = s[a + h]
    BY <2>2, RingWalk
  <2>4. s[n] = L.ptr
    BY <1>1, <2>2 DEF IsRing
  <2>5. b \in 0 .. Len(s) /\ b # 0 /\ Len(s) > 0 /\ b \in Nat
    BY <1>1, <2>2
  <2>6. Walk(L, L.ptr, b) = s[b]
    BY <2>5, RingPlace DEF Place
  <2>7. Walk(L, s[a], h + b) = Walk(L, Walk(L, s[a], h), b)
    BY <2>5, WalkOn
  <2>8. Walk(L, s[a], h + b) = s[b]
    BY <2>2, <2>3, <2>4, <2>6, <2>7
  <2> QED BY <1>1, <1>2, <2>1, <2>8
<1> QED BY <1>3, <1>4

\* With careful callers Get finds the keys that are there and no others.
THEOREM GetFindsWhatIsThere == Spec => []GetFindsKey
<1>1. Followable /\ WellKept => GetFindsKey
  <2> SUFFICES ASSUME Followable, WellKept, careful, NEW i \in Iter, IsOpen(i), intact[i], NEW k \in Key
               PROVE  Found(i, k) # 0 <=> Has(k)
    BY DEF GetFindsKey
  <2>1. PICK it \in IterType : it = iter[i] /\ MayFollow(it, Linked)
    BY DEF Followable, MayFollow
  <2>2. isObj /\ Fits(obj, it) /\ IsRing(obj, Elements(obj))
    BY <2>1 DEF WellKept, InStep
  <2>3. PICK s : s = Elements(obj) /\ IsRing(obj, s) /\ ToSet(s) = Pairs
    BY <2>2 DEF Pairs
  <2>4. it.max = obj.len /\ it.max \in Nat /\ (obj.len > 0 => it.cur \in ToSet(s))
    BY <2>1, <2>2, <2>3, IteratorIs DEF Fits
  <2>5. PICK M : M = Named(k)
    OBVIOUS
  <2>6. PICK n : n = Found(i, k) /\ n = iter_find(obj, it, M)
    BY <2>1, <2>5 DEF Found
  <2>7. /\ n \in 0 .. it.max
        /\ n # 0 => Walk(obj, it.cur, n) \in M
        /\ n = 0 => \A j \in 1 .. it.max : Walk(obj, it.cur, j) \notin M
    BY <2>4, <2>6, FindFacts
  <2>8. ASSUME n # 0 PROVE Has(k)
    <3>1. n \in Nat /\ obj.len > 0
      BY <2>4, <2>7, <2>8
    <3>2. Walk(obj, it.cur, n) \in ToSet(s)
      BY <2>3, <2>4, <3>1, RingStays
    <3> QED BY <2>2, <2>3, <2>5, <2>7, <2>8, <3>2 DEF Has
  <2>9. ASSUME Has(k) PROVE n # 0
    <3>1. PICK v : v \in ToSet(s) /\ v \in M
      BY <2>3, <2>5, <2>9 DEF Has
    <3>2. obj.len > 0
      <4>1. Len(s) = obj.len /\ DOMAIN s = 1 .. Len(s) /\ Len(s) \in Nat
        BY <2>3, RingFacts
      <4>2. DOMAIN s # {}
        BY <3>1 DEF ToSet
      <4> QED BY <4>1, <4>2
    <3>3. PICK j \in 1 .. obj.len : Walk(obj, it.cur, j) = v
      BY <2>3, <2>4, <3>1, <3>2, RingReaches
    <3> QED BY <2>4, <2>7, <3>1, <3>3
  <2> QED BY <2>6, <2>8, <2>9
<1> QED BY <1>1, WellKeptAlways, PTL

\* ObjectGetKey and ObjectGetValueAt, step by step.
StepRun(L, n, a) ==
  /\ a[0] = iter_init(L)
  /\ \A j \in 1 .. n : a[j] = iter_next(L, a[j - 1])

LEMMA StepRecursion ==
  ASSUME NEW x \in Nat
  PROVE  \E a : StepRun(obj, x + 1, a) /\ StepTo(x) = a[x + 1].cur
<1> DEFINE Good(a, m) == a = [j \in 0 .. m |-> IF j = 0 THEN iter_init(obj) ELSE iter_next(obj, a[j - 1])]
           T == {m \in Nat : \E a : Good(a, m)}
<1>1. 0 \in T
  <2>1. Good([j \in 0 .. 0 |-> iter_init(obj)], 0)
    OBVIOUS
  <2> QED BY <2>1
<1>2. \A m \in T \cap Nat : m + 1 \in T
  <2> SUFFICES ASSUME NEW m \in Nat, NEW a, Good(a, m)
               PROVE  m + 1 \in T
    OBVIOUS
  <2> DEFINE more == [j \in 0 .. m + 1 |-> IF j = m + 1 THEN iter_next(obj, a[m]) ELSE a[j]]
  <2>1. Good(more, m + 1)
    OBVIOUS
  <2> HIDE DEF Good
  <2> QED BY <2>1
<1>3. x + 1 \in T
  <2> HIDE DEF T
  <2> QED BY <1>1, <1>2, NaturalInduction
<1> DEFINE all == CHOOSE a : Good(a, x + 1)
<1>4. Good(all, x + 1)
  <2> HIDE DEF Good
  <2> QED BY <1>3
<1>5. StepTo(x) = all[x + 1].cur
  BY Zenon DEF StepTo
<1>6. StepRun(obj, x + 1, all)
  <2> HIDE DEF all
  <2> QED BY <1>4 DEF StepRun
<1> QED BY <1>5, <1>6

LEMMA StepToIs ==
  ASSUME ObjectLoose, isObj, obj.len > 0, NEW x \in Nat
  PROVE  StepTo(x) = Walk(obj, obj.ptr, x + 1)
<1>1. PICK a : StepRun(obj, x + 1, a) /\ StepTo(x) = a[x + 1].cur
  BY StepRecursion
<1>2. obj.ptr \in Linked /\ Linked \in SUBSET Node /\ obj.len \in Nat /\ Loose(obj, Linked)
  BY ObjectFacts, UsualFacts DEF ObjectLoose
<1> DEFINE Q == {j \in Nat : j <= x + 1 => a[j] \in WalkIter /\ a[j].cur = Walk(obj, obj.ptr, j)}
<1>3. 0 \in Q
  <2>1. PICK it : it = [idx |-> 0, max |-> obj.len, cur |-> obj.ptr, pre |-> Null] /\ it = iter_init(obj)
    <3>1. obj.len # 0
      BY <1>2
    <3> QED BY <3>1, Zenon DEF iter_init
  <2>2. it \in WalkIter /\ it.cur = obj.ptr
    BY <1>2, <2>1 DEF WalkIter
  <2>3. a[0] = it
    BY <1>1, <2>1 DEF StepRun
  <2>4. Walk(obj, obj.ptr, 0) = obj.ptr
    BY WalkNone
  <2> QED BY <2>2, <2>3, <2>4
<1>4. \A j \in Q \cap Nat : j + 1 \in Q
  <2> SUFFICES ASSUME NEW j \in Nat, j \in Q, j + 1 <= x + 1 PROVE j + 1 \in Q
    OBVIOUS
  <2>1. PICK h \in 1 .. x + 1 : h = j + 1 /\ h - 1 = j
    OBVIOUS
  <2>2. PICK was \in WalkIter : was = a[j] /\ was.cur = Walk(obj, obj.ptr, j)
    OBVIOUS
  <2>3. a[h] = iter_next(obj, was)
    BY <1>1, <2>1, <2>2 DEF StepRun
  <2>4. a[h] = [idx |-> was.idx + 1, max |-> was.max, cur |-> obj.next[was.cur], pre |-> was.cur]
    BY <2>3, WalkIterNext
  <2>5. obj.next[was.cur] = Walk(obj, obj.ptr, j + 1)
    BY <2>2, WalkNext
  <2>6. obj.next[was.cur] \in Node /\ was.cur \in Node
    BY <1>2, <2>2, <2>5, LooseWalk
  <2>7. a[h] \in WalkIter /\ a[h].cur = Walk(obj, obj.ptr, h)
    BY <2>1, <2>4, <2>5, <2>6 DEF WalkIter
  <2> QED BY <2>1, <2>7
<1>5. x + 1 \in Q
  <2> HIDE DEF Q
  <2> QED BY <1>3, <1>4, NaturalInduction
<1> QED BY <1>1, <1>5

\* With careful callers an iterator's Value and Index are those of the pair that
\* it handed out last.
THEOREM IteratorsKnowTheirPosition == Spec => []NextIsPosition
<1>1. Followable /\ WellKept => NextIsPosition
  <2> SUFFICES ASSUME Followable, WellKept, careful, NEW i \in Iter, IsOpen(i), current[i] \in Node
               PROVE  /\ ObjIterGetVal(i) = current[i]
                      /\ ObjectGetKey(ObjIterGetIndex(i)) = current[i]
                      /\ ObjectGetValueAt(ObjIterGetIndex(i)) = current[i]
    BY DEF NextIsPosition
  <2>1. PICK it : it = iter[i] /\ MayFollow(it, Linked)
    BY DEF Followable
  <2>2. current[i] # Void /\ current[i] # Null
    BY SentinelAssumption, NodeAssumption
  <2>3. isObj /\ Stands(obj, it, current[i])
    BY <2>1, <2>2 DEF WellKept, InStep
  <2>4. /\ it.m_initialized /\ it.max = obj.len /\ it.idx > 0 /\ it.cur = current[i]
        /\ it.m_currentKey = current[i]
        /\ (obj.len > 0 => it.cur = Walk(obj, obj.ptr, it.idx))
    BY <2>3 DEF Stands
  <2>5. /\ it.idx \in Nat /\ it.max \in Nat /\ it.idx <= it.max
        /\ it.max <= Cardinality(Node) /\ Cardinality(Node) < SizeMax
        /\ SizeMax \in Nat /\ Cardinality(Node) \in Nat
    <3>1. ObjectLoose
      BY DEF Followable
    <3> QED BY <2>1, <3>1, ObjectFacts, FollowsIs
  <2>6. PICK x \in Nat : x = it.idx - 1 /\ x + 1 = it.idx /\ x < obj.len /\ x < SizeMax + 1 /\ obj.len > 0
    <3>1. it.idx - 1 \in Nat /\ (it.idx - 1) + 1 = it.idx /\ it.idx - 1 < obj.len
      BY <2>4, <2>5
    <3>2. it.idx - 1 < SizeMax + 1 /\ obj.len > 0
      BY <2>4, <2>5
    <3> QED BY <3>1, <3>2
  <2>7. Sz(x) = x
    BY <2>5, <2>6 DEF Sz
  <2>8. ObjIterGetIndex(i) = x
    <3>1. CASE it.idx >= it.max
      <4>1. it.max - 1 = x
        BY <2>5, <2>6, <3>1
      <4> QED BY <2>1, <2>2, <2>4, <2>7, <3>1, <4>1 DEF ObjIterGetIndex
    <3>2. CASE ~(it.idx >= it.max)
      BY <2>1, <2>2, <2>4, <2>6, <2>7, <3>2 DEF ObjIterGetIndex
    <3> QED BY <3>1, <3>2
  <2>9. StepTo(x) = current[i]
    <3>1. ObjectLoose
      BY DEF Followable
    <3>2. StepTo(x) = Walk(obj, obj.ptr, x + 1)
      BY <2>3, <2>6, <3>1, StepToIs
    <3> QED BY <2>4, <2>6, <3>2
  <2>10. x < obj_size
    BY <2>3, <2>6 DEF obj_size
  <2>11. ObjIterGetVal(i) = current[i]
    BY <2>1, <2>4 DEF ObjIterGetVal
  <2>12. ObjectGetKey(x) = current[i] /\ ObjectGetValueAt(x) = current[i]
    BY <2>9, <2>10 DEF ObjectGetKey, ObjectGetValueAt
  <2> QED BY <2>8, <2>11, <2>12
<1> QED BY <1>1, WellKeptAlways, PTL

-----------------------------------------------------------------------------
(* Careful callers: what ListIteration promises *)

Values       == IF isObj THEN Elements(obj) ELSE << >>
TodoOf(i)    == IF Usable(i) THEN SubSeq(Elements(obj), iter[i].idx + 1, obj.len) ELSE Void
CurrentOf(i) == IF Usable(i) THEN current[i] ELSE Null

\* Nothing that the promise tells of changes for iterator i.
Same(i) == TodoOf(i)' = TodoOf(i) /\ CurrentOf(i)' = CurrentOf(i)

LEMMA SameVars ==
  ASSUME Values' = Values, \A i \in Iter : Same(i)
  PROVE  UNCHANGED Promise!vars
BY DEF Promise!vars, Values, Same, TodoOf, CurrentOf

LEMMA EditIs ==
  ASSUME NEW s \in Seq(Node), IsInjective(s), Values' = s,
         \A i \in Iter : TodoOf(i)' = Void /\ CurrentOf(i)' = Null
  PROVE  Promise!Edit
<1>1. \A j, k \in DOMAIN s : s[j] = s[k] => j = k
  BY DEF IsInjective
<1> QED BY <1>1, Zenon DEF Promise!Edit, Values, TodoOf, CurrentOf

\* Iterator i, and it alone, has t to hand out now and c to remove.
Moves(i, t, c) ==
  /\ Values' = Values
  /\ TodoOf(i)' = t /\ CurrentOf(i)' = c
  /\ \A j \in Iter : j # i => Same(j)

LEMMA MovesIs ==
  ASSUME NEW i \in Iter, NEW t, NEW c, Moves(i, t, c)
  PROVE  /\ Values' = Values
         /\ [j \in Iter |-> TodoOf(j)]' = [[j \in Iter |-> TodoOf(j)] EXCEPT ![i] = t]
         /\ [j \in Iter |-> CurrentOf(j)]' = [[j \in Iter |-> CurrentOf(j)] EXCEPT ![i] = c]
BY DEF Moves, Same

LEMMA OpenIs ==
  ASSUME NEW i \in Iter, Moves(i, Values, Null)
  PROVE  Promise!Open(i)
BY MovesIs DEF Promise!Open, Values, TodoOf, CurrentOf

LEMMA CloseIs ==
  ASSUME NEW i \in Iter, Moves(i, Void, Null)
  PROVE  Promise!Close(i)
BY MovesIs DEF Promise!Close, Values, TodoOf, CurrentOf

LEMMA AdvanceIs ==
  ASSUME NEW i \in Iter, TodoOf(i) # Void, TodoOf(i) # << >>,
         Moves(i, Tail(TodoOf(i)), Head(TodoOf(i)))
  PROVE  Promise!Advance(i)
<1> DEFINE T == [j \in Iter |-> TodoOf(j)]
<1> DEFINE C == [j \in Iter |-> CurrentOf(j)]
<1>1. T[i] = TodoOf(i)
  OBVIOUS
<1>2. Values' = Values /\ T' = [T EXCEPT ![i] = Tail(T[i])] /\ C' = [C EXCEPT ![i] = Head(T[i])]
  BY <1>1, MovesIs
<1>3. T[i] # Void /\ T[i] # << >>
  BY <1>1
<1> QED BY <1>2, <1>3 DEF Promise!Advance, Values, TodoOf, CurrentOf

\* Iterator i has removed its value, the one at k; the others are overtaken.
LEMMA RemoveIs ==
  ASSUME NEW i \in Iter, CurrentOf(i) # Null, NEW s, Values = s, NEW k \in DOMAIN s,
         s[k] = CurrentOf(i),
         Values' = SubSeq(s, 1, k - 1) \o SubSeq(s, k + 1, Len(s)),
         TodoOf(i)' = TodoOf(i),
         \A j \in Iter : CurrentOf(j)' = Null /\ (j # i => TodoOf(j)' = Void)
  PROVE  Promise!Remove(i)
<1> DEFINE T == [j \in Iter |-> TodoOf(j)]
<1> DEFINE C == [j \in Iter |-> CurrentOf(j)]
<1>1. T[i] = TodoOf(i) /\ C[i] = CurrentOf(i)
  OBVIOUS
<1>2. T' = [j \in Iter |-> IF j = i THEN T[i] ELSE Void]
  BY <1>1
<1>3. C' = [j \in Iter |-> Null]
  OBVIOUS
<1>4. /\ C[i] # Null
      /\ \E h \in DOMAIN Values :
           /\ Values[h] = C[i]
           /\ Values' = SubSeq(Values, 1, h - 1) \o SubSeq(Values, h + 1, Len(Values))
  BY <1>1
<1> QED BY <1>2, <1>3, <1>4, Zenon DEF Promise!Remove, Values, TodoOf, CurrentOf

LEMMA NotUsable ==
  ASSUME NEW i \in Iter
  PROVE  /\ ~Usable(i) => TodoOf(i) = Void /\ CurrentOf(i) = Null
         /\ ~Usable(i)' => TodoOf(i)' = Void /\ CurrentOf(i)' = Null
BY DEF TodoOf, CurrentOf

LEMMA PutImplements ==
  ASSUME Followable, WellKept, WellKept', careful', NEW L, Put(L)
  PROVE  Promise!Next \/ UNCHANGED Promise!vars
<1>1. obj' = L /\ isObj /\ isObj' = isObj /\ iter' = iter
  BY DEF Put
<1>2. CASE L = obj
  <2>1. obj' = obj /\ Overtake({})
    BY <1>1, <1>2 DEF Put
  <2>2. \A i \in Iter : current'[i] = current[i]
    BY <2>1 DEF Overtake
  <2>3. Values' = Values /\ \A i \in Iter : Same(i)
    BY <1>1, <2>1, <2>2 DEF Values, Same, TodoOf, CurrentOf, Usable, IsOpen
  <2> QED BY <2>3, SameVars
<1>3. CASE L # obj
  <2>1. Overtake(Iter)
    BY <1>3 DEF Put
  <2>2. \A i \in Iter : ~Usable(i)'
    BY <1>1, <2>1 DEF Overtake, Usable, IsOpen
  <2>3. PICK s : s = Values'
    OBVIOUS
  <2>4. s = Elements(obj')
    BY <1>1, <2>3 DEF Values
  <2>5. IsRing(obj', s)
    BY <1>1, <2>4 DEF WellKept
  <2>6. s \in Seq(Node) /\ IsInjective(s)
    BY <2>5 DEF IsRing
  <2>7. Promise!Edit
    BY <2>2, <2>3, <2>6, NotUsable, EditIs
  <2> QED BY <2>7 DEF Promise!Next
<1> QED BY <1>2, <1>3

LEMMA HandleImplements ==
  ASSUME Followable, WellKept, WellKept', careful', HandleCall
  PROVE  Promise!Next \/ UNCHANGED Promise!vars
<1>1. CASE SetScalar
  <2>1. ~isObj' /\ iter' = iter /\ Overtake(Iter)
    BY <1>1 DEF SetScalar
  <2>2. \A i \in Iter : ~Usable(i)'
    BY <2>1 DEF Overtake, Usable, IsOpen
  <2>3. PICK s : s = << >>
    OBVIOUS
  <2>4. Values' = s /\ s \in Seq(Node) /\ DOMAIN s = {}
    BY <2>1, <2>3 DEF Values
  <2>5. IsInjective(s)
    BY <2>4 DEF IsInjective
  <2>6. Promise!Edit
    BY <2>2, <2>4, <2>5, NotUsable, EditIs
  <2> QED BY <2>6 DEF Promise!Next
<1>2. CASE ~SetScalar
  BY <1>2, HandlePuts, PutImplements
<1> QED BY <1>1, <1>2

LEMMA IterCallImplements ==
  ASSUME Followable, WellKept, careful', NEW i \in Iter, IterCall(i)
  PROVE  Promise!Next \/ UNCHANGED Promise!vars
<1>0. /\ careful /\ obj' = obj /\ isObj' = isObj
      /\ \E it, ok, c : Track(i, it, ok, c)
  BY DEF IterCall, ObjIterWith, ObjIterReset, ObjIterNext, ObjIterGet, ReleaseObjIter
<1>1. \A j \in Iter : j # i => iter'[j] = iter[j] /\ current'[j] = current[j]
  BY <1>0 DEF Track, Followable
<1>2. Values' = Values
  BY <1>0 DEF Values
<1>3. \A j \in Iter : j # i => Same(j)
  BY <1>0, <1>1 DEF Same, TodoOf, CurrentOf, Usable, IsOpen
<1>4. ASSUME NEW it, NEW ok, NEW c, Track(i, it, ok, c) PROVE iter'[i] = it /\ current'[i] = c
  BY <1>4 DEF Track, Followable
<1>5. ASSUME isObj, Track(i, Opened, TRUE, Null) PROVE Promise!Next
  <2>1. PICK s : s = Elements(obj) /\ s \in Seq(Node) /\ Len(s) = obj.len
    BY <1>0, <1>5, ElementsFacts
  <2>2. iter'[i] = Opened /\ current'[i] = Null
    BY <1>4, <1>5
  <2>3. PICK it : it = Opened
    OBVIOUS
  <2>4. it.idx = 0
    BY <2>3, OpenedIs DEF Iterator
  <2>5. it # Closed
    <3>1. MayFollow(it, Linked)
      BY <1>5, <2>3, OpenedFollows DEF Followable
    <3> QED BY <3>1, SentinelAssumption DEF MayFollow
  <2>6. Usable(i)'
    BY <2>2, <2>3, <2>5, SentinelAssumption DEF Usable, IsOpen
  <2>7. TodoOf(i)' = SubSeq(s, 0 + 1, Len(s)) /\ CurrentOf(i)' = Null
    BY <1>0, <2>1, <2>2, <2>3, <2>4, <2>6 DEF TodoOf, CurrentOf
  <2>8. TodoOf(i)' = Values
    BY <1>5, <2>1, <2>7, WholeSlice DEF Values
  <2>9. Promise!Open(i)
    BY <1>2, <1>3, <2>7, <2>8, OpenIs DEF Moves
  <2> QED BY <2>9 DEF Promise!Next
<1>6. ASSUME ~Usable(i)' PROVE Promise!Next
  <2>1. Promise!Close(i)
    BY <1>2, <1>3, <1>6, NotUsable, CloseIs DEF Moves
  <2> QED BY <2>1 DEF Promise!Next
<1>7. ASSUME NEW it, NEW ok, Track(i, it, ok, Void) PROVE Promise!Next
  <2>1. ~Usable(i)'
    BY <1>4, <1>7 DEF Usable
  <2> QED BY <1>6, <2>1
<1>8. CASE ObjIterWith(i)
  BY <1>5, <1>8 DEF ObjIterWith
<1>9. CASE ObjIterReset(i)
  BY <1>5, <1>7, <1>9 DEF ObjIterReset
<1>10. CASE ObjIterNext(i)
  <2>1. PICK was : was = iter[i] /\ iter_has_next(was) /\ MayFollow(was, Linked)
    BY <1>10 DEF Followable, ObjIterNext
  <2>2. PICK n : n = [iter_next(obj, was) EXCEPT !.m_currentKey = iter_next(obj, was).cur]
    OBVIOUS
  <2>3. PICK q : q = iter_next(obj, was).cur
    OBVIOUS
  <2>4. iter'[i] = n /\ current'[i] = (IF current[i] = Void THEN Void ELSE q) /\ IsOpen(i)
    BY <1>4, <1>10, <2>1, <2>2, <2>3 DEF ObjIterNext
  <2>5. CASE current[i] = Void
    <3>1. ~Usable(i) /\ ~Usable(i)'
      BY <2>4, <2>5 DEF Usable
    <3> QED BY <1>6, <3>1
  <2>6. CASE current[i] # Void
    <3>1. isObj /\ Stands(obj, was, current[i]) /\ Usable(i)
      BY <1>0, <2>1, <2>4, <2>6 DEF WellKept, InStep, Usable
    <3>2. PICK s : /\ s = Elements(obj) /\ s \in Seq(Node) /\ Len(s) = obj.len
                   /\ IsRing(obj, s)
      BY <1>0, <3>1, ElementsFacts DEF Sound
    <3>3. PICK x \in Nat : x = was.idx /\ x < Len(s) /\ was.max = Len(s)
      <4>1. was.idx \in Nat /\ was.idx < was.max
        BY <2>1 DEF MayFollow, IterLoose, iter_has_next
      <4> QED BY <3>1, <3>2, <4>1 DEF Stands
    <3>4. /\ n = Iterator(was.m_initialized, obj.next[was.cur], was.idx + 1, was.max,
                          obj.next[was.cur], was.cur)
          /\ q = obj.next[was.cur] /\ MayFollow(n, Linked)
      BY <2>1, <2>2, <2>3, NextFollows DEF Followable
    <3>5. n.idx = x + 1
      BY <3>3, <3>4 DEF Iterator
    <3>6. q = s[x + 1] /\ q \in Node
      <4>1. x + 1 \in 0 .. Len(s) /\ x + 1 # 0 /\ Len(s) > 0 /\ x + 1 \in 1 .. Len(s)
        BY <3>2, <3>3
      <4>2. Walk(obj, obj.ptr, x + 1) = s[x + 1]
        BY <3>2, <4>1, RingPlace DEF Place
      <4>3. was.cur = Walk(obj, obj.ptr, x)
        BY <3>1, <3>2, <3>3, <4>1 DEF Stands
      <4>4. q = s[x + 1]
        BY <3>4, <4>2, <4>3, WalkNext
      <4> QED BY <3>2, <4>1, <4>4
    <3>7. n # Closed
      BY <3>4, SentinelAssumption DEF MayFollow
    <3>8. current'[i] = q /\ q # Void
      BY <2>4, <2>6, <3>6, SentinelAssumption
    <3>9. Usable(i)'
      BY <2>4, <3>7, <3>8 DEF Usable, IsOpen
    <3>10. PICK a : a = SubSeq(s, x + 1, Len(s))
      OBVIOUS
    <3>11. TodoOf(i) = a
      BY <2>1, <3>1, <3>2, <3>3, <3>10 DEF TodoOf
    <3>12. TodoOf(i)' = SubSeq(s, (x + 1) + 1, Len(s)) /\ CurrentOf(i)' = s[x + 1]
      BY <1>0, <2>4, <3>2, <3>5, <3>6, <3>8, <3>9 DEF TodoOf, CurrentOf
    <3>13. a # << >> /\ a # Void /\ Head(a) = s[x + 1] /\ Tail(a) = SubSeq(s, (x + 1) + 1, Len(s))
      BY <3>2, <3>3, <3>10, SliceHead, SentinelAssumption
    <3>14. Promise!Advance(i)
      BY <1>2, <1>3, <3>11, <3>12, <3>13, AdvanceIs DEF Moves
    <3> QED BY <3>14 DEF Promise!Next
  <2> QED BY <2>5, <2>6
<1>11. ASSUME NEW k \in Key, ObjIterGet(i, k) PROVE Promise!Next
  BY <1>7, <1>11 DEF ObjIterGet
<1>12. CASE ReleaseObjIter(i)
  <2>1. iter'[i] = Closed
    BY <1>4, <1>12 DEF ReleaseObjIter
  <2> QED BY <1>6, <2>1 DEF Usable, IsOpen
<1> QED BY <1>8, <1>9, <1>10, <1>11, <1>12 DEF IterCall

LEMMA IterRemoveImplements ==
  ASSUME Followable, WellKept, careful', NEW i \in Iter, ObjIterRemove(i)
  PROVE  Promise!Next
<1>1. PICK k, s : Removes(i, k, s)
  BY IterRemoves
<1>2. careful /\ current[i] \in Node /\ IsOpen(i) /\ isObj' = isObj
  BY DEF ObjIterRemove
<1>3. PICK t : t = Cut(s, k - 1, 1) /\ Elements(obj') = t /\ obj'.len = Len(t)
  BY <1>1, RingElements, RingFacts DEF Removes
<1>4. s = Elements(obj) /\ s \in Seq(Node) /\ IsInjective(s) /\ Len(s) = obj.len /\ k \in 1 .. Len(s)
  BY <1>1, <1>2, ElementsFacts, SoundFacts DEF Removes
<1>5. /\ t = SubSeq(s, 1, k - 1) \o SubSeq(s, k + 1, Len(s))
      /\ SubSeq(t, (k - 1) + 1, Len(t)) = SubSeq(s, k + 1, Len(s))
  BY <1>3, <1>4, RestAfterCut
<1>6. Usable(i) /\ CurrentOf(i) = current[i] /\ TodoOf(i) = SubSeq(s, k + 1, Len(s))
  BY <1>1, <1>2, <1>4 DEF Removes, Usable, TodoOf, CurrentOf
<1>7. \A j \in Iter : current'[j] = IF ~IsOpen(j) THEN current[j]
                                    ELSE IF j = i /\ current[i] # Void THEN Null ELSE Void
  BY DEF ObjIterRemove
<1>8. current'[i] = Null /\ Null # Void
  BY <1>1, <1>2, <1>7, SentinelAssumption DEF Removes
<1>9. iter'[i] # Closed
  <2>1. PICK was : was = iter[i] /\ iter'[i] = iter_remove_iter(was)
    BY DEF ObjIterRemove, Followable
  <2>2. MayFollow(was, Linked) /\ iter_can_remove(was) /\ Linked \in SUBSET Node
    BY <1>2, <2>1 DEF Followable, ObjIterRemove, Linked
  <2>3. MayFollow(iter'[i], Linked)
    BY <2>1, <2>2, RemovedFollows
  <2> QED BY <2>3, SentinelAssumption DEF MayFollow
<1>10. Usable(i)'
  BY <1>8, <1>9 DEF Usable, IsOpen
<1>11. TodoOf(i)' = TodoOf(i) /\ CurrentOf(i)' = Null
  <2>1. TodoOf(i)' = SubSeq(t, (k - 1) + 1, Len(t))
    BY <1>1, <1>3, <1>10 DEF Removes, TodoOf
  <2> QED BY <1>5, <1>6, <1>8, <1>10, <2>1 DEF CurrentOf
<1>12. ASSUME NEW j \in Iter, j # i PROVE TodoOf(j)' = Void /\ CurrentOf(j)' = Null
  <2>1. iter'[j] = iter[j]
    BY <1>1, <1>12 DEF Removes, Followable
  <2>2. ~Usable(j)'
    BY <1>7, <1>12, <2>1 DEF Usable, IsOpen
  <2> QED BY <2>2, NotUsable
<1>13. Values = s /\ Values' = SubSeq(s, 1, k - 1) \o SubSeq(s, k + 1, Len(s))
  BY <1>1, <1>2, <1>3, <1>4, <1>5 DEF Values, Removes
<1>14. k \in DOMAIN s /\ s[k] = CurrentOf(i) /\ CurrentOf(i) # Null
  <2>1. s[k] = current[i] /\ current[i] # Null
    BY <1>1, <1>2, NodeAssumption DEF Removes
  <2> QED BY <1>4, <1>6, <2>1
<1>15. Promise!Remove(i)
  BY <1>11, <1>12, <1>13, <1>14, RemoveIs
<1> QED BY <1>15 DEF Promise!Next

\* With careful callers the object and its iterators do what ListIteration
\* promises: each iterator hands out every pair once and in order, whatever it
\* removes on the way, until Get moves it or something else changes the object.
THEOREM IterationIsImplemented == Spec => ImplementsIteration
<1>1. /\ Followable /\ WellKept /\ (Followable /\ WellKept)' /\ [Next]_vars
      => [careful' => Promise!Next]_(Promise!vars)
  <2> SUFFICES ASSUME Followable, WellKept, WellKept', [Next]_vars, careful'
               PROVE  Promise!Next \/ UNCHANGED Promise!vars
    OBVIOUS
  <2>1. CASE HandleCall
    BY <2>1, HandleImplements
  <2>2. ASSUME NEW i \in Iter, IterCall(i) PROVE Promise!Next \/ UNCHANGED Promise!vars
    BY <2>2, IterCallImplements
  <2>3. ASSUME NEW i \in Iter, ObjIterRemove(i) PROVE Promise!Next \/ UNCHANGED Promise!vars
    BY <2>3, IterRemoveImplements
  <2>4. CASE UNCHANGED vars
    <3>1. Values' = Values /\ \A i \in Iter : Same(i)
      BY <2>4 DEF vars, Values, Same, TodoOf, CurrentOf, Usable, IsOpen
    <3> QED BY <3>1, SameVars
  <2> QED BY <2>1, <2>2, <2>3, <2>4 DEF Next
<1> QED BY <1>1, WellKeptAlways, PTL DEF Spec, ImplementsIteration

-----------------------------------------------------------------------------
(* Setting a key, and keys that occur twice *)

\* A new pair at the end is the only one of its name; the others are as before.
FoundAdded(e, n, t, S) ==
  /\ n \notin S => Among(t, S) = Among(e, S)
  /\ n \in S /\ (\A h \in 1 .. Len(e) : e[h] \notin S) => Among(t, S) = <<n>>

LEMMA AmongAdded ==
  ASSUME NEW e \in Seq(Node), NEW n \in Node, NEW t, t = Append(e, n), NEW S
  PROVE  FoundAdded(e, n, t, S)
<1>1. PICK c \in Nat : c = Len(e)
  OBVIOUS
<1>2. /\ t \in Seq(Node) /\ Len(t) = c + 1 /\ c < Len(t) /\ t[c + 1] = n /\ c <= Len(t)
      /\ \A k \in 1 .. c : t[k] = e[k]
  BY <1>1
<1>3. PICK p : p = Prefix(t, c)
  OBVIOUS
<1>4. p \in Seq(Node) /\ Len(p) = c /\ \A k \in 1 .. c : p[k] = t[k]
  BY <1>2, <1>3, PrefixIs
<1>5. p = e
  <2>1. Len(p) = Len(e) /\ \A k \in 1 .. Len(p) : p[k] = e[k]
    BY <1>1, <1>2, <1>4
  <2> QED BY <1>4, <2>1, SeqEqual
<1>6. OneMore(t, c, S)
  BY <1>2, AmongNext
<1>7. Prefix(t, c + 1) = t
  BY <1>2, AmongWhole
<1>8. Among(t, S) = IF n \in S THEN Append(Among(e, S), n) ELSE Among(e, S)
  BY <1>2, <1>3, <1>5, <1>6, <1>7 DEF OneMore, AmongStep
<1>9. ASSUME n \in S, \A h \in 1 .. Len(e) : e[h] \notin S PROVE Among(t, S) = <<n>>
  <2>1. Among(e, S) = << >>
    BY <1>9, AmongEmpty
  <2> QED BY <1>8, <1>9, <2>1
<1> QED BY <1>8, <1>9 DEF FoundAdded

LEMMA SetExact == Followable /\ WellKept => SetIsExact
<1> SUFFICES ASSUME Followable, WellKept, NEW k \in Key, NEW x \in Value, careful, ObjectSet(k, x)
             PROVE  LET Other == Node \ Named(k)'
                        F == Elements(obj')
                    IN  /\ \E n \in Node : Among(F, Named(k)') = <<n>> /\ val'[n] = x
                        /\ Among(F, Other) = Among(Elements(obj), Other)
                        /\ \A n \in Pairs \cap Other : val'[n] = val[n]
  BY DEF SetIsExact
<1>1. PICK t : SetReplaced(k, x, t) \/ \E n : SetAdded(k, x, n, t)
  BY SetEdit
<1>2. PICK e : e = Elements(obj)
  OBVIOUS
<1>3. isObj /\ e \in Seq(Node)
  <2>1. isObj
    BY DEF ObjectSet
  <2> QED BY <1>2, <2>1, ElementsFacts
<1>4. PICK M, N : M = Named(k) /\ N = Named(k)' /\ M = {m \in Node : key[m] = k}
                  /\ N = {m \in Node : key'[m] = k}
  BY DEF Named
<1>5. key \in [Node -> Key] /\ val \in [Node -> Value]
  BY DEF Followable
<1>6. ASSUME NEW n \in Node, val' = [val EXCEPT ![n] = x], n \in N, Elements(obj') = t,
             Among(t, N) = <<n>>, Among(t, Node \ N) = Among(e, Node \ N)
      PROVE  /\ \E m \in Node : Among(Elements(obj'), Named(k)') = <<m>> /\ val'[m] = x
             /\ Among(Elements(obj'), Node \ Named(k)') = Among(Elements(obj), Node \ Named(k)')
             /\ \A m \in Pairs \cap (Node \ Named(k)') : val'[m] = val[m]
  <2>1. val'[n] = x
    BY <1>5, <1>6
  <2>2. \A m \in Node \ N : val'[m] = val[m]
    BY <1>5, <1>6
  <2> QED BY <1>2, <1>4, <1>6, <2>1, <2>2
<1>7. CASE SetReplaced(k, x, t)
  <2>1. PICK r : /\ r = obj_put(obj, M) /\ PutResult(e, M, r, t) /\ r.first # Null
                 /\ Put(r.L) /\ key' = key /\ val' = [val EXCEPT ![r.first] = x]
    BY <1>2, <1>4, <1>7 DEF SetReplaced
  <2>2. PICK n : n = r.first
    OBVIOUS
  <2>3. /\ IsRing(r.L, t) /\ n \in M /\ n \in Node /\ Among(t, M) = <<n>>
        /\ Among(t, Node \ M) = Among(e, Node \ M)
    BY <2>1, <2>2 DEF PutResult
  <2>4. obj' = r.L
    BY <2>1 DEF Put
  <2>5. Elements(obj') = t
    BY <2>3, <2>4, RingElements
  <2>6. N = M
    BY <1>4, <2>1
  <2>7. /\ n \in Node /\ val' = [val EXCEPT ![n] = x] /\ n \in N
        /\ Among(t, N) = <<n>> /\ Among(t, Node \ N) = Among(e, Node \ N)
    BY <2>1, <2>2, <2>3, <2>6
  <2> QED BY <1>6, <2>5, <2>7
<1>8. CASE \E n : SetAdded(k, x, n, t)
  <2>1. PICK n : SetAdded(k, x, n, t)
    BY <1>8
  <2>2. /\ n \in Node /\ IsRing(obj', t) /\ t = Append(e, n)
        /\ \A h \in 1 .. Len(e) : e[h] # n /\ e[h] \notin M
        /\ key' = [key EXCEPT ![n] = k] /\ val' = [val EXCEPT ![n] = x]
    BY <1>2, <1>4, <2>1 DEF SetAdded
  <2>3. Elements(obj') = t
    BY <2>2, RingElements
  <2>4. n \in N /\ \A m \in Node : m # n => (m \in N <=> m \in M)
    BY <1>4, <1>5, <2>2
  <2>5. \A h \in 1 .. Len(e) : e[h] \notin N
    <3>1. \A h \in 1 .. Len(e) : e[h] \in Node
      BY <1>3
    <3> QED BY <2>2, <2>4, <3>1
  <2>6. Among(t, N) = <<n>>
    <3>1. n \in Node /\ e \in Seq(Node) /\ t = Append(e, n)
      BY <1>3, <2>2
    <3>2. FoundAdded(e, n, t, N)
      BY <3>1, AmongAdded
    <3> QED BY <2>4, <2>5, <3>2 DEF FoundAdded
  <2>7. PICK O : O = Node \ N
    OBVIOUS
  <2>8. Among(t, O) = Among(e, O)
    <3>1. n \in Node /\ e \in Seq(Node) /\ t = Append(e, n)
      BY <1>3, <2>2
    <3>2. FoundAdded(e, n, t, O)
      BY <3>1, AmongAdded
    <3> QED BY <2>4, <2>7, <3>2 DEF FoundAdded
  <2>9. Among(t, Node \ N) = Among(e, Node \ N)
    BY <2>7, <2>8
  <2> QED BY <1>6, <2>2, <2>3, <2>4, <2>6, <2>9
<1>9. \/ SetReplaced(k, x, t)
      \/ \E n : SetAdded(k, x, n, t)
  BY <1>1
<1>10. /\ \E m \in Node : Among(Elements(obj'), Named(k)') = <<m>> /\ val'[m] = x
       /\ Among(Elements(obj'), Node \ Named(k)') = Among(Elements(obj), Node \ Named(k)')
       /\ \A m \in Pairs \cap (Node \ Named(k)') : val'[m] = val[m]
  BY <1>7, <1>8, <1>9
<1> QED BY <1>10

\* Of pairs that were there before under the same names none repeats a name.
LEMMA StaysUnique ==
  ASSUME NEW K, NEW L, NEW s, NEW t, IsRing(L, t), s = Elements(K), Len(s) \in Nat, DOMAIN s = 1 .. Len(s),
         NoOthers(t, s), NEW f, NamesAreUnique(K, f)
  PROVE  NamesAreUnique(L, f)
<1>1. Elements(L) = t /\ DOMAIN t = 1 .. Len(t)
  BY RingElements, RingFacts
<1>2. \A m \in ToSet(t) : m \in ToSet(s)
  <2> TAKE m \in ToSet(t)
  <2>1. PICK j \in 1 .. Len(t) : m = t[j]
    BY <1>1 DEF ToSet
  <2>2. PICK h \in 1 .. Len(s) : t[j] = s[h]
    BY DEF NoOthers
  <2> QED BY <2>1, <2>2 DEF ToSet
<1>3. \A m, n \in ToSet(s) : f[m] = f[n] => m = n
  BY DEF NamesAreUnique
<1> QED BY <1>1, <1>2, <1>3 DEF NamesAreUnique

LEMMA EmptyUnique ==
  ASSUME NEW L, L.len = 0, NEW f
  PROVE  NamesAreUnique(L, f)
<1>1. PICK s : s = Elements(L)
  OBVIOUS
<1>2. DOMAIN s = {}
  BY <1>1 DEF Elements
<1>3. ToSet(s) = {}
  BY <1>2 DEF ToSet
<1> QED BY <1>1, <1>3 DEF NamesAreUnique

LEMMA SetUnique ==
  ASSUME Followable, WellKept, careful, NEW k \in Key, NEW x \in Value, ObjectSet(k, x),
         NamesAreUnique(obj, key)
  PROVE  NamesAreUnique(obj', key')
<1>1. PICK t : SetReplaced(k, x, t) \/ \E n : SetAdded(k, x, n, t)
  BY SetEdit
<1>2. PICK e : e = Elements(obj)
  OBVIOUS
<1>3. isObj /\ e \in Seq(Node) /\ Len(e) \in Nat /\ DOMAIN e = 1 .. Len(e)
  <2>1. isObj
    BY DEF ObjectSet
  <2>2. e \in Seq(Node)
    BY <1>2, <2>1, ElementsFacts
  <2> QED BY <2>1, <2>2
<1>4. CASE SetReplaced(k, x, t)
  <2>1. PICK r : PutResult(e, Named(k), r, t) /\ Put(r.L) /\ key' = key
    BY <1>2, <1>4 DEF SetReplaced
  <2>2. IsRing(r.L, t) /\ NoOthers(t, e) /\ obj' = r.L
    BY <2>1 DEF PutResult, NoOthers, Put
  <2>3. NamesAreUnique(r.L, key)
    BY <1>2, <1>3, <2>2, StaysUnique
  <2> QED BY <2>1, <2>2, <2>3
<1>5. ASSUME NEW n, SetAdded(k, x, n, t) PROVE NamesAreUnique(obj', key')
  <2>1. /\ n \in Node /\ IsRing(obj', t) /\ t = Append(e, n)
        /\ \A h \in 1 .. Len(e) : e[h] # n /\ e[h] \notin Named(k)
        /\ key' = [key EXCEPT ![n] = k] /\ key \in [Node -> Key]
    BY <1>2, <1>5 DEF SetAdded, Followable
  <2>2. Elements(obj') = t
    BY <2>1, RingElements
  <2>3. ToSet(t) = ToSet(e) \cup {n}
    <3>1. /\ DOMAIN t = 1 .. Len(e) + 1 /\ t[Len(e) + 1] = n
          /\ \A h \in 1 .. Len(e) : t[h] = e[h]
      BY <1>3, <2>1
    <3>2. \A h \in DOMAIN t : h \in DOMAIN e \/ h = Len(e) + 1
      BY <1>3, <3>1
    <3>3. \A h \in DOMAIN e : h \in DOMAIN t /\ t[h] = e[h]
      BY <1>3, <3>1
    <3>4. Len(e) + 1 \in DOMAIN t
      BY <1>3, <3>1
    <3> QED BY <3>1, <3>2, <3>3, <3>4 DEF ToSet
  <2>4. key'[n] = k /\ \A m \in ToSet(e) : m \in Node /\ m # n /\ key'[m] = key[m] /\ key[m] # k
    <3> SUFFICES ASSUME NEW m \in ToSet(e)
                 PROVE  m \in Node /\ m # n /\ key'[m] = key[m] /\ key[m] # k
      BY <2>1
    <3>1. PICK h \in 1 .. Len(e) : m = e[h]
      BY <1>3 DEF ToSet
    <3>2. m \in Node /\ m # n /\ m \notin Named(k)
      BY <1>3, <2>1, <3>1
    <3> QED BY <2>1, <3>2 DEF Named
  <2>5. \A m, q \in ToSet(e) : key[m] = key[q] => m = q
    BY <1>2 DEF NamesAreUnique
  <2>6. \A m, q \in ToSet(t) : key'[m] = key'[q] => m = q
    BY <2>3, <2>4, <2>5
  <2> QED BY <2>2, <2>6 DEF NamesAreUnique
<1> QED BY <1>1, <1>4, <1>5

\* RenameKey, unless it would have been refused.
LEMMA RenameUnique ==
  ASSUME Followable, NEW k \in Key, NEW l \in Key, NEW dup \in BOOLEAN, ObjectRenameKey(k, l, dup),
         NamesAreUnique(obj, key), ~NamesAreUnique(obj', key')
  PROVE  ObjectRenameKey(k, l, TRUE) /\ ~ObjectRenameKey(k, l, FALSE)
<1>1. ObjectRenameKey(k, l, TRUE)
  BY DEF ObjectRenameKey
<1>2. ASSUME ~Has(l) PROVE FALSE
  <2>1. /\ isObj /\ obj' = obj
        /\ key' = [n \in Node |-> IF n \in Pairs /\ key[n] = k THEN l ELSE key[n]]
    BY DEF ObjectRenameKey, Put
  <2>2. PICK P : P = Pairs /\ P = ToSet(Elements(obj)) /\ P = ToSet(Elements(obj'))
    BY <2>1 DEF Pairs
  <2>3. P \subseteq Node
    <3>1. PICK s : s = Elements(obj) /\ s \in Seq(Linked)
      BY <2>1, ElementsAreLinked DEF Followable
    <3>2. \A h \in DOMAIN s : s[h] \in Node
      BY <3>1 DEF Linked
    <3> QED BY <2>2, <3>1, <3>2 DEF ToSet
  <2>4. \A n \in P : key[n] # l /\ key'[n] = IF key[n] = k THEN l ELSE key[n]
    BY <1>2, <2>1, <2>2, <2>3 DEF Has, Named
  <2>5. \A m, n \in P : key[m] = key[n] => m = n
    BY <2>2 DEF NamesAreUnique
  <2>6. \A m, n \in P : key'[m] = key'[n] => m = n
    BY <2>4, <2>5
  <2> QED BY <2>2, <2>6 DEF NamesAreUnique
<1>3. ~ObjectRenameKey(k, l, FALSE)
  BY <1>2 DEF ObjectRenameKey
<1> QED BY <1>1, <1>3

LEMMA OnlyRename == Followable /\ WellKept /\ [Next]_vars => OnlyRenameRepeats
<1> SUFFICES ASSUME Followable, WellKept, [Next]_vars, careful', NamesAreUnique(obj, key),
                    ~NamesAreUnique(obj', key')
             PROVE  \E k, l \in Key : ObjectRenameKey(k, l, TRUE) /\ ~ObjectRenameKey(k, l, FALSE)
  BY DEF OnlyRenameRepeats
<1>1. ASSUME NEW t, IsRing(obj', t), NoOthers(t, Elements(obj)), isObj, careful, key' = key PROVE FALSE
  <2>1. PICK s : s = Elements(obj) /\ s \in Seq(Node)
    BY <1>1, ElementsFacts
  <2>2. Len(s) \in Nat /\ DOMAIN s = 1 .. Len(s)
    BY <2>1
  <2>3. NamesAreUnique(obj', key)
    BY <1>1, <2>1, <2>2, StaysUnique
  <2> QED BY <1>1, <2>3
<1>2. ASSUME obj'.len = 0 PROVE FALSE
  BY <1>2, EmptyUnique
<1>3. CASE HandleCall
  <2>1. careful' = careful
    <3>1. CASE SetScalar
      BY <3>1 DEF SetScalar
    <3>2. CASE ~SetScalar
      BY <1>3, <3>2, HandlePuts DEF Put
    <3> QED BY <3>1, <3>2
  <2>2. ASSUME NEW k \in Key, NEW x \in Value, ObjectSet(k, x) PROVE FALSE
    BY <2>1, <2>2, SetUnique
  <2>3. ASSUME NEW k \in Key, ObjectRemove(k) PROVE FALSE
    <3>1. isObj /\ key' = key
      BY <2>3 DEF ObjectRemove, Put
    <3> QED BY <1>1, <2>1, <2>3, <3>1, RemoveEdit
  <2>4. ASSUME NEW k \in Key, NEW l \in Key, NEW dup \in BOOLEAN, ObjectRenameKey(k, l, dup)
        PROVE  ObjectRenameKey(k, l, TRUE) /\ ~ObjectRenameKey(k, l, FALSE)
    BY <2>4, RenameUnique
  <2>5. ASSUME ObjectClear PROVE FALSE
    <3>1. obj' = arr_clear(obj)
      BY <2>5 DEF ObjectClear, Put
    <3>2. Loose(obj, Linked)
      BY DEF Followable, ObjectLoose
    <3>3. obj'.len = 0
      BY <3>1, <3>2, ClearLoose
    <3> QED BY <1>2, <3>3
  <2>6. ASSUME NEW i \in Size, ObjectRotate(i) PROVE FALSE
    <3>1. isObj /\ key' = key
      BY <2>6 DEF ObjectRotate, Put
    <3> QED BY <1>1, <2>1, <2>6, <3>1, RotateEdit
  <2>7. ASSUME NEW p \in Orders(obj_size), ObjectSort(p) PROVE FALSE
    <3>1. isObj /\ key' = key
      BY <2>7 DEF ObjectSort, Put
    <3> QED BY <1>1, <2>1, <2>7, <3>1, SortEdit
  <2>8. ASSUME SetScalar PROVE FALSE
    <3>1. obj' = [obj EXCEPT !.ptr = Null, !.len = 0]
      BY <2>8 DEF SetScalar
    <3>2. obj \in RecordType
      BY DEF Followable, ObjectLoose, Loose
    <3>3. obj'.len = 0
      BY <3>1, <3>2 DEF RecordType
    <3> QED BY <1>2, <3>3
  <2> QED BY <1>3, <2>2, <2>3, <2>4, <2>5, <2>6, <2>7, <2>8 DEF HandleCall
<1>4. ASSUME NEW i \in Iter, IterCall(i) PROVE FALSE
  <2>1. obj' = obj /\ key' = key
    BY <1>4 DEF IterCall, ObjIterWith, ObjIterReset, ObjIterNext, ObjIterGet, ReleaseObjIter
  <2> QED BY <2>1
<1>5. ASSUME NEW i \in Iter, ObjIterRemove(i) PROVE FALSE
  <2>1. PICK k, s : Removes(i, k, s)
    BY <1>5, IterRemoves
  <2>2. careful /\ key' = key
    BY <1>5 DEF ObjIterRemove
  <2>3. PICK t : t = Cut(s, k - 1, 1) /\ IsRing(obj', t)
    BY <2>1 DEF Removes
  <2>4. s = Elements(obj) /\ s \in Seq(Node) /\ IsInjective(s) /\ k \in 1 .. Len(s) /\ isObj
    BY <2>1, <2>2, ElementsFacts, SoundFacts DEF Removes
  <2>5. PICK j \in Nat, one \in Nat : j = k - 1 /\ one = 1 /\ j + one <= Len(s)
    <3>1. Len(s) \in Nat
      BY <2>4
    <3>2. k - 1 \in Nat /\ (k - 1) + 1 <= Len(s)
      BY <2>4, <3>1
    <3> QED BY <3>2
  <2>6. /\ Len(t) = Len(s) - one
        /\ \A m \in 1 .. Len(s) - one : t[m] = IF m <= j THEN s[m] ELSE s[m + one]
    <3>1. /\ Len(Cut(s, j, one)) = Len(s) - one
          /\ \A m \in 1 .. Len(s) - one : Cut(s, j, one)[m] = IF m <= j THEN s[m] ELSE s[m + one]
      <4>1. s \in Seq(Node) /\ IsInjective(s) /\ j \in Nat /\ one \in Nat /\ j + one <= Len(s)
        BY <2>4, <2>5
      <4> QED BY <4>1, CutFacts
    <3>2. t = Cut(s, j, one)
      BY <2>3, <2>5
    <3> QED BY <3>1, <3>2
  <2>7. NoOthers(t, s)
    <3> SUFFICES ASSUME NEW m \in 1 .. Len(t) PROVE \E h \in 1 .. Len(s) : t[m] = s[h]
      BY DEF NoOthers
    <3>1. Len(s) \in Nat /\ m \in 1 .. Len(s) - one
      BY <2>4, <2>6
    <3>2. m \in 1 .. Len(s) /\ m + one \in 1 .. Len(s)
      BY <2>5, <3>1
    <3> QED BY <2>6, <3>1, <3>2
  <2> QED BY <1>1, <2>2, <2>3, <2>4, <2>7
<1>6. CASE UNCHANGED vars
  BY <1>6 DEF vars
<1> QED BY <1>3, <1>4, <1>5, <1>6 DEF Next

LEMMA RemoveExact == Followable /\ WellKept => RemoveIsExact
<1> SUFFICES ASSUME Followable, WellKept, NEW k \in Key, careful, ObjectRemove(k)
             PROVE  /\ Elements(obj') = Among(Elements(obj), Node \ Named(k))
                    /\ \A n \in ToSet(Elements(obj')) : key'[n] = key[n] /\ val'[n] = val[n]
  BY DEF RemoveIsExact
<1>1. PICK t : IsRing(obj', t) /\ t = Among(Elements(obj), Node \ Named(k))
  BY RemoveEdit
<1>2. Elements(obj') = t
  BY <1>1, RingElements
<1>3. key' = key /\ val' = val
  BY DEF ObjectRemove
<1> QED BY <1>1, <1>2, <1>3

\* With careful callers, in objects of any size and with a name at any places
\* in them: Set leaves one pair of the name, Remove none, both leave the pairs of
\* other names alone, and names repeat only when RenameKey is told to let them.
THEOREM EditsByNameDoWhatTheySay == Spec => EditsByNameAreExact
<1>1. Followable /\ WellKept /\ [Next]_vars => [SetIsExact /\ OnlyRenameRepeats]_vars
  BY SetExact, OnlyRename
<1>2. Followable /\ WellKept => RemoveIsExact
  BY RemoveExact
<1>3. Followable /\ WellKept /\ [Next]_vars
      => [SetIsExact /\ RemoveIsExact /\ OnlyRenameRepeats]_vars
  BY <1>1, <1>2
<1> QED BY <1>3, WellKeptAlways, PTL DEF Spec, EditsByNameAreExact
=============================================================================
