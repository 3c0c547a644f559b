------------------------------ MODULE MutRing ------------------------------
(***************************************************************************)
(* yyjson's mutable arrays and objects, as JsonManager uses them.  The     *)
(* values of an array form a singly linked ring; uni.ptr is the LAST one,  *)
(* so ptr.next is the first, and the length is kept apart from the ring.   *)
(* An iterator keeps its own copies of the length and of two places in the *)
(* ring.  In an object keys and values alternate on the ring and every     *)
(* step is two links long; a node stands for a key with its value then.    *)
(*                                                                         *)
(* yyjson is a library: everything here is external.  Operators take and   *)
(* return the record L = [next, ptr, len] and do not check what the        *)
(* library does not check, so they also say what happens on a damaged      *)
(* ring.                                                                   *)
(***************************************************************************)
EXTENDS Integers, FiniteSets, Sequences, FiniteSetsExt, SequencesExt

CONSTANTS
  Node,      \* yyjson_mut_val of the document's pool, never reused
  Null,      \* no value
  SizeMax    \* the largest size_t

ASSUME NodeAssumption ==
  /\ Null \notin Node
  /\ IsFiniteSet(Node)
  /\ SizeMax \in Nat
  /\ Cardinality(Node) < SizeMax

Size    == 0 .. SizeMax
Count   == 0 .. Cardinality(Node)
Sz(n)   == n % (SizeMax + 1)

ListType == [next : [Node -> Node \cup {Null}], ptr : Node \cup {Null}, len : Count]

EmptyList == [next |-> [n \in Node |-> Null], ptr |-> Null, len |-> 0]

\* The value k places after p in the ring.
Walk(L, p, k) ==
  LET w[j \in 0 .. k] == IF j = 0 THEN p ELSE L.next[w[j - 1]]
  IN  w[k]

\* What yyjson_mut_arr_foreach visits.
Elements(L) == [k \in 1 .. L.len |-> Walk(L, L.ptr, k)]

arr_clear(L) == [L EXCEPT !.len = 0]

\* Link v after prev, at the end of the ring when last is true.
Link(L, prev, v, last) ==
  [next |-> [L.next EXCEPT ![prev] = v, ![v] = L.next[prev]],
   ptr  |-> IF last THEN v ELSE L.ptr,
   len  |-> L.len + 1]

arr_insert(L, v, i) ==
  IF L.len = 0 THEN [next |-> [L.next EXCEPT ![v] = v], ptr |-> v, len |-> 1]
  ELSE IF i = L.len THEN Link(L, L.ptr, v, TRUE)
  ELSE Link(L, Walk(L, L.ptr, i), v, FALSE)

arr_append(L, v)  == arr_insert(L, v, L.len)
arr_prepend(L, v) == arr_insert(L, v, 0)

\* The values of s appended one by one.
append_all(L, s) ==
  LET l[k \in 0 .. Len(s)] == IF k = 0 THEN L ELSE arr_append(l[k - 1], s[k])
  IN  l[Len(s)]

arr_replace(L, i, v) ==
  LET prev == Walk(L, L.ptr, i)
      old  == L.next[prev]
  IN  IF L.len = 1
      THEN [next |-> [L.next EXCEPT ![v] = v], ptr |-> v, len |-> 1]
      ELSE [next |-> [L.next EXCEPT ![prev] = v, ![v] = L.next[old]],
            ptr  |-> IF L.ptr = old THEN v ELSE L.ptr,
            len  |-> L.len]

\* Unlink n values after prev.
Unlink(L, prev, n, tail) ==
  [next |-> [L.next EXCEPT ![prev] = Walk(L, L.next[prev], n)],
   ptr  |-> IF tail THEN prev ELSE L.ptr,
   len  |-> Sz(L.len - n)]

arr_remove(L, i) ==
  LET prev == Walk(L, L.ptr, i)
  IN  IF L.len = 1 THEN arr_clear(L)
      ELSE Unlink(L, prev, 1, L.next[prev] = L.ptr)

arr_remove_first(L) ==
  IF L.len = 1 THEN arr_clear(L) ELSE Unlink(L, L.ptr, 1, FALSE)

arr_remove_last(L) ==
  LET prev == Walk(L, L.ptr, L.len - 1)
  IN  IF L.len = 1 THEN arr_clear(L)
      ELSE [next |-> [L.next EXCEPT ![prev] = L.next[L.ptr]],
            ptr  |-> prev,
            len  |-> L.len - 1]

\* The sum is a size_t and may wrap.
arr_remove_range(L, i, n) ==
  IF Sz(i + n) > L.len \/ n = 0 THEN L
  ELSE IF n = L.len THEN arr_clear(L)
  ELSE Unlink(L, Walk(L, L.ptr, i), n, Sz(i + n) = L.len)

arr_rotate(L, i) == IF i < L.len THEN [L EXCEPT !.ptr = Walk(L, @, i)] ELSE L

-----------------------------------------------------------------------------
(* yyjson_mut_arr_iter *)

iter_init(L) ==
  [idx |-> 0, max |-> L.len, cur |-> IF L.len = 0 THEN Null ELSE L.ptr,
   pre |-> Null]

iter_has_next(it) == it.idx < it.max

iter_next(L, it) ==
  [it EXCEPT !.idx = @ + 1, !.pre = it.cur, !.cur = L.next[it.cur]]

\* On the last element the end of the ring moves back; the array's length
\* becomes the iterator's.
iter_can_remove(it) == 0 < it.idx /\ it.idx <= it.max

iter_remove_list(L, it) ==
  [next |-> [L.next EXCEPT ![it.pre] = L.next[it.cur]],
   ptr  |-> IF it.idx = it.max THEN it.pre ELSE L.ptr,
   len  |-> it.max - 1]

iter_remove_iter(it) == [it EXCEPT !.idx = @ - 1, !.max = @ - 1, !.cur = it.pre]

-----------------------------------------------------------------------------
(* Objects: M is the set of the nodes whose key is looked for *)

iter_find_ahead(L, it, M) ==
  LET hits == {j \in 1 .. it.max - it.idx : Walk(L, it.cur, j) \in M}
  IN  IF hits = {} THEN 0 ELSE Min(hits)

\* yyjson_mut_obj_iter_get: the steps from cur to the next key that matches,
\* at most once around; 0 if there is none.
iter_find(L, it, M) ==
  LET hits == {j \in 1 .. it.max : Walk(L, it.cur, j) \in M}
  IN  IF hits = {} THEN 0 ELSE Min(hits)

iter_seek(L, it, n) ==
  [it EXCEPT !.idx = IF @ + n > it.max THEN @ + n - (it.max + 1) ELSE @ + n,
             !.pre = Walk(L, it.cur, n - 1),
             !.cur = Walk(L, it.cur, n)]

\* yyjson_mut_obj_put: the first match stays (with a new value), the others
\* are removed.
obj_put_step(s, M) ==
  LET it == iter_next(s.L, s.it)
  IN  IF it.cur \notin M THEN [s EXCEPT !.it = it]
      ELSE IF s.first = Null THEN [s EXCEPT !.it = it, !.first = it.cur]
      ELSE [s EXCEPT !.L = iter_remove_list(s.L, it), !.it = iter_remove_iter(it)]

obj_put(L, M) ==
  LET s[j \in 0 .. L.len] ==
        IF j = 0 THEN [L |-> L, it |-> iter_init(L), first |-> Null]
        ELSE obj_put_step(s[j - 1], M)
  IN  s[L.len]

\* yyjson_mut_obj_remove_key: every match is unlinked.
obj_remove_key_step(s, M) ==
  LET cur == s.L.next[s.pre]
  IN  IF cur \notin M THEN [s EXCEPT !.pre = cur, !.kept = @ + 1]
      ELSE [s EXCEPT !.L = Unlink(s.L, s.pre, 1, s.kept + 1 = s.L.len)]

obj_remove_key(L, M) ==
  LET s[j \in 0 .. L.len] ==
        IF j = 0 THEN [L |-> L, pre |-> L.ptr, kept |-> 0]
        ELSE obj_remove_key_step(s[j - 1], M)
  IN  s[L.len].L
=============================================================================
