----------------------------- MODULE JsonArray ------------------------------
(***************************************************************************)
(* One mutable JSON array, the operations JsonManager offers on it and the *)
(* JsonArrIter iterators opened on it.  Any number of handles may lead to  *)
(* the same array and none of them knows of the iterators, so between two  *)
(* calls on an iterator any other call may change the array.               *)
(*                                                                         *)
(* A value appended, inserted or put in place of another is a copy made in *)
(* the array's document: a fresh node.  Memory of removed values is kept   *)
(* until the document goes (JsonOwnership), so nodes are never reused.     *)
(* Calls that fail change nothing and are not actions.                     *)
(***************************************************************************)
EXTENDS MutRing

CONSTANTS
  Iter,      \* iterators
  Closed,    \* an iterator that is not open
  Void       \* of an iterator overtaken by another change (see current)

VARIABLES
  arr,       \* the ring of the array
  isArr,     \* FALSE once the value was overwritten by a scalar
  iter,      \* m_initialized and m_iterMut of the open iterators
  current,   \* history: the value the iterator handed out last and has not
             \* removed, Null if none, Void once something else has changed
             \* the array under it
  careful    \* history: iterators have only removed what they had just handed
             \* out, from an array nothing else had changed meanwhile

vars == <<arr, isArr, iter, current, careful>>

IterType == [m_initialized : BOOLEAN, idx : Count, max : Count,
             cur : Node \cup {Null}, pre : Node \cup {Null}]

ASSUME SentinelAssumption ==
  /\ Void \notin Node \cup {Null}
  /\ Void \notin Seq(Node)
  /\ Closed \notin IterType

TypeOK ==
  /\ arr \in ListType
  /\ isArr \in BOOLEAN
  /\ iter \in [Iter -> IterType \cup {Closed}]
  /\ current \in [Iter -> Node \cup {Null, Void}]
  /\ careful \in BOOLEAN

Orders(n)  == Bijection(1 .. n, 1 .. n)

Fresh      == {n \in Node : arr.next[n] = Null}
arr_size   == IF isArr THEN arr.len ELSE 0    \* yyjson_mut_arr_size
IsOpen(i)  == iter[i] # Closed

\* The value that the returned handle refers to; Null if there is none.
ArrayGet(i)   == IF i < arr_size THEN Walk(arr, arr.ptr, i + 1) ELSE Null
ArrayGetFirst == IF arr_size = 0 THEN Null ELSE arr.next[arr.ptr]
ArrayGetLast  == IF arr_size = 0 THEN Null ELSE arr.ptr

Init ==
  /\ arr = EmptyList
  /\ isArr = TRUE
  /\ iter = [i \in Iter |-> Closed]
  /\ current = [i \in Iter |-> Null]
  /\ careful = TRUE

-----------------------------------------------------------------------------
(* Calls through a handle *)

\* The call leaves the array as L; every iterator stays as it is.
Put(L) ==
  /\ isArr
  /\ arr' = L
  /\ current' = IF L = arr THEN current
                ELSE [i \in Iter |-> IF IsOpen(i) THEN Void ELSE current[i]]
  /\ UNCHANGED <<isArr, iter, careful>>

ArrayAppend(v)     == Put(arr_append(arr, v))
ArrayPrepend(v)    == Put(arr_prepend(arr, v))
ArrayInsert(i, v)  == i <= arr_size /\ Put(arr_insert(arr, v, i))
ArrayReplace(i, v) == i < arr_size /\ Put(arr_replace(arr, i, v))
ArrayRemove(i)     == i < arr_size /\ Put(arr_remove(arr, i))
ArrayRemoveFirst   == arr_size # 0 /\ Put(arr_remove_first(arr))
ArrayRemoveLast    == arr_size # 0 /\ Put(arr_remove_last(arr))

ArrayRemoveRangeEnd(start, count) ==
  /\ start < arr_size
  /\ count # 0
  /\ Sz(start + count) <= arr_size
  /\ Put(arr_remove_range(arr, start, count))

ArrayRemoveRange(start, count) ==
  /\ start < arr_size
  /\ count # 0
  /\ count <= arr_size - start
  /\ Put(arr_remove_range(arr, start, count))

ArrayClear         == Put(arr_clear(arr))
ArrayRotate(i)     == i < arr_size /\ Put(arr_rotate(arr, i))

ArraySortNoClear(p) ==
  /\ arr_size > 1
  /\ Put(append_all(arr, [k \in 1 .. arr_size |-> Elements(arr)[p[k]]]))

\* Sorted or shuffled, the values are linked again in some new order p.
ArraySort(p) ==
  /\ arr_size > 1
  /\ Put(append_all(arr_clear(arr), [k \in 1 .. arr_size |-> Elements(arr)[p[k]]]))

\* SetBool, SetInt, ..., SetNull on the array itself: uni and the length now
\* belong to the scalar.
SetScalar ==
  /\ isArr' = FALSE
  /\ arr' = [arr EXCEPT !.ptr = Null, !.len = 0]
  /\ current' = [i \in Iter |-> IF IsOpen(i) THEN Void ELSE current[i]]
  /\ UNCHANGED <<iter, careful>>

-----------------------------------------------------------------------------
(* Calls on an iterator *)

Opened == LET it == iter_init(arr)
          IN  [m_initialized |-> TRUE, idx |-> it.idx, max |-> it.max,
               cur |-> it.cur, pre |-> it.pre]

\* ArrIterInit, ArrIterWith
ArrIterWith(i) ==
  /\ ~IsOpen(i)
  /\ isArr
  /\ iter' = [iter EXCEPT ![i] = Opened]
  /\ current' = [current EXCEPT ![i] = Null]
  /\ UNCHANGED <<arr, isArr, careful>>

ArrIterRewind(i) ==
  /\ IsOpen(i)
  /\ iter[i].m_initialized
  /\ IF isArr
     THEN /\ iter' = [iter EXCEPT ![i] = [@ EXCEPT !.idx = 0, !.max = arr.len]]
          /\ current' = [current EXCEPT ![i] = Null]
     ELSE /\ iter' = [iter EXCEPT ![i].m_initialized = FALSE]
          /\ UNCHANGED current
  /\ UNCHANGED <<arr, isArr, careful>>

ArrIterResetKeepsMax(i) ==
  /\ IsOpen(i)
  /\ iter[i].m_initialized
  /\ IF isArr
     THEN /\ iter' = [iter EXCEPT ![i] = [@ EXCEPT !.idx = 0, !.cur = arr.ptr]]
          /\ current' = [current EXCEPT ![i] = Null]
     ELSE /\ iter' = [iter EXCEPT ![i].m_initialized = FALSE]
          /\ UNCHANGED current
  /\ UNCHANGED <<arr, isArr, careful>>

ArrIterReset(i) ==
  /\ IsOpen(i)
  /\ iter[i].m_initialized
  /\ IF isArr
     THEN /\ iter' = [iter EXCEPT ![i] = Opened]
          /\ current' = [current EXCEPT ![i] = Null]
     ELSE /\ iter' = [iter EXCEPT ![i].m_initialized = FALSE]
          /\ UNCHANGED current
  /\ UNCHANGED <<arr, isArr, careful>>

ArrIterNext(i) ==
  /\ IsOpen(i)
  /\ iter[i].m_initialized
  /\ iter_has_next(iter[i])
  /\ iter' = [iter EXCEPT ![i] = iter_next(arr, @)]
  /\ current' = [current EXCEPT ![i] = IF @ = Void THEN Void ELSE iter'[i].cur]
  /\ UNCHANGED <<arr, isArr, careful>>

\* ArrIterRemove does not look at m_initialized.
ArrIterRemove(i) ==
  /\ IsOpen(i)
  /\ iter_can_remove(iter[i])
  /\ arr' = iter_remove_list(arr, iter[i])
  /\ iter' = [iter EXCEPT ![i] = iter_remove_iter(@)]
  /\ current' = [j \in Iter |-> IF j = i
                                THEN IF current[i] = Void THEN Void ELSE Null
                                ELSE IF IsOpen(j) THEN Void ELSE current[j]]
  /\ careful' = (careful /\ current[i] \in Node)
  /\ UNCHANGED isArr

ArrIterGetIndexRaw(i) ==
  IF ~iter[i].m_initialized THEN SizeMax ELSE iter[i].idx

ArrIterGetIndex(i) ==
  IF ~iter[i].m_initialized \/ iter[i].idx = 0 THEN SizeMax ELSE iter[i].idx - 1

ReleaseArrIter(i) ==
  /\ IsOpen(i)
  /\ iter' = [iter EXCEPT ![i] = Closed]
  /\ current' = [current EXCEPT ![i] = Null]
  /\ UNCHANGED <<arr, isArr, careful>>

-----------------------------------------------------------------------------
HandleCall ==
  \/ \E v \in Fresh : ArrayAppend(v)
  \/ \E v \in Fresh : ArrayPrepend(v)
  \/ \E v \in Fresh, i \in Size : ArrayInsert(i, v)
  \/ \E v \in Fresh, i \in Size : ArrayReplace(i, v)
  \/ \E i \in Size : ArrayRemove(i)
  \/ ArrayRemoveFirst
  \/ ArrayRemoveLast
  \/ \E start, count \in Size : ArrayRemoveRange(start, count)
  \/ ArrayClear
  \/ \E i \in Size : ArrayRotate(i)
  \/ \E p \in Orders(arr_size) : ArraySort(p)
  \/ SetScalar

IterCall(i) ==
  \/ ArrIterWith(i)
  \/ ArrIterReset(i)
  \/ ArrIterNext(i)
  \/ ReleaseArrIter(i)

\* Every call in every order.
Next == HandleCall \/ \E i \in Iter : IterCall(i) \/ ArrIterRemove(i)

Spec == Init /\ [][Next]_vars

-----------------------------------------------------------------------------
(* Properties *)

Linked == Node \ Fresh

\* TypeOK bounds every length by the number of values there are, also after
\* a misuse: no size ever wraps around.

\* Whatever is called, in whatever order, with however stale an iterator:
\* every pointer that a later call may follow leads to a value.  The length
\* and the end of the ring, and what an iterator keeps, may contradict each
\* other, but none of them is ever null where it is followed.
NeverFollowsNull ==
  /\ \A n \in Linked : arr.next[n] \in Linked
  /\ isArr /\ arr.len > 0 => arr.ptr \in Linked
  /\ \A i \in Iter : IsOpen(i) =>
       /\ iter[i].max > 0 => iter[i].cur \in Linked
       /\ iter[i].idx > 0 => iter[i].pre \in Linked
       /\ iter[i].idx <= iter[i].max

\* With careful callers the ring is sound: as long as its length says, it
\* closes, and no value is in it twice.
RingIsSound ==
  careful /\ isArr /\ arr.len > 0 =>
    /\ Walk(arr, arr.ptr, arr.len) = arr.ptr
    /\ IsInjective(Elements(arr))

\* With careful callers JSONArrIter.Index is the index at which Get, or First
\* or Last, gives the value handed out last; after that value was removed it is
\* the place of the one before it.
IndexIsPosition ==
  careful => \A i \in Iter :
    IsOpen(i) /\ current[i] # Void =>
      LET k == ArrIterGetIndex(i)
      IN  /\ current[i] # Null =>
               /\ ArrayGet(k) = current[i]
               /\ k = 0 <=> ArrayGetFirst = current[i]
               /\ k = arr_size - 1 <=> ArrayGetLast = current[i]
          /\ k # SizeMax => k < arr.len

\* With careful callers an edit through a handle does to the elements exactly
\* what it says, at any index, and touches no other element.  Sorting and shuffling
\* leave as many values of the same set, so, as RingIsSound has them distinct, the
\* same values in some order.
EditIsExact ==
  careful =>
    LET E == Elements(arr)
        F == Elements(arr')
    IN  /\ \A v \in Fresh :
             /\ ArrayAppend(v) => F = Append(E, v)
             /\ ArrayPrepend(v) => F = <<v>> \o E
             /\ \A i \in Size :
                  /\ ArrayInsert(i, v) => F = InsertAt(E, i + 1, v)
                  /\ ArrayReplace(i, v) => F = ReplaceAt(E, i + 1, v)
        /\ \A i \in Size :
             /\ ArrayRemove(i) => F = RemoveAt(E, i + 1)
             /\ ArrayRotate(i) =>
                  F = SubSeq(E, i + 1, Len(E)) \o SubSeq(E, 1, i)
             /\ \A n \in Size : ArrayRemoveRange(i, n) =>
                  F = SubSeq(E, 1, i) \o SubSeq(E, i + n + 1, Len(E))
        /\ ArrayRemoveFirst => F = Tail(E)
        /\ ArrayRemoveLast => F = Front(E)
        /\ ArrayClear => F = << >>
        /\ (\E p \in Orders(arr_size) : ArraySort(p)) =>
             Len(F) = Len(E) /\ ToSet(F) = ToSet(E)

EditsAreExact == [][EditIsExact]_vars

\* With careful callers the array and its iterators do what ListIteration
\* promises.
Usable(i) == IsOpen(i) /\ iter[i].m_initialized /\ current[i] # Void

Promise == INSTANCE ListIteration WITH
  Item    <- Node,
  None    <- Null,
  seq     <- IF isArr THEN Elements(arr) ELSE << >>,
  todo    <- [i \in Iter |-> IF Usable(i)
                             THEN SubSeq(Elements(arr), iter[i].idx + 1, arr.len)
                             ELSE Void],
  current <- [i \in Iter |-> IF Usable(i) THEN current[i] ELSE Null]

ImplementsIteration == Promise!Init /\ [][careful' => Promise!Next]_(Promise!vars)

\* As IJsonManager.h says of ArrIterRemove: it removes the current element,
\* and is refused when the iterator is not positioned on one.  (The array is
\* not changed by anything else meanwhile.)
RemoveTakesCurrent ==
  [][\A i \in Iter :
       current[i] # Void /\ ArrIterRemove(i) =>
         LET Other(x) == x # current[i]
         IN  /\ current[i] # Null
             /\ Elements(arr') = SelectSeq(Elements(arr), Other)]_vars
=============================================================================
