----------------------------- MODULE JsonObject -----------------------------
(***************************************************************************)
(* One mutable JSON object, the operations JsonManager offers on it and    *)
(* the JsonObjIter iterators opened on it.  A node is a key with its       *)
(* value.  Objects may hold a key twice: parsed text, InitWithStrings and  *)
(* RenameKey may put it there.  As in JsonArray, a handle knows nothing of *)
(* the iterators, and calls that fail change nothing and are not actions.  *)
(***************************************************************************)
EXTENDS MutRing

CONSTANTS
  Key,       \* names
  Value,     \* contents
  Iter,      \* iterators
  Closed,    \* an iterator that is not open
  Void,      \* see current
  MaxInit    \* bound: pairs of the object to begin with

VARIABLES
  obj,       \* the ring of the object
  isObj,     \* FALSE once the value was overwritten by a scalar
  key,       \* name of each node
  val,       \* value of each node
  iter,      \* m_initialized, m_iterMut and m_currentKey of the open iterators
  intact,    \* history: nothing else changed the ring since the iterator was set
  current,   \* history: the node Next handed out last and which was not
             \* removed since; Null if none; Void once Get has moved the
             \* iterator or the ring has changed
  careful    \* history: iterators have only removed what Next had just handed
             \* out, from an object nothing else had changed meanwhile

vars == <<obj, isObj, key, val, iter, intact, current, careful>>

IterType == [m_initialized : BOOLEAN, m_currentKey : Node \cup {Null},
             idx : Count, max : Count, cur : Node \cup {Null}, pre : Node \cup {Null}]

ASSUME SentinelAssumption ==
  /\ Void \notin Node \cup {Null}
  /\ Void \notin Seq(Node)
  /\ Closed \notin IterType

ASSUME BoundAssumption == MaxInit \in Nat

TypeOK ==
  /\ obj \in ListType
  /\ isObj \in BOOLEAN
  /\ key \in [Node -> Key]
  /\ val \in [Node -> Value]
  /\ iter \in [Iter -> IterType \cup {Closed}]
  /\ intact \in [Iter -> BOOLEAN]
  /\ current \in [Iter -> Node \cup {Null, Void}]
  /\ careful \in BOOLEAN

Orders(n)  == Bijection(1 .. n, 1 .. n)

Fresh      == {n \in Node : obj.next[n] = Null}
obj_size   == IF isObj THEN obj.len ELSE 0    \* yyjson_mut_obj_size
IsOpen(i)  == iter[i] # Closed
Pairs      == ToSet(Elements(obj))
Named(k)   == {n \in Node : key[n] = k}
Has(k)     == isObj /\ Pairs \cap Named(k) # {}    \* yyjson_mut_obj_get

\* ObjectGetKey and ObjectGetValueAt step an iterator to the pair at an index.
StepTo(index) ==
  LET at[j \in 0 .. index + 1] ==
        IF j = 0 THEN iter_init(obj) ELSE iter_next(obj, at[j - 1])
  IN  at[index + 1].cur

\* The pair whose name, and whose value, is given.
ObjectGetKey(index)     == IF index < obj_size THEN StepTo(index) ELSE Null
ObjectGetValueAt(index) == IF index < obj_size THEN StepTo(index) ELSE Null

\* ObjectInit, ObjectInitWithStrings, or a parsed object made mutable; its
\* values are alike to begin with.
Init ==
  /\ \E s \in {t \in BoundedSeq(Node, MaxInit) : IsInjective(t)} :
       /\ obj = append_all(EmptyList, s)
       /\ \E k \in Key : key \in {f \in [Node -> Key] : \A n \in Node \ ToSet(s) : f[n] = k}
  /\ \E x \in Value : val = [n \in Node |-> x]
  /\ isObj = TRUE
  /\ iter = [i \in Iter |-> Closed]
  /\ intact = [i \in Iter |-> FALSE]
  /\ current = [i \in Iter |-> Null]
  /\ careful = TRUE

-----------------------------------------------------------------------------
(* Calls through a handle *)

Overtake(is) ==
  /\ intact' = [i \in Iter |-> intact[i] /\ i \notin is]
  /\ current' = [i \in Iter |-> IF i \in is /\ IsOpen(i) THEN Void ELSE current[i]]

\* The call leaves the ring as L; every iterator stays as it is.
Put(L) ==
  /\ isObj
  /\ obj' = L
  /\ Overtake(IF L = obj THEN {} ELSE Iter)
  /\ UNCHANGED <<isObj, iter, careful>>

\* ObjectSet, ObjectSetBool, ...: the value of the first pair of that name is
\* replaced, the other pairs of that name go; or a new pair is added.
ObjectSetByAdd(k, x) ==
  \E n \in Fresh :
    /\ Put(arr_append(obj, n))
    /\ key' = [key EXCEPT ![n] = k]
    /\ val' = [val EXCEPT ![n] = x]

ObjectSet(k, x) ==
  LET r == obj_put(obj, Named(k))
  IN  /\ isObj
      /\ IF r.first # Null
         THEN /\ Put(r.L)
              /\ val' = [val EXCEPT ![r.first] = x]
              /\ UNCHANGED key
         ELSE \E n \in Fresh :
                /\ Put(arr_append(obj, n))
                /\ key' = [key EXCEPT ![n] = k]
                /\ val' = [val EXCEPT ![n] = x]

\* Every pair of that name goes.
ObjectRemove(k) ==
  /\ Has(k)
  /\ Put(obj_remove_key(obj, Named(k)))
  /\ UNCHANGED <<key, val>>

\* Every pair of the old name gets the new one, in place.
ObjectRenameKeyUnchecked(old_key, new_key, allow_duplicate) ==
  /\ Has(old_key)
  /\ Put(obj)
  /\ key' = [n \in Node |-> IF n \in Pairs /\ key[n] = old_key THEN new_key
                            ELSE key[n]]
  /\ UNCHANGED val

ObjectRenameKey(old_key, new_key, allow_duplicate) ==
  /\ Has(old_key)
  /\ ~allow_duplicate => ~Has(new_key)
  /\ Put(obj)
  /\ key' = [n \in Node |-> IF n \in Pairs /\ key[n] = old_key THEN new_key
                            ELSE key[n]]
  /\ UNCHANGED val

ObjectClear     == Put(arr_clear(obj)) /\ UNCHANGED <<key, val>>
ObjectRotate(i) == i < obj_size /\ Put(arr_rotate(obj, i)) /\ UNCHANGED <<key, val>>

ObjectSortNoClear(p) ==
  /\ obj_size > 1
  /\ Put(append_all(obj, [k \in 1 .. obj_size |-> Elements(obj)[p[k]]]))
  /\ UNCHANGED <<key, val>>

\* Sorted by name or shuffled, the pairs are linked again in a new order p.
ObjectSort(p) ==
  /\ obj_size > 1
  /\ Put(append_all(arr_clear(obj), [k \in 1 .. obj_size |-> Elements(obj)[p[k]]]))
  /\ UNCHANGED <<key, val>>

\* SetBool, ..., SetNull on the object itself.
SetScalar ==
  /\ isObj' = FALSE
  /\ obj' = [obj EXCEPT !.ptr = Null, !.len = 0]
  /\ Overtake(Iter)
  /\ UNCHANGED <<key, val, iter, careful>>

-----------------------------------------------------------------------------
(* Calls on an iterator *)

Opened == LET it == iter_init(obj)
          IN  [m_initialized |-> TRUE, m_currentKey |-> Null, idx |-> it.idx,
               max |-> it.max, cur |-> it.cur, pre |-> it.pre]

Track(i, it, ok, n) ==
  /\ iter' = [iter EXCEPT ![i] = it]
  /\ intact' = [intact EXCEPT ![i] = ok]
  /\ current' = [current EXCEPT ![i] = n]

\* ObjIterInit, ObjIterWith
ObjIterWith(i) ==
  /\ ~IsOpen(i)
  /\ isObj
  /\ Track(i, Opened, TRUE, Null)
  /\ UNCHANGED <<obj, isObj, key, val, careful>>

ObjIterRewind(i) ==
  /\ IsOpen(i)
  /\ iter[i].m_initialized
  /\ IF isObj
     THEN Track(i, [iter[i] EXCEPT !.idx = 0, !.max = obj.len, !.m_currentKey = Null],
                TRUE, Null)
     ELSE Track(i, [iter[i] EXCEPT !.m_initialized = FALSE], FALSE, Void)
  /\ UNCHANGED <<obj, isObj, key, val, careful>>

ObjIterResetKeepsMax(i) ==
  /\ IsOpen(i)
  /\ iter[i].m_initialized
  /\ IF isObj
     THEN Track(i, [iter[i] EXCEPT !.idx = 0, !.cur = obj.ptr, !.m_currentKey = Null],
                TRUE, Null)
     ELSE Track(i, [iter[i] EXCEPT !.m_initialized = FALSE], FALSE, Void)
  /\ UNCHANGED <<obj, isObj, key, val, careful>>

ObjIterReset(i) ==
  /\ IsOpen(i)
  /\ iter[i].m_initialized
  /\ IF isObj
     THEN Track(i, Opened, TRUE, Null)
     ELSE Track(i, [iter[i] EXCEPT !.m_initialized = FALSE], FALSE, Void)
  /\ UNCHANGED <<obj, isObj, key, val, careful>>

ObjIterNextKeepsKey(i) ==
  /\ IsOpen(i)
  /\ iter[i].m_initialized
  /\ iter_has_next(iter[i])
  /\ LET it == iter_next(obj, iter[i])
     IN  Track(i, it, intact[i], IF current[i] = Void THEN Void ELSE it.cur)
  /\ UNCHANGED <<obj, isObj, key, val, careful>>

ObjIterNext(i) ==
  /\ IsOpen(i)
  /\ iter[i].m_initialized
  /\ iter_has_next(iter[i])
  /\ LET it == iter_next(obj, iter[i])
     IN  Track(i, [it EXCEPT !.m_currentKey = it.cur], intact[i],
               IF current[i] = Void THEN Void ELSE it.cur)
  /\ UNCHANGED <<obj, isObj, key, val, careful>>

\* The steps to the pair that Get(k) would stop at; 0 if it finds none.
Found(i, k) == iter_find(obj, iter[i], Named(k))

\* ObjIterGet moves the library's iterator but not m_currentKey.
ObjIterGet(i, k) ==
  /\ IsOpen(i)
  /\ iter[i].m_initialized
  /\ Found(i, k) # 0
  /\ Track(i, iter_seek(obj, iter[i], Found(i, k)), intact[i], Void)
  /\ UNCHANGED <<obj, isObj, key, val, careful>>

\* ObjIterGetVal: the node whose value is returned, or Null.
ObjIterGetVal(i) == IF iter[i].m_initialized THEN iter[i].m_currentKey ELSE Null

ObjIterGetIndex(i) ==
  IF ~iter[i].m_initialized \/ iter[i].m_currentKey = Null THEN SizeMax
  ELSE IF iter[i].idx >= iter[i].max THEN Sz(iter[i].max - 1)
  ELSE Sz(iter[i].idx - 1)

\* ObjIterRemove looks neither at m_initialized nor at m_currentKey.
ObjIterRemove(i) ==
  /\ IsOpen(i)
  /\ iter_can_remove(iter[i])
  /\ obj' = iter_remove_list(obj, iter[i])
  /\ iter' = [iter EXCEPT ![i] = iter_remove_iter(@)]
  /\ intact' = [j \in Iter |-> j = i /\ intact[i]]
  /\ current' = [j \in Iter |-> IF ~IsOpen(j) THEN current[j]
                                ELSE IF j = i /\ current[i] # Void THEN Null
                                ELSE Void]
  /\ careful' = (careful /\ current[i] \in Node)
  /\ UNCHANGED <<isObj, key, val>>

ReleaseObjIter(i) ==
  /\ IsOpen(i)
  /\ Track(i, Closed, FALSE, Null)
  /\ UNCHANGED <<obj, isObj, key, val, careful>>

-----------------------------------------------------------------------------
HandleCall ==
  \/ \E k \in Key, x \in Value : ObjectSet(k, x)
  \/ \E k \in Key : ObjectRemove(k)
  \/ \E k, l \in Key, dup \in BOOLEAN : ObjectRenameKey(k, l, dup)
  \/ ObjectClear
  \/ \E i \in Size : ObjectRotate(i)
  \/ \E p \in Orders(obj_size) : ObjectSort(p)
  \/ SetScalar

IterCall(i) ==
  \/ ObjIterWith(i)
  \/ ObjIterReset(i)
  \/ ObjIterNext(i)
  \/ \E k \in Key : ObjIterGet(i, k)
  \/ ReleaseObjIter(i)

\* Every call in every order.
Next == HandleCall \/ \E i \in Iter : IterCall(i) \/ ObjIterRemove(i)

Spec == Init /\ [][Next]_vars

-----------------------------------------------------------------------------
(* Properties *)

\* TypeOK bounds every length by the number of pairs ever made, also after a
\* misuse: no size wraps around.

Linked == Node \ Fresh

\* Whatever is called, in whatever order, with however stale an iterator:
\* every pointer that a later call may follow leads to a pair.
NeverFollowsNull ==
  /\ \A n \in Linked : obj.next[n] \in Linked
  /\ isObj /\ obj.len > 0 => obj.ptr \in Linked
  /\ \A i \in Iter : IsOpen(i) =>
       /\ iter[i].max > 0 => iter[i].cur \in Linked
       /\ iter[i].idx > 0 => iter[i].pre \in Linked
       /\ iter[i].m_currentKey \in Linked \cup {Null}

\* The members of S in the sequence s, in their order.
Among(s, S) ==
  LET f[j \in 0 .. Len(s)] ==
        IF j = 0 THEN << >>
        ELSE IF s[j] \in S THEN Append(f[j - 1], s[j]) ELSE f[j - 1]
  IN  f[Len(s)]

NamesAreUnique(L, f) ==
  \A m, n \in ToSet(Elements(L)) : f[m] = f[n] => m = n

SetIsExact ==
  \A k \in Key, x \in Value : careful /\ iter' = iter /\ ObjectSet(k, x) =>
    LET Other == Node \ Named(k)'
        F == Elements(obj')
    IN  /\ \E n \in Node : Among(F, Named(k)') = <<n>> /\ val'[n] = x
        /\ Among(F, Other) = Among(Elements(obj), Other)
        /\ \A n \in Pairs \cap Other : val'[n] = val[n]

OnlyRenameRepeats ==
  careful' /\ NamesAreUnique(obj, key) /\ ~NamesAreUnique(obj', key') =>
    \E k, l \in Key : ObjectRenameKey(k, l, TRUE) /\ ~ObjectRenameKey(k, l, FALSE)

RemoveIsExact ==
  \A k \in Key : careful /\ iter' = iter /\ ObjectRemove(k) =>
    /\ Elements(obj') = Among(Elements(obj), Node \ Named(k))
    /\ \A n \in ToSet(Elements(obj')) : key'[n] = key[n] /\ val'[n] = val[n]

\* With careful callers ObjectSet leaves exactly one pair of that name, with
\* the new value, and pairs of other names keep their values and their order;
\* Remove takes every pair of the name, however many there are and wherever they
\* stand, and leaves the others, with their names and values, in their order;
\* and a key comes to occur twice only if RenameKey was told to allow it and
\* would have refused otherwise.
EditsByNameAreExact == [][SetIsExact /\ RemoveIsExact /\ OnlyRenameRepeats]_vars

\* With careful callers Value and Index speak of the pair that Next handed out
\* last: at that index JSONObject.GetKey and GetValueAt give that pair.
NextIsPosition ==
  careful => \A i \in Iter :
    IsOpen(i) /\ current[i] \in Node =>
      /\ ObjIterGetVal(i) = current[i]
      /\ ObjectGetKey(ObjIterGetIndex(i)) = current[i]
      /\ ObjectGetValueAt(ObjIterGetIndex(i)) = current[i]

\* With careful callers, wherever the iterator stands, Get finds a key exactly
\* if the object has it, as JSONObject.Get would.
GetFindsKey ==
  careful => \A i \in Iter :
    IsOpen(i) /\ intact[i] => \A k \in Key : Found(i, k) # 0 <=> Has(k)

\* With careful callers, and as long as Get is not used, an object and its
\* iterators do what ListIteration promises.
Usable(i) == IsOpen(i) /\ current[i] # Void

Promise == INSTANCE ListIteration WITH
  Item    <- Node,
  None    <- Null,
  seq     <- IF isObj THEN Elements(obj) ELSE << >>,
  todo    <- [i \in Iter |-> IF Usable(i)
                             THEN SubSeq(Elements(obj), iter[i].idx + 1, obj.len)
                             ELSE Void],
  current <- [i \in Iter |-> IF Usable(i) THEN current[i] ELSE Null]

ImplementsIteration == [][careful' => Promise!Next]_(Promise!vars)
=============================================================================
