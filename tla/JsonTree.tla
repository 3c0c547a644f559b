------------------------------ MODULE JsonTree ------------------------------
(***************************************************************************)
(* What documents contain: several documents, the values in them, and the  *)
(* wrappers through which callers hold values.  JsonOwnership says when a  *)
(* document is freed; here it is freed with its last wrapper.  Containers  *)
(* are objects without duplicate names.  Calls that fail change nothing    *)
(* and are not actions.                                                    *)
(*                                                                         *)
(* The code works on nodes that point to one another.  A tree, written as  *)
(* a function from paths to contents, is what a reader of a node sees.     *)
(***************************************************************************)
EXTENDS Integers, Sequences, FiniteSets, SequencesExt

CONSTANTS
  Wrapper,   \* JsonValue objects
  Doc,       \* documents, mutable and immutable
  Key,       \* names
  Scalar,    \* contents without children
  Null,      \* the scalar null, which a merge patch understands as "remove"
  Object,    \* content of a path that leads to an object
  None,      \* no node: a null pointer
  Closed,    \* a wrapper that does not exist
  Texts,     \* trees of the texts that are parsed
  Patches,   \* JSON Patch documents: sequences of operations
  MaxNode,   \* bound: nodes of all documents together
  MaxDepth   \* bound: length of a path

ASSUME ScalarAssumption == Null \in Scalar /\ Object \notin Scalar
ASSUME SentinelAssumption ==
  /\ None \notin Nat \X Seq(Key)
  /\ Closed \notin [doc : Doc, val : Nat \X Seq(Key)]
ASSUME BoundAssumption == MaxNode \in Nat /\ MaxDepth \in Nat

VARIABLES
  node,      \* the nodes that can be reached: the document each was allocated
             \* from, its content, and its members, a function from names to nodes
  doc,       \* documents: root, and whether it is mutable
  wrap,      \* wrappers: m_pDocument(_mut) and m_pVal(_mut)
  call       \* history: the last call if it was an edit: what it is, the
             \* wrapper it was called on, the path it names, and what it was given

vars == <<node, doc, wrap, call>>

Path    == UNION {[1..n -> Key] : n \in 0..MaxDepth}
\* A node is named by the copy that made it and its place in that copy.
Node    == (1..MaxNode + 1) \X Path
Content == Scalar \cup {Object}
Members == UNION {[K -> DOMAIN node] : K \in SUBSET Key}
NoDoc   == [root |-> None, mutable |-> FALSE]
NoEdit  == [op |-> "none"]
Edit(op, v, p, arg) == [op |-> op, on |-> v, path |-> p, arg |-> arg]

TypeOK ==
  /\ DOMAIN node \subseteq Node
  /\ \A n \in DOMAIN node :
       /\ node[n] \in [doc : Doc, val : Content, mem : Members]
       /\ node[n].val \in Scalar => DOMAIN node[n].mem = {}
  /\ doc \in [Doc -> [root : DOMAIN node \cup {None}, mutable : BOOLEAN]]
  /\ wrap \in [Wrapper -> [doc : Doc, val : DOMAIN node] \cup {Closed}]

Init ==
  /\ node = << >>
  /\ doc = [d \in Doc |-> NoDoc]
  /\ wrap = [w \in Wrapper |-> Closed]
  /\ call = NoEdit

-----------------------------------------------------------------------------
(* Reading nodes *)

IsObj(nd, n)    == nd[n].val = Object
Names(nd, n)    == IF n # None THEN DOMAIN nd[n].mem ELSE {}
Child(nd, n, k) == IF k \in Names(nd, n) THEN nd[n].mem[k] ELSE None
Descend(nd, n, p) ==
  LET at[i \in 0..Len(p)] == IF i = 0 THEN n ELSE Child(nd, at[i - 1], p[i])
  IN  at[Len(p)]

Children(nd, S) == UNION {Range(nd[n].mem) : n \in S}

\* What the library reads, writes or compares when given node n.
Tree(nd, n) ==
  LET at == [p \in Path |-> Descend(nd, n, p)]
  IN  [p \in {q \in Path : at[q] # None} |-> nd[at[p]].val]

IsOpen(w)    == wrap[w] # Closed
IsMutable(w) == IsOpen(w) /\ doc[wrap[w].doc].mutable
TreeOf(w)    == Tree(node, wrap[w].val)
RootOf(w)    == doc[wrap[w].doc].root
HasRoot(w)   == IsOpen(w) /\ RootOf(w) # None
RootTree(w)  == Tree(node, RootOf(w))
Held(wr, d)  == \E w \in DOMAIN wr : wr[w] # Closed /\ wr[w].doc = d

-----------------------------------------------------------------------------
(* Trees *)

\* Every path but the first extends that of an object.
IsTree(t) ==
  /\ t \in [DOMAIN t -> Content]
  /\ DOMAIN t \subseteq Seq(Key) /\ <<>> \in DOMAIN t
  /\ \A p \in DOMAIN t \ {<<>>} :
       \E q \in DOMAIN t, k \in Key : p = Append(q, k) /\ t[q] = Object

ASSUME InputAssumption ==
  /\ \A t \in Texts : IsTree(t)
  /\ \A ops \in Patches :
       /\ Len(ops) \in Nat
       /\ \A i \in 1..Len(ops) : /\ ops[i].path \in Seq(Key)
                                 /\ ops[i].op = "add" => IsTree(ops[i].value)

Leaf(s) == [p \in {<<>>} |-> s]

\* f, and where it says nothing, g: the f @@ g of module TLC, which provers do not know.
Over(f, g) == [x \in DOMAIN f \cup DOMAIN g |-> IF x \in DOMAIN f THEN f[x] ELSE g[x]]

\* Tree u under the new objects that path p names.
Chain(p, u) ==
  [q \in {SubSeq(p, 1, i) : i \in 0..Len(p) - 1} \cup {p \o r : r \in DOMAIN u} |->
     IF IsPrefix(p, q) THEN u[SubSeq(q, Len(p) + 1, Len(q))] ELSE Object]

Prune(t, p) == Restrict(t, {q \in DOMAIN t : ~IsPrefix(p, q)})

\* Tree t with tree u at path p; the parents of p are objects or missing in t.
Graft(t, p, u) == Over(Chain(p, u), Prune(t, p))

\* yyjson_mut_merge_patch: a patch that is no object takes the place of t; what
\* an object of the patch does not name stays; null removes.
MergePatch(t, u) ==
  LET above(q)  == CHOOSE r \in DOMAIN u : /\ IsPrefix(r, q)
                     /\ \A s \in DOMAIN u : IsPrefix(s, q) => Len(s) <= Len(r)
      kept      == {q \in DOMAIN t \ DOMAIN u : u[above(q)] = Object}
      removed   == {q \in DOMAIN u : u[q] = Null /\ q # <<>>}
  IN  Over(Restrict(u, DOMAIN u \ removed), Restrict(t, kept))

\* yyjson_mut_patch: applies all operations or fails as a whole.
Failed == << >>
PatchStep(t, o) ==
  CASE /\ o.op = "add" /\ t # Failed
       /\ o.path = <<>> \/ (Front(o.path) \in DOMAIN t /\ t[Front(o.path)] = Object)
         -> Graft(t, o.path, o.value)
    [] o.op = "remove" /\ o.path # <<>> /\ o.path \in DOMAIN t -> Prune(t, o.path)
    [] OTHER -> Failed
JsonPatch(t, ops) ==
  LET after[i \in 0..Len(ops)] == IF i = 0 THEN t ELSE PatchStep(after[i - 1], ops[i])
  IN  after[Len(ops)]

-----------------------------------------------------------------------------
(* Writing nodes *)

\* yyjson_mut_val_mut_copy, yyjson_val_mut_copy: new nodes of document d for
\* tree t, and the one on top.
CopyInto(nd, d, t) ==
  LET c          == Min((1..MaxNode + 1) \ {n[1] : n \in DOMAIN nd})
      names(p)   == {k \in Key : Append(p, k) \in DOMAIN t}
      members(p) == [k \in names(p) |-> <<c, Append(p, k)>>]
      copy       == [n \in {c} \X DOMAIN t |-> [doc |-> d, val |-> t[n[2]], mem |-> members(n[2])]]
  IN  [nodes |-> Over(copy, nd),
       top   |-> <<c, <<>> >>]

Link(nd, n, k, m) == [nd EXCEPT ![n].mem = Over([j \in {k} |-> m], @)]

\* Member k of object n becomes a copy of t: yyjson_mut_obj_put.
PutMember(nd, n, k, t) ==
  LET c == CopyInto(nd, nd[n].doc, t)
  IN  Link(c.nodes, n, k, c.top)
DropMembers(nd, n, K) == [nd EXCEPT ![n].mem = Restrict(@, DOMAIN @ \ K)]

\* The nodes, documents and wrappers after a call.  What no root and no wrapper
\* leads to is of no interest any more; documents no wrapper holds are freed.
\* Nodes and paths stay within the bounds.
Settle(nd, dc, wr) ==
  LET tops == ({dc[d].root : d \in {e \in Doc : Held(wr, e)}}
                \cup {wr[w].val : w \in {v \in Wrapper : wr[v] # Closed}}) \ {None}
      level[i \in 0..MaxDepth + 1] == IF i = 0 THEN tops ELSE Children(nd, level[i - 1])
      live == UNION {level[i] : i \in 0..MaxDepth}
  IN  /\ IsFiniteSet(live) /\ Cardinality(live) <= MaxNode /\ level[MaxDepth + 1] = {}
      /\ node' = Restrict(nd, live)
      /\ doc' = [d \in Doc |-> IF Held(wr, d) THEN dc[d] ELSE NoDoc]
      /\ wrap' = wr

-----------------------------------------------------------------------------
(* Calls that make a wrapper *)

\* Wrapper w at the root of a new document with a copy of tree t.
NewDocument(w, t, mutable) ==
  /\ ~IsOpen(w) /\ call' = NoEdit
  /\ \E d \in {e \in Doc : ~Held(wrap, e)} :
       LET c == CopyInto(node, d, t)
       IN  Settle(c.nodes, [doc EXCEPT ![d] = [root |-> c.top, mutable |-> mutable]],
                  [wrap EXCEPT ![w] = [doc |-> d, val |-> c.top]])

NewWrapperUnchecked(w, v, n) ==
  /\ ~IsOpen(w) /\ call' = NoEdit
  /\ wrap' = [wrap EXCEPT ![w] = [doc |-> wrap[v].doc, val |-> n]]
  /\ UNCHANGED <<node, doc>>

\* Wrapper w at node n of the document of v.
NewWrapper(w, v, n) ==
  /\ ~IsOpen(w) /\ n # None /\ call' = NoEdit
  /\ wrap' = [wrap EXCEPT ![w] = [doc |-> wrap[v].doc, val |-> n]]
  /\ UNCHANGED <<node, doc>>

ParseJSON(w, t, mutable) == NewDocument(w, t, mutable)
ObjectInit(w)            == NewDocument(w, Leaf(Object), TRUE)
Create(w, s)             == NewDocument(w, Leaf(s), TRUE)    \* CreateBool .. CreateNull

ObjectGet(w, v, k) == IsOpen(v) /\ NewWrapper(w, v, Child(node, wrap[v].val, k))

\* Pointers start at the root of the document, whatever value v holds.
PtrGet(w, v, p) == HasRoot(v) /\ NewWrapper(w, v, Descend(node, RootOf(v), p))

DeepCopy(w, target, v) ==
  IsOpen(target) /\ IsOpen(v) /\ NewDocument(w, TreeOf(v), IsMutable(target))

\* Both convert the whole document.
ToMutable(w, v)   == HasRoot(v) /\ ~IsMutable(v) /\ NewDocument(w, RootTree(v), TRUE)
ToImmutable(w, v) == HasRoot(v) /\ IsMutable(v) /\ NewDocument(w, RootTree(v), FALSE)

\* The patches apply to a clone of the whole document.
ApplyMergePatch(w, v, u, mutable) ==
  HasRoot(v) /\ IsOpen(u) /\ NewDocument(w, MergePatch(RootTree(v), TreeOf(u)), mutable)

ApplyJsonPatch(w, v, ops, mutable) ==
  LET t == JsonPatch(RootTree(v), ops)
  IN  HasRoot(v) /\ t # Failed /\ NewDocument(w, t, mutable)

Close(w) ==
  /\ IsOpen(w) /\ call' = NoEdit
  /\ Settle(node, doc, [wrap EXCEPT ![w] = Closed])

-----------------------------------------------------------------------------
(* Calls that edit *)

ObjectPutAnyway(v, k, t) ==
  LET n == wrap[v].val
  IN  /\ IsOpen(v) /\ IsObj(node, n)
      /\ call' = Edit("Put", v, <<k>>, t)
      /\ Settle(PutMember(node, n, k, t), doc, wrap)

\* Member k of the object v holds becomes a copy of t.
ObjectPut(v, k, t) ==
  LET n == wrap[v].val
  IN  /\ IsMutable(v) /\ IsObj(node, n)
      /\ call' = Edit("Put", v, <<k>>, t)
      /\ Settle(PutMember(node, n, k, t), doc, wrap)

LinkMember(v, k, u) ==
  /\ IsMutable(v) /\ IsObj(node, wrap[v].val)
  /\ call' = Edit("Put", v, <<k>>, TreeOf(u))
  /\ Settle(Link(node, wrap[v].val, k, wrap[u].val), doc, wrap)
ObjectSetLinks(v, k, u) == IsOpen(u) /\ LinkMember(v, k, u)
ObjectSetLinksOwn(v, k, u) ==
  /\ IsOpen(v) /\ IsOpen(u)
  /\ IF wrap[v].doc = wrap[u].doc THEN LinkMember(v, k, u) ELSE ObjectPut(v, k, TreeOf(u))

ObjectSet(v, k, u)       == IsOpen(u) /\ ObjectPut(v, k, TreeOf(u))
ObjectSetScalar(v, k, s) == ObjectPut(v, k, Leaf(s))     \* ObjectSetBool .. ObjectSetNull

ObjectRemove(v, k) ==
  /\ IsMutable(v) /\ k \in Names(node, wrap[v].val)
  /\ call' = Edit("Remove", v, <<k>>, None)
  /\ Settle(DropMembers(node, wrap[v].val, {k}), doc, wrap)

ObjectClear(v) ==
  /\ IsMutable(v) /\ IsObj(node, wrap[v].val)
  /\ call' = Edit("Clear", v, <<>>, None)
  /\ Settle(DropMembers(node, wrap[v].val, Key), doc, wrap)

\* SetBool .. SetNull overwrite the value itself: in a mutable document an
\* object too, in an immutable one only a scalar.
SetScalar(v, s) ==
  /\ IsOpen(v) /\ (IsMutable(v) \/ ~IsObj(node, wrap[v].val))
  /\ call' = Edit("SetScalar", v, <<>>, s)
  /\ Settle([node EXCEPT ![wrap[v].val].val = s, ![wrap[v].val].mem = << >>], doc, wrap)

\* A copy of t as the root of the document of v; some wrappers move there.
SetRoot(v, t, moves) ==
  LET c == CopyInto(node, wrap[v].doc, t)
  IN  Settle(c.nodes, [doc EXCEPT ![wrap[v].doc].root = c.top],
             [w \in Wrapper |-> IF w \in moves THEN [wrap[w] EXCEPT !.val = c.top] ELSE wrap[w]])

\* A copy of t at path p, below the last value on the path that exists; the
\* objects that are missing in between come with it.
PtrPut(v, p, t) ==
  /\ IsMutable(v) /\ call' = Edit("PtrPut", v, p, t)
  /\ \/ (p = <<>> \/ ~HasRoot(v)) /\ SetRoot(v, Chain(p, t), {})
     \/ /\ p # <<>> /\ HasRoot(v)
        /\ LET at(i) == Descend(node, RootOf(v), SubSeq(p, 1, i))
               i     == Max({j \in 0..Len(p) - 1 : at(j) # None})
               new   == Chain(SubSeq(p, i + 2, Len(p)), t)
           IN  /\ IsObj(node, at(i))
               /\ Settle(PutMember(node, at(i), p[i + 1], new), doc, wrap)

\* PtrSet and, with a leaf, PtrSetBool .. PtrSetNull; PtrAdd likewise.
PtrSet(v, p, t) == PtrPut(v, p, t)
PtrAdd(v, p, t) == (p # <<>> \/ ~HasRoot(v)) /\ PtrPut(v, p, t)

PtrRemoveFromValue(v, p) ==
  /\ IsMutable(v) /\ HasRoot(v) /\ call' = Edit("PtrRemove", v, p, None) /\ p # <<>>
  /\ LET n == Descend(node, wrap[v].val, Front(p))
     IN  /\ Last(p) \in Names(node, n)
         /\ Settle(DropMembers(node, n, {Last(p)}), doc, wrap)

PtrRemove(v, p) ==
  /\ IsMutable(v) /\ HasRoot(v) /\ call' = Edit("PtrRemove", v, p, None)
  /\ \/ p = <<>> /\ Settle(node, [doc EXCEPT ![wrap[v].doc].root = None], wrap)
     \/ /\ p # <<>>
        /\ LET n == Descend(node, RootOf(v), Front(p))
           IN  /\ Last(p) \in Names(node, n)
               /\ Settle(DropMembers(node, n, {Last(p)}), doc, wrap)

MergePatchInPlaceStays(v, u) ==
  /\ IsMutable(v) /\ HasRoot(v) /\ IsOpen(u)
  /\ call' = Edit("MergePatch", v, <<>>, TreeOf(u))
  /\ SetRoot(v, MergePatch(RootTree(v), TreeOf(u)), {})

\* A patch in place builds a new root, and v moves there from wherever it was.
MergePatchInPlace(v, u) ==
  /\ IsMutable(v) /\ HasRoot(v) /\ IsOpen(u)
  /\ call' = Edit("MergePatch", v, <<>>, TreeOf(u))
  /\ SetRoot(v, MergePatch(RootTree(v), TreeOf(u)), {v})

JsonPatchInPlace(v, ops) ==
  LET t == JsonPatch(RootTree(v), ops)
  IN  /\ IsMutable(v) /\ HasRoot(v) /\ t # Failed
      /\ call' = Edit("JsonPatch", v, <<>>, ops)
      /\ SetRoot(v, t, {v})

\* With one of each kind, the root of the immutable document is compared.
Equals(v, u) ==
  CASE IsMutable(v) = IsMutable(u)      -> TreeOf(v) = TreeOf(u)
    [] IsMutable(v) /\ ~IsMutable(u)    -> TreeOf(v) = RootTree(u)
    [] ~IsMutable(v) /\ IsMutable(u)    -> RootTree(v) = TreeOf(u)

-----------------------------------------------------------------------------
\* What PtrSet, PtrSetBool .. PtrSetNull can put somewhere.
Values == {TreeOf(u) : u \in {w \in Wrapper : IsOpen(w)}} \cup {Leaf(s) : s \in Scalar}

Next ==
  \E v \in Wrapper :
    \/ ObjectInit(v)
    \/ Close(v)
    \/ ObjectClear(v)
    \/ \E s \in Scalar : Create(v, s) \/ SetScalar(v, s)
    \/ \E t \in Texts, m \in BOOLEAN : ParseJSON(v, t, m)
    \/ \E k \in Key : ObjectRemove(v, k) \/ \E s \in Scalar : ObjectSetScalar(v, k, s)
    \/ \E p \in Path : PtrRemove(v, p) \/ \E s \in Scalar : PtrAdd(v, p, Leaf(s))
    \/ \E t \in Values, p \in Path : PtrSet(v, p, t)
    \/ \E ops \in Patches : JsonPatchInPlace(v, ops)
    \/ \E u \in Wrapper :
         \/ ToMutable(v, u)
         \/ ToImmutable(v, u)
         \/ MergePatchInPlace(v, u)
         \/ \E k \in Key : ObjectGet(v, u, k) \/ ObjectSet(v, k, u)
         \/ \E p \in Path : PtrGet(v, u, p)
         \/ \E ops \in Patches, m \in BOOLEAN : ApplyJsonPatch(v, u, ops, m)
         \/ \E x \in Wrapper : DeepCopy(v, x, u) \/ \E m \in BOOLEAN : ApplyMergePatch(v, u, x, m)

Spec == Init /\ [][Next]_vars

-----------------------------------------------------------------------------
(* Properties *)

\* What a wrapper or a document reaches was allocated from the document the
\* wrapper keeps alive: no call links a value of one document into another, so
\* none can be left pointing into freed memory.
OwnPool ==
  /\ \A n \in DOMAIN node, k \in Key :
       k \in Names(node, n) => node[Child(node, n, k)].doc = node[n].doc
  /\ \A d \in Doc : doc[d].root # None => node[doc[d].root].doc = d
  /\ \A w \in Wrapper : IsOpen(w) => node[wrap[w].val].doc = wrap[w].doc

\* A value has one place: it is the member of one object, or the root, or was
\* taken out.  Calls that pass a value of a document back into it, or into
\* itself, must not make it a member twice; an edit would show in both places.
IsForest ==
  \A n \in DOMAIN node :
    LET places == {mk \in (DOMAIN node) \X Key : Child(node, mk[1], mk[2]) = n}
    IN  /\ Cardinality(places) <= 1
        /\ \A d \in Doc : doc[d].root = n => places = {}

\* A set, removal by name, clear or scalar does to the value, and a pointer call to
\* the document, what it says and nothing else, also when the value it is given is,
\* holds or lies within what it changes.  For patches see PatchShowsInTarget.
EditsAreExact ==
  [][\A v \in Wrapper : call' # NoEdit /\ call'.on = v =>
       LET was == IF HasRoot(v) THEN RootTree(v) ELSE << >>
       IN  CASE call'.op = "Put"       -> TreeOf(v)' = Graft(TreeOf(v), call'.path, call'.arg)
             [] call'.op = "PtrPut"    -> RootTree(v)' = Graft(was, call'.path, call'.arg)
             [] call'.op = "PtrRemove" -> IF call'.path = <<>> THEN RootOf(v)' = None
                                          ELSE RootTree(v)' = Prune(was, call'.path)
             [] call'.op = "Remove"    -> TreeOf(v)' = Prune(TreeOf(v), call'.path)
             [] call'.op = "Clear"     -> TreeOf(v)' = Leaf(Object)
             [] call'.op = "SetScalar" -> TreeOf(v)' = Leaf(call'.arg)
             [] OTHER                  -> call'.op \in {"MergePatch", "JsonPatch"}]_vars

\* Nothing but SetScalar changes an immutable document, whatever is done to the
\* documents it was converted from or into.
ImmutableIsFrozen ==
  [][\A w \in Wrapper :
       /\ IsOpen(w) /\ ~IsMutable(w) /\ wrap'[w] = wrap[w]
       /\ call'.op # "SetScalar"
       => ~IsMutable(w)' /\ TreeOf(w)' = TreeOf(w) /\ RootTree(w)' = RootTree(w)]_vars

\* After a patch in place the wrapper it was called on shows the patched document,
\* and every other wrapper what it showed before.
PatchShowsInTarget ==
  [][\A v \in Wrapper : call'.op \in {"MergePatch", "JsonPatch"} /\ call'.on = v =>
       /\ TreeOf(v)' = IF call'.op = "MergePatch" THEN MergePatch(RootTree(v), call'.arg)
                       ELSE JsonPatch(RootTree(v), call'.arg)
       /\ RootTree(v)' = TreeOf(v)'
       /\ \A w \in Wrapper \ {v} : IsOpen(w) => TreeOf(w)' = TreeOf(w)]_vars

\* json.inc on Equals: "Returns whether two JSON values are equal (deep compare)".
EqualsComparesValues ==
  \A v, u \in Wrapper : IsOpen(v) /\ IsOpen(u) => (Equals(v, u) <=> TreeOf(v) = TreeOf(u))
=============================================================================
