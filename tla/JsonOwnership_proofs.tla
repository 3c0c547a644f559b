------------------------ MODULE JsonOwnership_proofs ------------------------
(***************************************************************************)
(* Documents and who owns them, for any number of documents, objects and   *)
(* handles: the RefPtr operators of RefCounted, any program of them        *)
(* (RefPtrProgram), and the calls of the extension (JsonOwnership).        *)
(***************************************************************************)
EXTENDS JsonOwnership, RefPtrProgram, FiniteSetTheorems, TLAPS

-----------------------------------------------------------------------------
(***************************************************************************)
(* RefCounted: each operator preserves HeapOK and changes exactly the      *)
(* cells it should.                                                        *)
(***************************************************************************)

(* The cells are finitely many, and those of the frame are three. *)
LEMMA CellFacts ==
  /\ IsFiniteSet(Cell)
  /\ Tmp \in Cell /\ DocRef \in Cell /\ Param \in Cell
  /\ Tmp # DocRef /\ Tmp # Param /\ DocRef # Param
  /\ \A o \in Obj, s \in Side : /\ <<o, s>> \in Cell
                                /\ <<o, s>> # Tmp
                                /\ <<o, s>> # DocRef
                                /\ <<o, s>> # Param
<1>1. IsFiniteSet(Side)
  <2>1. Side = ({} \cup {"mut"}) \cup {"imm"}
    BY DEF Side
  <2>. QED BY <2>1, FS_EmptySet, FS_AddElement
<1>2. IsFiniteSet(Obj \X Side)
  BY <1>1, ObjAssumption, FS_Product
<1>3. Cell = (((Obj \X Side) \cup {Tmp}) \cup {DocRef}) \cup {Param}
  BY DEF Cell
<1>4. IsFiniteSet(Cell)
  <2>1. IsFiniteSet((Obj \X Side) \cup {Tmp})
    BY <1>2, FS_AddElement
  <2>2. IsFiniteSet(((Obj \X Side) \cup {Tmp}) \cup {DocRef})
    BY <2>1, FS_AddElement
  <2>3. IsFiniteSet((((Obj \X Side) \cup {Tmp}) \cup {DocRef}) \cup {Param})
    BY <2>2, FS_AddElement
  <2>. QED BY <2>3, <1>3
<1>5. ASSUME NEW o \in Obj, NEW s \in Side
      PROVE  <<o, s>> \in Cell /\ <<o, s>> # Tmp /\ <<o, s>> # DocRef /\ <<o, s>> # Param
  BY ObjAssumption DEF Cell, Tmp, DocRef, Param
<1>. QED
  BY <1>4, <1>5 DEF Cell, Tmp, DocRef, Param

LEMMA RefsFinite ==
  ASSUME NEW ptr, NEW d
  PROVE  IsFiniteSet(Refs(ptr, d)) /\ Cardinality(Refs(ptr, d)) \in Nat
<1>1. Refs(ptr, d) \in SUBSET Cell
  BY DEF Refs
<1>. QED
  BY <1>1, CellFacts, FS_Subset, FS_CardinalityType

Bit(b) == IF b THEN 1 ELSE 0

(* Writing one cell changes the number of references to a document by the  *)
(* one it gains and the one it loses.                                      *)
LEMMA RefsCard ==
  ASSUME NEW ptr \in [Cell -> DocOrNil], NEW c \in Cell, NEW q \in DocOrNil, NEW d \in Doc
  PROVE  Cardinality(Refs([ptr EXCEPT ![c] = q], d))
           = Cardinality(Refs(ptr, d)) + Bit(q = d) - Bit(ptr[c] = d)
<1> DEFINE new == Refs([ptr EXCEPT ![c] = q], d)
           old == Refs(ptr, d)
<1>1. IsFiniteSet(old) /\ Cardinality(old) \in Nat
  BY RefsFinite
<1>2. CASE (q = d) <=> (ptr[c] = d)
  <2>1. new = old
    BY <1>2 DEF Refs
  <2>. QED BY <2>1, <1>1, <1>2 DEF Bit
<1>3. CASE q = d /\ ptr[c] # d
  <2>1. new = old \cup {c} /\ c \notin old
    BY <1>3 DEF Refs
  <2>2. Cardinality(new) = Cardinality(old) + 1
    BY <2>1, <1>1, FS_AddElement
  <2>. QED BY <2>2, <1>1, <1>3 DEF Bit
<1>4. CASE q # d /\ ptr[c] = d
  <2>1. new = old \ {c} /\ c \in old
    BY <1>4 DEF Refs
  <2>2. Cardinality(new) = Cardinality(old) - 1
    BY <2>1, <1>1, FS_RemoveElement, ZenonT(60)
  <2>. QED BY <2>2, <1>1, <1>4 DEF Bit
<1>. QED BY <1>2, <1>3, <1>4

(* A document some cell points to has a positive count, is allocated and   *)
(* is not owned raw.                                                       *)
LEMMA PointedTo ==
  ASSUME NEW h, HeapOK(h), NEW c \in Cell, h.ptr[c] # NoDoc
  PROVE  /\ h.ptr[c] \in Doc
         /\ h.count[h.ptr[c]] > 0
         /\ h.ptr[c] \in h.alive
         /\ h.ptr[c] \notin h.raw
<1> DEFINE d == h.ptr[c]
<1>1. d \in Doc
  BY DEF HeapOK, HeapType, DocOrNil
<1>2. c \in Refs(h.ptr, d)
  BY DEF Refs
<1>3. Cardinality(Refs(h.ptr, d)) # 0
  BY <1>2, RefsFinite, FS_EmptySet
<1>4. h.count[d] > 0
  BY <1>1, <1>3, RefsFinite DEF HeapOK, CountExact
<1>. QED
  BY <1>1, <1>4 DEF HeapOK, AliveExact, RawApart

(* Between calls a document is allocated exactly when a cell points to it. *)
LEMMA AliveIsPointedTo ==
  ASSUME NEW h, HeapOK(h), h.raw = {}
  PROVE  h.alive = {d \in Doc : \E c \in Cell : h.ptr[c] = d}
<1>1. ASSUME NEW d \in Doc, d \in h.alive
      PROVE  \E c \in Cell : h.ptr[c] = d
  <2>1. Cardinality(Refs(h.ptr, d)) # 0
    BY <1>1 DEF HeapOK, AliveExact, CountExact
  <2>2. Refs(h.ptr, d) # {}
    BY <2>1, FS_EmptySet
  <2>. QED BY <2>2 DEF Refs
<1>2. ASSUME NEW d \in Doc, NEW c \in Cell, h.ptr[c] = d
      PROVE  d \in h.alive
  BY <1>2, PointedTo, NoDocAssumption
<1>. QED
  BY <1>1, <1>2 DEF HeapOK, HeapType

LEMMA EmptyHeapOK == HeapOK(EmptyHeap)
<1>1. EmptyHeap \in HeapType
  BY DEF EmptyHeap, HeapType, DocOrNil
<1>2. ASSUME NEW d \in Doc PROVE Cardinality(Refs(EmptyHeap.ptr, d)) = 0
  <2>1. Refs(EmptyHeap.ptr, d) = {}
    BY NoDocAssumption DEF Refs, EmptyHeap
  <2>. QED BY <2>1, FS_EmptySet
<1>. QED
  BY <1>1, <1>2 DEF HeapOK, CountExact, AliveExact, RawApart, EmptyHeap

-----------------------------------------------------------------------------
(* The heart of every RefPtr operation: cell c goes from its document to p, *)
(* p gains a reference, the old document loses one and is freed if it was   *)
(* the last.                                                                *)
LEMMA Repoint ==
  ASSUME NEW h, HeapOK(h), NEW c \in Cell, NEW p \in DocOrNil, h.ptr[c] # p,
         p # NoDoc => (p \in h.alive /\ p \notin h.raw),
         NEW g, g \in HeapType, g.raw = h.raw,
         g.ptr = [h.ptr EXCEPT ![c] = p],
         \A d \in Doc : g.count[d] = h.count[d] + Bit(p = d) - Bit(h.ptr[c] = d),
         \A d \in Doc : d \in g.alive <=> (d \in h.alive /\ ~(d = h.ptr[c] /\ h.count[d] = 1))
  PROVE  HeapOK(g)
<1>1. h \in HeapType
  BY DEF HeapOK
<1>2. CountExact(g)
  <2> SUFFICES ASSUME NEW d \in Doc
               PROVE  g.count[d] = Cardinality(Refs(g.ptr, d))
    BY DEF CountExact
  <2>1. Cardinality(Refs(g.ptr, d))
          = Cardinality(Refs(h.ptr, d)) + Bit(p = d) - Bit(h.ptr[c] = d)
    BY <1>1, RefsCard DEF HeapType
  <2>2. h.count[d] = Cardinality(Refs(h.ptr, d))
    BY DEF HeapOK, CountExact
  <2>. QED BY <2>1, <2>2
<1>3. AliveExact(g)
  <2> SUFFICES ASSUME NEW d \in Doc
               PROVE  d \in g.alive <=> (g.count[d] > 0 \/ d \in g.raw)
    BY DEF AliveExact
  <2>1. d \in h.alive <=> (h.count[d] > 0 \/ d \in h.raw)
    BY DEF HeapOK, AliveExact
  <2>2. h.count[d] \in Nat
    BY <1>1 DEF HeapType
  <2>3. CASE d = h.ptr[c]
    <3>1. h.ptr[c] # NoDoc
      BY <2>3, NoDocAssumption
    <3>2. h.count[d] > 0 /\ d \in h.alive /\ d \notin h.raw
      BY <2>3, <3>1, PointedTo
    <3>3. g.count[d] = h.count[d] - 1
      BY <2>2, <2>3 DEF Bit
    <3>. QED BY <3>2, <3>3, <2>2, <2>3
  <2>4. CASE d # h.ptr[c] /\ d = p
    <3>1. d \in h.alive /\ d \notin h.raw
      BY <2>4, NoDocAssumption
    <3>2. g.count[d] = h.count[d] + 1
      BY <2>2, <2>4 DEF Bit
    <3>. QED BY <3>1, <3>2, <2>2, <2>4
  <2>5. CASE d # h.ptr[c] /\ d # p
    <3>1. g.count[d] = h.count[d]
      BY <2>2, <2>5 DEF Bit
    <3>. QED BY <3>1, <2>1, <2>5
  <2>. QED BY <2>3, <2>4, <2>5
<1>4. RawApart(g)
  <2> SUFFICES ASSUME NEW d \in h.raw PROVE g.count[d] = 0
    BY DEF RawApart
  <2>1. d \in Doc /\ h.count[d] = 0
    BY <1>1 DEF HeapOK, RawApart, HeapType
  <2>2. d # p
    BY <2>1, NoDocAssumption
  <2>3. d # h.ptr[c]
    BY <2>1, PointedTo, NoDocAssumption
  <2>. QED BY <2>1, <2>2, <2>3 DEF Bit
<1>. QED
  BY <1>2, <1>3, <1>4 DEF HeapOK

-----------------------------------------------------------------------------
(* The operations.  Each lemma gives the heap's validity and the exact new *)
(* pointers; the latter is all that clients need to know.                  *)

LEMMA RawNewOK ==
  ASSUME NEW h, HeapOK(h), NEW d \in Doc, d \notin h.alive
  PROVE  /\ HeapOK(RawNew(h, d))
         /\ RawNew(h, d).ptr = h.ptr
         /\ RawNew(h, d).raw = h.raw \cup {d}
         /\ RawNew(h, d).alive = h.alive \cup {d}
<1>1. h.count[d] = 0
  BY DEF HeapOK, HeapType, AliveExact
<1>. QED
  BY <1>1 DEF HeapOK, HeapType, CountExact, AliveExact, RawApart, RawNew

LEMMA RawFreeOK ==
  ASSUME NEW h, HeapOK(h), NEW d \in Doc, d \in h.raw
  PROVE  /\ HeapOK(RawFree(h, d))
         /\ RawFree(h, d).ptr = h.ptr
         /\ RawFree(h, d).raw = h.raw \ {d}
         /\ RawFree(h, d).alive = h.alive \ {d}
<1> DEFINE g == RawFree(h, d)
<1>1. h \in HeapType /\ h.count[d] = 0
  BY DEF HeapOK, RawApart
<1>2. /\ g.ptr = h.ptr /\ g.count = h.count
      /\ g.raw = h.raw \ {d} /\ g.alive = h.alive \ {d}
      /\ g \in HeapType
  BY <1>1 DEF RawFree, HeapType
<1>3. CountExact(g)
  BY <1>2 DEF HeapOK, CountExact
<1>4. AliveExact(g)
  BY <1>1, <1>2 DEF HeapOK, AliveExact
<1>5. RawApart(g)
  BY <1>2 DEF HeapOK, RawApart
<1>. QED
  BY <1>2, <1>3, <1>4, <1>5 DEF HeapOK

(* The three steps the operations are made of, field by field.             *)
LEMMA AddRefFacts ==
  ASSUME NEW h \in HeapType, NEW p \in DocOrNil
  PROVE  LET g == AddRef(h, p)
         IN  /\ g \in HeapType
             /\ g.ptr = h.ptr /\ g.alive = h.alive /\ g.raw = h.raw
             /\ \A d \in Doc : g.count[d] = h.count[d] + Bit(p = d)
<1>1. h.count \in [Doc -> Nat]
  BY DEF HeapType
<1>2. CASE p = NoDoc
  BY <1>1, <1>2, NoDocAssumption DEF AddRef, Bit
<1>3. CASE p # NoDoc
  <2> DEFINE n == [h.count EXCEPT ![p] = @ + 1]
  <2>1. p \in Doc
    BY <1>3 DEF DocOrNil
  <2>2. AddRef(h, p) = [h EXCEPT !.count = n]
    BY <1>3 DEF AddRef
  <2>3. n \in [Doc -> Nat] /\ \A d \in Doc : n[d] = h.count[d] + Bit(p = d)
    BY <1>1, <2>1 DEF Bit
  <2>. HIDE DEF n
  <2>. QED BY <2>2, <2>3 DEF HeapType
<1>. QED BY <1>2, <1>3

LEMMA ReleaseFacts ==
  ASSUME NEW h \in HeapType, NEW p \in DocOrNil, p # NoDoc => h.count[p] > 0
  PROVE  LET g == Release(h, p)
         IN  /\ g \in HeapType
             /\ g.ptr = h.ptr /\ g.raw = h.raw
             /\ \A d \in Doc : g.count[d] = h.count[d] - Bit(p = d)
             /\ \A d \in Doc :
                  d \in g.alive <=> (d \in h.alive /\ ~(d = p /\ h.count[d] = 1))
<1>1. h.count \in [Doc -> Nat]
  BY DEF HeapType
<1>2. CASE p = NoDoc
  BY <1>1, <1>2, NoDocAssumption DEF Release, Bit
<1>3. CASE p # NoDoc
  <2> DEFINE n == [h.count EXCEPT ![p] = @ - 1]
             a == IF h.count[p] = 1 THEN h.alive \ {p} ELSE h.alive
  <2>1. p \in Doc /\ h.count[p] > 0
    BY <1>3 DEF DocOrNil
  <2>2. Release(h, p) = [h EXCEPT !.count = n, !.alive = a]
    BY <1>3 DEF Release
  <2>3. n \in [Doc -> Nat] /\ \A d \in Doc : n[d] = h.count[d] - Bit(p = d)
    BY <1>1, <2>1 DEF Bit
  <2>4. /\ a \in SUBSET Doc
        /\ \A d \in Doc : d \in a <=> (d \in h.alive /\ ~(d = p /\ h.count[d] = 1))
    BY DEF HeapType
  <2>. HIDE DEF n, a
  <2>. QED BY <2>2, <2>3, <2>4, ZenonT(60) DEF HeapType
<1>. QED BY <1>2, <1>3

LEMMA PointFacts ==
  ASSUME NEW h \in HeapType, NEW c \in Cell, NEW p \in DocOrNil
  PROVE  LET g == Point(h, c, p)
         IN  /\ g \in HeapType
             /\ g.ptr = [h.ptr EXCEPT ![c] = p]
             /\ g.count = h.count /\ g.alive = h.alive /\ g.raw = h.raw
<1> DEFINE f == [h.ptr EXCEPT ![c] = p]
<1>1. f \in [Cell -> DocOrNil]
  BY DEF HeapType
<1>2. Point(h, c, p) = [h EXCEPT !.ptr = f]
  BY DEF Point
<1>. HIDE DEF f
<1>3. Point(h, c, p).ptr = f
  BY <1>2 DEF HeapType
<1>. QED
  BY <1>1, <1>2, <1>3 DEF HeapType, f

LEMMA MakeRefOK ==
  ASSUME NEW h, HeapOK(h), NEW c \in Cell, NEW d \in h.raw, h.ptr[c] = NoDoc
  PROVE  /\ HeapOK(MakeRef(h, c, d))
         /\ MakeRef(h, c, d).ptr = [h.ptr EXCEPT ![c] = d]
         /\ MakeRef(h, c, d).raw = h.raw \ {d}
         /\ MakeRef(h, c, d).alive = h.alive
<1> DEFINE k == [h EXCEPT !.raw = @ \ {d}]
           a == AddRef(k, d)
           g == MakeRef(h, c, d)
<1>1. h \in HeapType /\ d \in Doc /\ d # NoDoc /\ d \in h.alive /\ h.count[d] = 0
  BY NoDocAssumption DEF HeapOK, HeapType, AliveExact, RawApart
<1>2. /\ k \in HeapType /\ k.ptr = h.ptr /\ k.count = h.count /\ k.alive = h.alive
      /\ k.raw = h.raw \ {d}
  BY <1>1 DEF HeapType
<1>3. d \in DocOrNil
  BY <1>1 DEF DocOrNil
<1>. HIDE DEF k
<1>4. /\ a \in HeapType /\ a.ptr = h.ptr /\ a.alive = h.alive /\ a.raw = h.raw \ {d}
      /\ \A x \in Doc : a.count[x] = h.count[x] + Bit(d = x)
  BY <1>2, <1>3, AddRefFacts
<1>5. g = Point(a, c, d)
  BY DEF MakeRef, k
<1>. HIDE DEF a
<1>6. /\ g \in HeapType /\ g.ptr = [h.ptr EXCEPT ![c] = d] /\ g.alive = h.alive
      /\ g.raw = h.raw \ {d}
      /\ \A x \in Doc : g.count[x] = h.count[x] + Bit(d = x)
  BY <1>3, <1>4, <1>5, PointFacts
<1>. HIDE DEF g
<1>7. CountExact(g)
  <2> SUFFICES ASSUME NEW x \in Doc PROVE g.count[x] = Cardinality(Refs(g.ptr, x))
    BY DEF CountExact
  <2>1. Cardinality(Refs(g.ptr, x))
          = Cardinality(Refs(h.ptr, x)) + Bit(d = x) - Bit(NoDoc = x)
    BY <1>1, <1>3, <1>6, RefsCard DEF HeapType
  <2>2. h.count[x] = Cardinality(Refs(h.ptr, x)) /\ h.count[x] \in Nat
    BY <1>1 DEF HeapOK, CountExact, HeapType
  <2>. QED BY <1>6, <2>1, <2>2, NoDocAssumption DEF Bit
<1>8. AliveExact(g)
  <2> SUFFICES ASSUME NEW x \in Doc
               PROVE  x \in g.alive <=> (g.count[x] > 0 \/ x \in g.raw)
    BY DEF AliveExact
  <2>1. x \in h.alive <=> (h.count[x] > 0 \/ x \in h.raw)
    BY DEF HeapOK, AliveExact
  <2>2. h.count[x] \in Nat
    BY <1>1 DEF HeapType
  <2>. QED BY <1>1, <1>6, <2>1, <2>2 DEF Bit
<1>9. RawApart(g)
  BY <1>1, <1>6 DEF HeapOK, RawApart, HeapType, Bit
<1>. QED
  BY <1>6, <1>7, <1>8, <1>9 DEF HeapOK, g

(* Assignment from a pointer that is null or of an allocated document.     *)
LEMMA ReassignOK ==
  ASSUME NEW h, HeapOK(h), NEW c \in Cell, NEW p \in DocOrNil, h.ptr[c] # p,
         p # NoDoc => (p \in h.alive /\ p \notin h.raw)
  PROVE  LET g == Point(Release(AddRef(h, p), h.ptr[c]), c, p)
         IN  HeapOK(g) /\ g.ptr = [h.ptr EXCEPT ![c] = p] /\ g.raw = h.raw
<1> DEFINE old == h.ptr[c]
           a == AddRef(h, p)
           r == Release(a, old)
           g == Point(r, c, p)
<1>1. h \in HeapType /\ old \in DocOrNil /\ h.count \in [Doc -> Nat]
  BY DEF HeapOK, HeapType
<1>2. /\ a \in HeapType /\ a.ptr = h.ptr /\ a.alive = h.alive /\ a.raw = h.raw
      /\ \A d \in Doc : a.count[d] = h.count[d] + Bit(p = d)
  BY <1>1, AddRefFacts
<1>3. old # NoDoc => old \in Doc /\ h.count[old] > 0
  BY PointedTo
<1>. HIDE DEF a
<1>4. old # NoDoc => a.count[old] = h.count[old]
  BY <1>1, <1>2, <1>3 DEF Bit
<1>5. /\ r \in HeapType /\ r.ptr = h.ptr /\ r.raw = h.raw
      /\ \A d \in Doc : r.count[d] = a.count[d] - Bit(old = d)
      /\ \A d \in Doc : d \in r.alive <=> (d \in h.alive /\ ~(d = old /\ a.count[d] = 1))
  BY <1>1, <1>2, <1>3, <1>4, ReleaseFacts
<1>. HIDE DEF r
<1>6. /\ g \in HeapType /\ g.ptr = [h.ptr EXCEPT ![c] = p] /\ g.raw = h.raw
      /\ g.count = r.count /\ g.alive = r.alive
  BY <1>5, PointFacts
<1>. HIDE DEF g
<1>7. \A d \in Doc : g.count[d] = h.count[d] + Bit(p = d) - Bit(old = d)
  BY <1>1, <1>2, <1>5, <1>6 DEF Bit
<1>8. \A d \in Doc : d \in g.alive <=> (d \in h.alive /\ ~(d = old /\ h.count[d] = 1))
  BY <1>3, <1>4, <1>5, <1>6, NoDocAssumption
<1>9. HeapOK(g)
  BY <1>6, <1>7, <1>8, Repoint
<1>. QED
  BY <1>6, <1>9 DEF g, r, a

LEMMA CopyAssignOK ==
  ASSUME NEW h, HeapOK(h), NEW c \in Cell, NEW src \in Cell
  PROVE  /\ HeapOK(CopyAssign(h, c, src))
         /\ CopyAssign(h, c, src).ptr = [h.ptr EXCEPT ![c] = h.ptr[src]]
         /\ CopyAssign(h, c, src).raw = h.raw
<1>1. h \in HeapType /\ h.ptr[src] \in DocOrNil
  BY DEF HeapOK, HeapType
<1>2. CASE h.ptr[c] = h.ptr[src]
  BY <1>1, <1>2 DEF CopyAssign, HeapType
<1>3. CASE h.ptr[c] # h.ptr[src]
  BY <1>1, <1>3, PointedTo, ReassignOK DEF CopyAssign
<1>. QED BY <1>2, <1>3

LEMMA ResetOK ==
  ASSUME NEW h, HeapOK(h), NEW c \in Cell, NEW p \in DocOrNil,
         p # NoDoc => (p \in h.alive /\ p \notin h.raw)
  PROVE  /\ HeapOK(Reset(h, c, p))
         /\ Reset(h, c, p).ptr = [h.ptr EXCEPT ![c] = p]
         /\ Reset(h, c, p).raw = h.raw
<1>1. h \in HeapType
  BY DEF HeapOK
<1>2. CASE h.ptr[c] = p
  BY <1>1, <1>2 DEF Reset, HeapType
<1>3. CASE h.ptr[c] # p
  BY <1>3, ReassignOK DEF Reset
<1>. QED BY <1>2, <1>3

LEMMA DtorOK ==
  ASSUME NEW h, HeapOK(h), NEW c \in Cell
  PROVE  /\ HeapOK(Dtor(h, c))
         /\ Dtor(h, c).ptr = [h.ptr EXCEPT ![c] = NoDoc]
         /\ Dtor(h, c).raw = h.raw
<1>1. h \in HeapType
  BY DEF HeapOK
<1>2. CASE h.ptr[c] = NoDoc
  <2>1. Dtor(h, c) = h /\ h.ptr = [h.ptr EXCEPT ![c] = NoDoc]
    BY <1>1, <1>2 DEF Dtor, Release, Point, HeapType
  <2>. QED BY <2>1
<1>3. CASE h.ptr[c] # NoDoc
  <2>1. Dtor(h, c) = Point(Release(AddRef(h, NoDoc), h.ptr[c]), c, NoDoc)
    BY DEF Dtor, AddRef
  <2>. QED BY <1>3, <2>1, ReassignOK DEF DocOrNil
<1>. QED BY <1>2, <1>3

LEMMA CopyInitOK ==
  ASSUME NEW h, HeapOK(h), NEW c \in Cell, NEW src \in Cell, h.ptr[c] = NoDoc
  PROVE  /\ HeapOK(CopyInit(h, c, src))
         /\ CopyInit(h, c, src).ptr = [h.ptr EXCEPT ![c] = h.ptr[src]]
         /\ CopyInit(h, c, src).raw = h.raw
<1>1. h \in HeapType /\ h.ptr[src] \in DocOrNil
  BY DEF HeapOK, HeapType
<1>2. CASE h.ptr[src] = NoDoc
  <2>1. CopyInit(h, c, src) = h /\ h.ptr = [h.ptr EXCEPT ![c] = h.ptr[src]]
    BY <1>1, <1>2 DEF CopyInit, AddRef, Point, HeapType
  <2>. QED BY <2>1
<1>3. CASE h.ptr[src] # NoDoc
  <2>1. CopyInit(h, c, src)
          = Point(Release(AddRef(h, h.ptr[src]), h.ptr[c]), c, h.ptr[src])
    BY DEF CopyInit, Release
  <2>. QED BY <1>1, <1>3, <2>1, PointedTo, ReassignOK
<1>. QED BY <1>2, <1>3

(* A move is an assignment after which the source is destroyed: the        *)
(* counter of the document that moves ends where it began.                 *)
LEMMA MoveAssignOK ==
  ASSUME NEW h, HeapOK(h), NEW c \in Cell, NEW src \in Cell, c # src
  PROVE  /\ HeapOK(MoveAssign(h, c, src))
         /\ MoveAssign(h, c, src).ptr
              = [h.ptr EXCEPT ![c] = h.ptr[src], ![src] = NoDoc]
         /\ MoveAssign(h, c, src).raw = h.raw
<1> DEFINE g == Dtor(h, c)
           m == MoveAssign(h, c, src)
           p == h.ptr[src]
<1>1. HeapOK(g) /\ g.ptr = [h.ptr EXCEPT ![c] = NoDoc] /\ g.raw = h.raw
  BY DtorOK
<1>2. h \in HeapType /\ g \in HeapType /\ p \in DocOrNil /\ NoDoc \in DocOrNil
  BY <1>1 DEF HeapOK, HeapType, DocOrNil
<1>3. m = [g EXCEPT !.ptr = [h.ptr EXCEPT ![c] = p, ![src] = NoDoc]]
  BY <1>2 DEF MoveAssign, Dtor, Point, Release, HeapType
<1>4. /\ m.ptr = [h.ptr EXCEPT ![c] = p, ![src] = NoDoc]
      /\ m.count = g.count /\ m.alive = g.alive /\ m.raw = g.raw
      /\ m \in HeapType
  BY <1>2, <1>3 DEF HeapType
<1>5. CountExact(m)
  <2> SUFFICES ASSUME NEW d \in Doc PROVE m.count[d] = Cardinality(Refs(m.ptr, d))
    BY DEF CountExact
  <2> DEFINE f == [h.ptr EXCEPT ![c] = p]
  <2>1. f \in [Cell -> DocOrNil] /\ f[src] = p /\ m.ptr = [f EXCEPT ![src] = NoDoc]
    BY <1>2, <1>4 DEF HeapType
  <2>2. Cardinality(Refs(m.ptr, d)) = Cardinality(Refs(f, d)) + Bit(NoDoc = d) - Bit(p = d)
    BY <1>2, <2>1, RefsCard
  <2>3. Cardinality(Refs(f, d)) = Cardinality(Refs(h.ptr, d)) + Bit(p = d) - Bit(h.ptr[c] = d)
    BY <1>2, RefsCard DEF HeapType
  <2>4. Cardinality(Refs(g.ptr, d))
          = Cardinality(Refs(h.ptr, d)) + Bit(NoDoc = d) - Bit(h.ptr[c] = d)
    BY <1>1, <1>2, RefsCard DEF HeapType
  <2>5. m.count[d] = Cardinality(Refs(g.ptr, d))
    BY <1>1, <1>4 DEF HeapOK, CountExact
  <2>6. Cardinality(Refs(h.ptr, d)) \in Nat
    BY RefsFinite
  <2>. QED BY <2>2, <2>3, <2>4, <2>5, <2>6 DEF Bit
<1>6. AliveExact(m) /\ RawApart(m)
  BY <1>1, <1>4 DEF HeapOK, AliveExact, RawApart
<1>. QED
  BY <1>1, <1>4, <1>5, <1>6 DEF HeapOK

(* c = make_ref(d) for a plain document d, by way of a temporary.          *)
LEMMA AssignMadeOK ==
  ASSUME NEW h, HeapOK(h), NEW c \in Cell, c # Tmp, NEW d \in h.raw,
         h.ptr[Tmp] = NoDoc
  PROVE  LET g == MoveAssign(MakeRef(h, Tmp, d), c, Tmp)
         IN  HeapOK(g) /\ g.ptr = [h.ptr EXCEPT ![c] = d] /\ g.raw = h.raw \ {d}
<1>1. Tmp \in Cell /\ d \in Doc /\ NoDoc \in DocOrNil /\ d \in DocOrNil
      /\ h.ptr \in [Cell -> DocOrNil]
  BY CellFacts DEF HeapOK, HeapType, DocOrNil
<1>2. PICK m : m = MakeRef(h, Tmp, d)
  OBVIOUS
<1>3. HeapOK(m) /\ m.ptr = [h.ptr EXCEPT ![Tmp] = d] /\ m.raw = h.raw \ {d}
  BY <1>1, <1>2, MakeRefOK
<1>4. PICK g : g = MoveAssign(m, c, Tmp)
  OBVIOUS
<1>5. HeapOK(g) /\ g.ptr = [m.ptr EXCEPT ![c] = m.ptr[Tmp], ![Tmp] = NoDoc]
      /\ g.raw = m.raw
  BY <1>1, <1>3, <1>4, MoveAssignOK
<1>6. g.ptr = [h.ptr EXCEPT ![c] = d]
  <2>1. \A x \in Cell : g.ptr[x] = [h.ptr EXCEPT ![c] = d][x]
    BY <1>1, <1>3, <1>5
  <2>. QED BY <1>1, <1>3, <1>5, <2>1
<1>. QED BY <1>2, <1>3, <1>4, <1>5, <1>6

-----------------------------------------------------------------------------
(***************************************************************************)
(* RefPtrProgram keeps its counters exact and implements DocLifetime.      *)
(***************************************************************************)

(* The effect of each operation on the pointers, beside the invariant.     *)
StepFacts(g, ptr) == HeapOK(g) /\ g.raw = {} /\ g.ptr = ptr

LEMMA AssignNewFacts ==
  ASSUME CountsMatchPointers, NEW c \in Cell, NEW d \in Doc, AssignNew(c, d)
  PROVE  StepFacts(memory', [memory.ptr EXCEPT ![c] = d])
<1>1. HeapOK(memory) /\ memory.raw = {}
  BY DEF CountsMatchPointers
<1>2. PICK r : r = RawNew(memory, d)
  OBVIOUS
<1>3. HeapOK(r) /\ r.ptr = memory.ptr /\ r.raw = {d}
  BY <1>1, <1>2, RawNewOK DEF AssignNew
<1>4. memory' = MoveAssign(MakeRef(r, Tmp, d), c, Tmp) /\ c # Tmp /\ r.ptr[Tmp] = NoDoc
  BY <1>2, <1>3 DEF AssignNew
<1>. QED BY <1>3, <1>4, AssignMadeOK DEF StepFacts

LEMMA AssignCopyFacts ==
  ASSUME CountsMatchPointers, NEW c \in Cell, NEW src \in Cell, AssignCopy(c, src)
  PROVE  StepFacts(memory', [memory.ptr EXCEPT ![c] = memory.ptr[src]])
BY CopyAssignOK DEF CountsMatchPointers, AssignCopy, StepFacts

LEMMA AssignMoveFacts ==
  ASSUME CountsMatchPointers, NEW c \in Cell, NEW src \in Cell, AssignMove(c, src)
  PROVE  \/ memory' = memory
         \/ /\ c # src
            /\ StepFacts(memory', [memory.ptr EXCEPT ![c] = memory.ptr[src], ![src] = NoDoc])
<1>1. CASE c = src
  BY <1>1 DEF AssignMove, MoveAssign
<1>2. CASE c # src
  BY <1>2, MoveAssignOK DEF CountsMatchPointers, AssignMove, StepFacts
<1>. QED BY <1>1, <1>2

LEMMA ConstructFacts ==
  ASSUME CountsMatchPointers, NEW c \in Cell, NEW src \in Cell, ConstructCopy(c, src)
  PROVE  StepFacts(memory', [memory.ptr EXCEPT ![c] = memory.ptr[src]])
BY CopyInitOK DEF CountsMatchPointers, ConstructCopy, StepFacts

LEMMA ResetToFacts ==
  ASSUME CountsMatchPointers, NEW c \in Cell, NEW src \in Cell, ResetTo(c, src)
  PROVE  StepFacts(memory', [memory.ptr EXCEPT ![c] = memory.ptr[src]])
<1> DEFINE p == memory.ptr[src]
<1>1. HeapOK(memory) /\ memory.raw = {}
  BY DEF CountsMatchPointers
<1>2. p \in DocOrNil
  BY <1>1 DEF HeapOK, HeapType
<1>3. p # NoDoc => p \in memory.alive /\ p \notin memory.raw
  BY <1>1, PointedTo
<1>. QED
  BY <1>1, <1>2, <1>3, ResetOK DEF ResetTo, StepFacts

LEMMA ResetNullFacts ==
  ASSUME CountsMatchPointers, NEW c \in Cell, ResetNull(c)
  PROVE  StepFacts(memory', [memory.ptr EXCEPT ![c] = NoDoc])
BY ResetOK DEF CountsMatchPointers, ResetNull, StepFacts, DocOrNil

LEMMA LeaveScopeFacts ==
  ASSUME CountsMatchPointers, NEW c \in Cell, LeaveScope(c)
  PROVE  StepFacts(memory', [memory.ptr EXCEPT ![c] = NoDoc])
BY DtorOK DEF CountsMatchPointers, LeaveScope, StepFacts

-----------------------------------------------------------------------------
(* After any program of RefPtr operations every counter equals the number   *)
(* of RefPtr variables pointing to its document, none has underflowed, and  *)
(* exactly the documents pointed to are allocated (RefCounted.h:57-114).    *)
THEOREM CountsMatch == ProgramSpec => []CountsMatchPointers
<1>1. ProgramInit => CountsMatchPointers
  BY EmptyHeapOK DEF ProgramInit, CountsMatchPointers, EmptyHeap
<1>2. CountsMatchPointers /\ [ProgramNext]_memory => CountsMatchPointers'
  <2> SUFFICES ASSUME CountsMatchPointers, [ProgramNext]_memory
               PROVE  CountsMatchPointers'
    OBVIOUS
  <2>1. CASE UNCHANGED memory
    BY <2>1 DEF CountsMatchPointers
  <2>2. ASSUME NEW c \in Cell, NEW d \in Doc, AssignNew(c, d)
        PROVE  CountsMatchPointers'
    BY <2>2, AssignNewFacts DEF StepFacts, CountsMatchPointers
  <2>3. ASSUME NEW c \in Cell, NEW src \in Cell, AssignCopy(c, src)
        PROVE  CountsMatchPointers'
    BY <2>3, AssignCopyFacts DEF StepFacts, CountsMatchPointers
  <2>4. ASSUME NEW c \in Cell, NEW src \in Cell, AssignMove(c, src)
        PROVE  CountsMatchPointers'
    BY <2>4, <2>1, AssignMoveFacts DEF StepFacts, CountsMatchPointers
  <2>5. ASSUME NEW c \in Cell, NEW src \in Cell, ConstructCopy(c, src)
        PROVE  CountsMatchPointers'
    BY <2>5, ConstructFacts DEF StepFacts, CountsMatchPointers
  <2>6. ASSUME NEW c \in Cell, NEW src \in Cell, ResetTo(c, src)
        PROVE  CountsMatchPointers'
    BY <2>6, ResetToFacts DEF StepFacts, CountsMatchPointers
  <2>7. ASSUME NEW c \in Cell, ResetNull(c)
        PROVE  CountsMatchPointers'
    BY <2>7, ResetNullFacts DEF StepFacts, CountsMatchPointers
  <2>8. ASSUME NEW c \in Cell, LeaveScope(c)
        PROVE  CountsMatchPointers'
    BY <2>8, LeaveScopeFacts DEF StepFacts, CountsMatchPointers
  <2>. QED
    BY <2>1, <2>2, <2>3, <2>4, <2>5, <2>6, <2>7, <2>8 DEF ProgramNext
<1>. QED BY <1>1, <1>2, PTL DEF ProgramSpec

(* The allocated documents are the ones the abstract specification says.   *)
LEMMA AliveIsHeld ==
  ASSUME NEW h, HeapOK(h), h.raw = {}
  PROVE  h.alive = ProgramLifetime!Held(h.ptr)
<1>1. h.alive = {d \in Doc : \E c \in Cell : h.ptr[c] = d}
  BY AliveIsPointedTo
<1>2. \A c \in Cell : h.ptr[c] \in DocOrNil
  BY DEF HeapOK, HeapType
<1>. QED
  BY <1>1, <1>2, NoDocAssumption DEF ProgramLifetime!Held, DocOrNil

(* A program of RefPtr operations is a DocLifetime in which the RefPtr      *)
(* variables are the holders: a document is freed in the very step in which *)
(* its last RefPtr lets go, under every alias pattern.                      *)
THEOREM RefinesLifetime == ProgramSpec => ProgramImplementsLifetime
<1>1. ProgramInit => ProgramLifetime!Init
  BY DEF ProgramInit, ProgramLifetime!Init, EmptyHeap
<1>2. CountsMatchPointers /\ CountsMatchPointers' /\ [ProgramNext]_memory
        => [ProgramLifetime!Next]_(ProgramLifetime!vars)
  <2> SUFFICES ASSUME CountsMatchPointers, CountsMatchPointers', [ProgramNext]_memory
               PROVE  [ProgramLifetime!Next]_(ProgramLifetime!vars)
    OBVIOUS
  <2>1. memory'.alive = ProgramLifetime!Held(memory'.ptr)
    BY AliveIsHeld DEF CountsMatchPointers
  <2>2. CASE UNCHANGED memory
    BY <2>2 DEF ProgramLifetime!vars
  <2>3. ASSUME NEW c \in Cell, NEW d \in Doc, AssignNew(c, d)
        PROVE  ProgramLifetime!Next
    <3>1. ProgramLifetime!Create(c, d)
      BY <2>1, <2>3, AssignNewFacts DEF StepFacts, ProgramLifetime!Create, AssignNew
    <3>. QED BY <3>1 DEF ProgramLifetime!Next
  <2>4. ASSUME NEW c \in Cell, NEW src \in Cell,
               memory'.ptr = [memory.ptr EXCEPT ![c] = memory.ptr[src]]
        PROVE  ProgramLifetime!Next
    BY <2>1, <2>4 DEF ProgramLifetime!Share, ProgramLifetime!Next
  <2>5. ASSUME NEW c \in Cell, NEW src \in Cell, AssignMove(c, src)
        PROVE  [ProgramLifetime!Next]_(ProgramLifetime!vars)
    <3>1. CASE memory' = memory
      BY <2>2, <3>1
    <3>2. CASE /\ c # src
               /\ memory'.ptr = [memory.ptr EXCEPT ![c] = memory.ptr[src], ![src] = NoDoc]
      BY <2>1, <3>2 DEF ProgramLifetime!Move, ProgramLifetime!Next
    <3>. QED BY <2>5, <3>1, <3>2, AssignMoveFacts DEF StepFacts
  <2>6. ASSUME NEW c \in Cell, memory'.ptr = [memory.ptr EXCEPT ![c] = NoDoc]
        PROVE  ProgramLifetime!Next
    BY <2>1, <2>6 DEF ProgramLifetime!Drop, ProgramLifetime!Next
  <2>7. ASSUME NEW c \in Cell, NEW src \in Cell,
               AssignCopy(c, src) \/ ConstructCopy(c, src) \/ ResetTo(c, src)
        PROVE  ProgramLifetime!Next
    <3>1. StepFacts(memory', [memory.ptr EXCEPT ![c] = memory.ptr[src]])
      BY <2>7, AssignCopyFacts, ConstructFacts, ResetToFacts
    <3>. QED BY <2>4, <3>1 DEF StepFacts
  <2>8. ASSUME NEW c \in Cell, ResetNull(c) \/ LeaveScope(c)
        PROVE  ProgramLifetime!Next
    BY <2>6, <2>8, ResetNullFacts, LeaveScopeFacts DEF StepFacts
  <2>. QED
    BY <2>2, <2>3, <2>5, <2>7, <2>8 DEF ProgramNext
<1>. QED
  BY <1>1, <1>2, CountsMatch, PTL DEF ProgramSpec, ProgramImplementsLifetime, ProgramLifetime!Spec

-----------------------------------------------------------------------------
(***************************************************************************)
(* JsonOwnership.  Every manager function, on each of its paths, either    *)
(* leaves the pointers as they were or sets one RefPtr member of the new   *)
(* object (Makes).  So every step does one of three things to the objects: *)
(* nothing, the birth of one, the death of one; and each of the three      *)
(* keeps the invariant and is a step of DocLifetime.                       *)
(***************************************************************************)

CellOf(o, mutable) == IF mutable THEN Mut(o) ELSE Imm(o)

Clean(h) == HeapOK(h) /\ h.raw = {}

\* The heap a call may start on, when the object it may create is o.
Ready(h, o) ==
  /\ Clean(h)
  /\ h.ptr[Tmp] = NoDoc /\ h.ptr[DocRef] = NoDoc /\ h.ptr[Param] = NoDoc
  /\ h.ptr[Mut(o)] = NoDoc /\ h.ptr[Imm(o)] = NoDoc

\* An outcome of a call that gives cell a document of D or fails.
Outcome(r, h, cell, D) ==
  /\ Clean(r.heap)
  /\ IF r.ok THEN \E d \in D : r.heap.ptr = [h.ptr EXCEPT ![cell] = d]
             ELSE r.heap.ptr = h.ptr

Makes(outcomes, h, cell, D) == \A r \in outcomes : Outcome(r, h, cell, D)

LEMMA FailOutcome ==
  ASSUME NEW h, NEW cell, NEW D, NEW g, Clean(g), g.ptr = h.ptr
  PROVE  Outcome(Fail(g), h, cell, D)
BY DEF Outcome, Fail

LEMMA OkOutcome ==
  ASSUME NEW h, NEW cell, NEW D, NEW g, Clean(g),
         NEW d \in D, g.ptr = [h.ptr EXCEPT ![cell] = d]
  PROVE  Outcome(Ok(g), h, cell, D)
BY DEF Outcome, Ok

LEMMA ObjCells ==
  ASSUME NEW o \in Obj
  PROVE  /\ Mut(o) \in Cell /\ Imm(o) \in Cell /\ Mut(o) # Imm(o)
         /\ Mut(o) \notin {Tmp, DocRef, Param} /\ Imm(o) \notin {Tmp, DocRef, Param}
         /\ \A m \in BOOLEAN : CellOf(o, m) \in {Mut(o), Imm(o)}
BY CellFacts DEF Mut, Imm, Side, CellOf

LEMMA PtrType ==
  ASSUME NEW h, HeapOK(h)
  PROVE  h.ptr \in [Cell -> DocOrNil] /\ h.alive \subseteq Doc
BY DEF HeapOK, HeapType

LEMMA NotPointed ==
  ASSUME NEW h, Clean(h), NEW d \in Doc, \A c \in Cell : h.ptr[c] # d
  PROVE  d \notin h.alive
BY AliveIsPointedTo DEF Clean

LEMMA FreeIsNotPointed ==
  ASSUME NEW h, HeapOK(h), NEW d \in Doc, d \notin h.alive
  PROVE  (\A c \in Cell : h.ptr[c] # d) /\ d \notin h.raw
<1>1. \A c \in Cell : h.ptr[c] # d
  BY PointedTo, NoDocAssumption
<1>2. d \notin h.raw
  BY DEF HeapOK, AliveExact
<1>. QED BY <1>1, <1>2

LEMMA WrapNewOK ==
  ASSUME NEW h, HeapOK(h), NEW c \in Cell, c # Tmp, NEW d \in Doc, d \notin h.alive,
         h.ptr[Tmp] = NoDoc
  PROVE  LET g == WrapNew(h, c, d)
         IN  HeapOK(g) /\ g.ptr = [h.ptr EXCEPT ![c] = d] /\ g.raw = h.raw
<1>1. PICK r : r = RawNew(h, d)
  OBVIOUS
<1>2. HeapOK(r) /\ r.ptr = h.ptr /\ r.raw = h.raw \cup {d}
  BY <1>1, RawNewOK
<1>3. PICK g : g = MoveAssign(MakeRef(r, Tmp, d), c, Tmp)
  OBVIOUS
<1>4. HeapOK(g) /\ g.ptr = [h.ptr EXCEPT ![c] = d] /\ g.raw = r.raw \ {d}
  BY <1>2, <1>3, AssignMadeOK
<1>5. d \notin h.raw
  BY FreeIsNotPointed
<1>6. g = WrapNew(h, c, d)
  BY <1>1, <1>3 DEF WrapNew
<1>. QED BY <1>2, <1>4, <1>5, <1>6

LEMMA WrapRawOK ==
  ASSUME NEW h, HeapOK(h), NEW c \in Cell, c # Tmp, NEW d \in h.raw,
         h.ptr[Tmp] = NoDoc
  PROVE  LET g == WrapRaw(h, c, d)
         IN  HeapOK(g) /\ g.ptr = [h.ptr EXCEPT ![c] = d] /\ g.raw = h.raw \ {d}
BY AssignMadeOK DEF WrapRaw

LEMMA DeleteOK ==
  ASSUME NEW h, HeapOK(h), NEW o \in Obj
  PROVE  LET g == Delete(h, o)
         IN  /\ HeapOK(g) /\ g.raw = h.raw
             /\ g.ptr = [h.ptr EXCEPT ![Imm(o)] = NoDoc, ![Mut(o)] = NoDoc]
<1>1. PICK k : k = Dtor(h, Imm(o))
  OBVIOUS
<1>2. HeapOK(k) /\ k.ptr = [h.ptr EXCEPT ![Imm(o)] = NoDoc] /\ k.raw = h.raw
  BY <1>1, ObjCells, DtorOK
<1>3. PICK g : g = Dtor(k, Mut(o))
  OBVIOUS
<1>4. HeapOK(g) /\ g.ptr = [k.ptr EXCEPT ![Mut(o)] = NoDoc] /\ g.raw = k.raw
  BY <1>2, <1>3, ObjCells, DtorOK
<1>. QED BY <1>1, <1>2, <1>3, <1>4 DEF Delete

\* Deleting a half-built object restores the pointers.
LEMMA DeleteNew ==
  ASSUME NEW h, NEW o \in Obj, Ready(h, o), NEW c \in {Mut(o), Imm(o)},
         NEW d \in DocOrNil, NEW w, HeapOK(w), w.ptr = [h.ptr EXCEPT ![c] = d]
  PROVE  HeapOK(Delete(w, o)) /\ Delete(w, o).ptr = h.ptr /\ Delete(w, o).raw = w.raw
<1>1. PICK g : g = Delete(w, o)
  OBVIOUS
<1>2. /\ HeapOK(g) /\ g.raw = w.raw
      /\ g.ptr = [w.ptr EXCEPT ![Imm(o)] = NoDoc, ![Mut(o)] = NoDoc]
  BY <1>1, DeleteOK
<1>3. h.ptr \in [Cell -> DocOrNil]
  BY PtrType DEF Ready, Clean
<1>4. g.ptr = h.ptr
  BY <1>2, <1>3, ObjCells DEF Ready
<1>. QED BY <1>1, <1>2, <1>4

-----------------------------------------------------------------------------
LEMMA NewMutableMakes ==
  ASSUME NEW h, NEW o \in Obj, Ready(h, o), NEW d \in Doc \ h.alive
  PROVE  Makes(NewMutable(h, o, d), h, Mut(o), Doc \ h.alive)
<1>1. PICK w : w = WrapNew(h, Mut(o), d)
  OBVIOUS
<1>2. Clean(w) /\ w.ptr = [h.ptr EXCEPT ![Mut(o)] = d]
  BY <1>1, ObjCells, WrapNewOK DEF Ready, Clean
<1>3. Clean(Delete(w, o)) /\ Delete(w, o).ptr = h.ptr
  BY <1>2, DeleteNew DEF Clean, DocOrNil
<1>4. NewMutable(h, o, d) = {Fail(h), Fail(Delete(w, o)), Ok(w)}
  BY <1>1 DEF NewMutable
<1>. QED BY <1>2, <1>3, <1>4, FailOutcome, OkOutcome DEF Makes, Ready

LEMMA ToMutableMakes ==
  ASSUME NEW h, NEW o \in Obj, Ready(h, o), NEW d \in Doc \ h.alive
  PROVE  Makes(ToMutable(h, o, d), h, Mut(o), Doc \ h.alive)
<1>1. ToMutable(h, o, d) \subseteq NewMutable(h, o, d)
  BY DEF ToMutable, NewMutable
<1>. QED BY <1>1, NewMutableMakes DEF Makes

(* What the immutable constructors share: a document read or exported to   *)
(* raw storage is wrapped, or freed again.                                 *)
LEMMA RawThenWrap ==
  ASSUME NEW h, NEW o \in Obj, Ready(h, o), NEW d \in Doc \ h.alive
  PROVE  /\ Clean(RawFree(RawNew(h, d), d))
         /\ RawFree(RawNew(h, d), d).ptr = h.ptr
         /\ Clean(WrapRaw(RawNew(h, d), Imm(o), d))
         /\ WrapRaw(RawNew(h, d), Imm(o), d).ptr = [h.ptr EXCEPT ![Imm(o)] = d]
<1>1. PICK r : r = RawNew(h, d)
  OBVIOUS
<1>2. HeapOK(r) /\ r.ptr = h.ptr /\ r.raw = {d}
  BY <1>1, RawNewOK DEF Ready, Clean
<1>3. Clean(RawFree(r, d)) /\ RawFree(r, d).ptr = h.ptr
  BY <1>2, RawFreeOK DEF Clean
<1>4. r.ptr[Tmp] = NoDoc /\ d \in r.raw
  BY <1>2 DEF Ready
<1>5. Clean(WrapRaw(r, Imm(o), d)) /\ WrapRaw(r, Imm(o), d).ptr = [h.ptr EXCEPT ![Imm(o)] = d]
  BY <1>2, <1>4, ObjCells, WrapRawOK DEF Clean
<1>. QED BY <1>1, <1>3, <1>5

LEMMA ParseTypedMakes ==
  ASSUME NEW h, NEW o \in Obj, Ready(h, o), NEW d \in Doc \ h.alive
  PROVE  Makes(ParseTypedRootValue(h, o, d), h, Imm(o), Doc \ h.alive)
<1>1. PICK f : f = RawFree(RawNew(h, d), d)
  OBVIOUS
<1>2. PICK w : w = WrapRaw(RawNew(h, d), Imm(o), d)
  OBVIOUS
<1>3. Clean(f) /\ f.ptr = h.ptr /\ Clean(w) /\ w.ptr = [h.ptr EXCEPT ![Imm(o)] = d]
  BY <1>1, <1>2, RawThenWrap
<1>4. ParseTypedRootValue(h, o, d) = {Fail(h), Fail(f), Ok(w)}
  BY <1>1, <1>2 DEF ParseTypedRootValue
<1>. QED BY <1>3, <1>4, FailOutcome, OkOutcome DEF Makes, Ready

LEMMA ToImmutableMakes ==
  ASSUME NEW h, NEW o \in Obj, Ready(h, o), NEW d \in Doc \ h.alive
  PROVE  Makes(ToImmutable(h, o, d), h, Imm(o), Doc \ h.alive)
<1>1. PICK f : f = RawFree(RawNew(h, d), d)
  OBVIOUS
<1>2. PICK w : w = WrapRaw(RawNew(h, d), Imm(o), d)
  OBVIOUS
<1>3. Clean(f) /\ f.ptr = h.ptr /\ Clean(w) /\ w.ptr = [h.ptr EXCEPT ![Imm(o)] = d]
  BY <1>1, <1>2, RawThenWrap
<1>4. ToImmutable(h, o, d) = {Fail(h), Ok(w)}
  BY <1>1, <1>2 DEF ToImmutable
<1>. QED BY <1>3, <1>4, FailOutcome, OkOutcome DEF Makes, Ready

LEMMA ParseMakes ==
  ASSUME NEW h, NEW o \in Obj, Ready(h, o), NEW d \in Doc \ h.alive,
         NEW e \in Doc \ h.alive, d # e, NEW m \in BOOLEAN
  PROVE  Makes(ParseJSON(h, o, d, e, m), h, CellOf(o, m), Doc \ h.alive)
<1>1. PICK r : r = RawNew(h, d)
  OBVIOUS
<1>2. HeapOK(r) /\ r.ptr = h.ptr /\ r.raw = {d} /\ r.alive = h.alive \cup {d}
  BY <1>1, RawNewOK DEF Ready, Clean
<1>3. CASE m
  <2>1. PICK k : k = WrapNew(r, Mut(o), e)
    OBVIOUS
  <2>2. r.ptr[Tmp] = NoDoc /\ e \notin r.alive
    BY <1>2 DEF Ready
  <2>3. HeapOK(k) /\ k.ptr = [h.ptr EXCEPT ![Mut(o)] = e] /\ k.raw = {d}
    BY <1>2, <2>1, <2>2, ObjCells, WrapNewOK
  <2>4. PICK c : c = RawFree(k, d)
    OBVIOUS
  <2>5. Clean(c) /\ c.ptr = [h.ptr EXCEPT ![Mut(o)] = e]
    BY <2>3, <2>4, RawFreeOK DEF Clean
  <2>6. Clean(Delete(c, o)) /\ Delete(c, o).ptr = h.ptr
    BY <2>5, DeleteNew DEF Clean, DocOrNil
  <2>7. ParseJSON(h, o, d, e, m) = {Fail(h), Fail(RawFree(r, d)), Fail(Delete(c, o)), Ok(c)}
    BY <1>1, <1>3, <2>1, <2>4 DEF ParseJSON
  <2>8. CellOf(o, m) = Mut(o)
    BY <1>3 DEF CellOf
  <2>9. Clean(RawFree(r, d)) /\ RawFree(r, d).ptr = h.ptr
    BY <1>1, RawThenWrap
  <2>. QED
    BY <2>5, <2>6, <2>7, <2>8, <2>9, FailOutcome, OkOutcome DEF Makes, Ready
<1>4. CASE ~m
  <2>1. PICK w : w = WrapRaw(r, Imm(o), d)
    OBVIOUS
  <2>2. Clean(w) /\ w.ptr = [h.ptr EXCEPT ![Imm(o)] = d]
    BY <1>1, <2>1, RawThenWrap
  <2>3. Clean(Delete(w, o)) /\ Delete(w, o).ptr = h.ptr
    BY <2>2, DeleteNew DEF Clean, DocOrNil
  <2>4. ParseJSON(h, o, d, e, m) = {Fail(h), Fail(Delete(w, o)), Ok(w)}
    BY <1>1, <1>4, <2>1 DEF ParseJSON
  <2>5. CellOf(o, m) = Imm(o)
    BY <1>4 DEF CellOf
  <2>. QED BY <2>2, <2>3, <2>4, <2>5, FailOutcome, OkOutcome DEF Makes, Ready
<1>. QED BY <1>3, <1>4

LEMMA DeepCopyMakes ==
  ASSUME NEW h, NEW o \in Obj, Ready(h, o), NEW d \in Doc \ h.alive,
         NEW e \in Doc \ h.alive, d # e, NEW m \in BOOLEAN
  PROVE  Makes(DeepCopy(h, o, d, e, m), h, CellOf(o, m), Doc \ h.alive)
<1>1. CASE m
  <2>1. DeepCopy(h, o, d, e, m) = NewMutable(h, o, d) /\ CellOf(o, m) = Mut(o)
    BY <1>1 DEF DeepCopy, NewMutable, CellOf
  <2>. QED BY <2>1, NewMutableMakes
<1>2. CASE ~m
  <2>1. PICK t : t = RawNew(h, d)
    OBVIOUS
  <2>2. HeapOK(t) /\ t.ptr = h.ptr /\ t.raw = {d} /\ t.alive = h.alive \cup {d}
    BY <2>1, RawNewOK DEF Ready, Clean
  <2>3. PICK u : u = RawNew(t, e)
    OBVIOUS
  <2>4. HeapOK(u) /\ u.ptr = h.ptr /\ u.raw = {d, e}
    BY <2>2, <2>3, RawNewOK
  <2>5. PICK i : i = RawFree(u, d)
    OBVIOUS
  <2>6. HeapOK(i) /\ i.ptr = h.ptr /\ i.raw = {e}
    BY <2>4, <2>5, RawFreeOK
  <2>7. PICK w : w = WrapRaw(i, Imm(o), e)
    OBVIOUS
  <2>8. i.ptr[Tmp] = NoDoc /\ e \in i.raw
    BY <2>6 DEF Ready
  <2>9. Clean(w) /\ w.ptr = [h.ptr EXCEPT ![Imm(o)] = e]
    BY <2>6, <2>7, <2>8, ObjCells, WrapRawOK DEF Clean
  <2>10. DeepCopy(h, o, d, e, m) = {Fail(h), Fail(RawFree(t, d)), Ok(w)}
    BY <1>2, <2>1, <2>3, <2>5, <2>7 DEF DeepCopy
  <2>11. CellOf(o, m) = Imm(o)
    BY <1>2 DEF CellOf
  <2>12. Clean(RawFree(t, d)) /\ RawFree(t, d).ptr = h.ptr
    BY <2>1, RawThenWrap
  <2>. QED
    BY <2>9, <2>10, <2>11, <2>12, FailOutcome, OkOutcome DEF Makes, Ready
<1>. QED BY <1>1, <1>2

(* The two references a patch holds in locals are given up on return.      *)
LEMMA DropLocals ==
  ASSUME NEW x, Clean(x), NEW f \in [Cell -> DocOrNil],
         f[DocRef] = NoDoc, f[Param] = NoDoc,
         \A c \in Cell \ {DocRef, Param} : x.ptr[c] = f[c]
  PROVE  Clean(Dtor(Dtor(x, Param), DocRef)) /\ Dtor(Dtor(x, Param), DocRef).ptr = f
<1>1. Param \in Cell /\ DocRef \in Cell /\ Param # DocRef /\ x.ptr \in [Cell -> DocOrNil]
  BY CellFacts, PtrType DEF Clean
<1>2. PICK y : y = Dtor(x, Param)
  OBVIOUS
<1>3. Clean(y) /\ y.ptr = [x.ptr EXCEPT ![Param] = NoDoc]
  BY <1>1, <1>2, DtorOK DEF Clean
<1>4. PICK z : z = Dtor(y, DocRef)
  OBVIOUS
<1>5. Clean(z) /\ z.ptr = [y.ptr EXCEPT ![DocRef] = NoDoc]
  BY <1>1, <1>3, <1>4, DtorOK DEF Clean
<1>6. z.ptr \in [Cell -> DocOrNil] /\ \A c \in Cell : z.ptr[c] = f[c]
  BY <1>1, <1>3, <1>5, PtrType DEF Clean
<1>7. z.ptr = f
  BY <1>6
<1>. QED BY <1>2, <1>4, <1>5, <1>7

LEMMA PatchMakes ==
  ASSUME NEW h, NEW o \in Obj, Ready(h, o), NEW d \in Doc \ h.alive,
         NEW e \in Doc \ h.alive, d # e, NEW m \in BOOLEAN
  PROVE  Makes(ApplyPatch(h, o, d, e, m), h, CellOf(o, m), Doc \ h.alive)
<1>1. /\ Tmp \in Cell /\ DocRef \in Cell /\ Param \in Cell
      /\ Tmp # DocRef /\ Tmp # Param /\ DocRef # Param
      /\ h.ptr \in [Cell -> DocOrNil]
      /\ d \in DocOrNil /\ e \in DocOrNil /\ d # NoDoc
  BY CellFacts, PtrType, NoDocAssumption DEF Ready, Clean, DocOrNil
<1>2. PICK r : r = RawNew(h, d)
  OBVIOUS
<1>3. HeapOK(r) /\ r.ptr = h.ptr /\ r.raw = {d}
  BY <1>2, RawNewOK DEF Ready, Clean
<1>4. PICK c : c = MakeRef(r, DocRef, d)
  OBVIOUS
<1>5. Clean(c) /\ c.ptr = [h.ptr EXCEPT ![DocRef] = d]
  <2>1. r.ptr[DocRef] = NoDoc /\ d \in r.raw
    BY <1>3 DEF Ready
  <2>. QED BY <1>1, <1>3, <1>4, <2>1, MakeRefOK DEF Clean
<1>6. PICK p : p = CopyInit(c, Param, DocRef)
  OBVIOUS
<1>7. Clean(p) /\ p.ptr = [h.ptr EXCEPT ![DocRef] = d, ![Param] = d]
  <2>1. c.ptr[Param] = NoDoc /\ c.ptr[DocRef] = d
    BY <1>1, <1>5 DEF Ready
  <2>2. Clean(p) /\ p.ptr = [c.ptr EXCEPT ![Param] = c.ptr[DocRef]]
    BY <1>1, <1>5, <1>6, <2>1, CopyInitOK DEF Clean
  <2>. QED BY <1>1, <1>5, <2>1, <2>2
<1>8. Outcome(Fail(Dtor(c, DocRef)), h, CellOf(o, m), Doc \ h.alive)
  <2>1. PICK g : g = Dtor(c, DocRef)
    OBVIOUS
  <2>2. Clean(g) /\ g.ptr = [c.ptr EXCEPT ![DocRef] = NoDoc]
    BY <1>1, <1>5, <2>1, DtorOK DEF Clean
  <2>3. g.ptr = h.ptr
    BY <1>1, <1>5, <2>2 DEF Ready
  <2>. QED BY <2>1, <2>2, <2>3, FailOutcome
<1>9. Outcome(Fail(h), h, CellOf(o, m), Doc \ h.alive)
  BY FailOutcome DEF Ready
<1>10. CASE m
  <2>1. PICK x : x = CopyAssign(p, Mut(o), Param)
    OBVIOUS
  <2>2. Clean(x) /\ x.ptr = [p.ptr EXCEPT ![Mut(o)] = p.ptr[Param]]
    <3>1. Mut(o) \in Cell
      BY ObjCells
    <3>2. HeapOK(p) /\ p.raw = {}
      BY <1>7 DEF Clean
    <3>. QED BY <1>1, <2>1, <3>1, <3>2, CopyAssignOK DEF Clean
  <2>3. PICK f : f = [h.ptr EXCEPT ![Mut(o)] = d]
    OBVIOUS
  <2>4. /\ f \in [Cell -> DocOrNil] /\ f[DocRef] = NoDoc /\ f[Param] = NoDoc
        /\ \A k \in Cell \ {DocRef, Param} : x.ptr[k] = f[k]
    BY <1>1, <1>7, <2>2, <2>3, ObjCells DEF Ready
  <2>5. PICK g : g = Dtor(Dtor(x, Param), DocRef)
    OBVIOUS
  <2>6. Clean(g) /\ g.ptr = f
    BY <2>2, <2>4, <2>5, DropLocals
  <2>7. CellOf(o, m) = Mut(o)
    BY <1>10 DEF CellOf
  <2>8. Outcome(Ok(g), h, CellOf(o, m), Doc \ h.alive)
    BY <2>3, <2>6, <2>7, OkOutcome
  <2>9. WrapPatchedDocument(c, o, e, m) = {Ok(Dtor(x, Param))}
    BY <1>6, <1>10, <2>1 DEF WrapPatchedDocument
  <2>10. {[heap |-> Dtor(s.heap, DocRef), ok |-> s.ok] : s \in WrapPatchedDocument(c, o, e, m)}
           = {Ok(g)}
    <3>1. PICK y : y = Ok(Dtor(x, Param))
      OBVIOUS
    <3>2. y.heap = Dtor(x, Param) /\ y.ok = TRUE
      BY <3>1 DEF Ok
    <3>3. [heap |-> Dtor(y.heap, DocRef), ok |-> y.ok] = Ok(g)
      BY <2>5, <3>2 DEF Ok
    <3>. QED BY <2>9, <3>1, <3>3
  <2>11. ApplyPatch(h, o, d, e, m) = {Fail(h), Fail(Dtor(c, DocRef))} \cup {Ok(g)}
    BY <1>2, <1>4, <2>10 DEF ApplyPatch
  <2>. QED BY <1>8, <1>9, <2>8, <2>11 DEF Makes
<1>11. CASE ~m
  <2>1. PICK q : q = RawNew(p, e)
    OBVIOUS
  <2>2. e \notin p.alive
    <3>1. \A k \in Cell : h.ptr[k] # e
      BY FreeIsNotPointed DEF Ready, Clean
    <3>2. \A k \in Cell : p.ptr[k] # e
      BY <1>1, <1>7, <3>1
    <3>. QED BY <1>7, <3>2, NotPointed
  <2>3. HeapOK(q) /\ q.ptr = p.ptr /\ q.raw = {e}
    BY <1>7, <2>1, <2>2, RawNewOK DEF Clean
  <2>4. PICK x : x = WrapRaw(q, Imm(o), e)
    OBVIOUS
  <2>5. Clean(x) /\ x.ptr = [p.ptr EXCEPT ![Imm(o)] = e]
    <3>1. q.ptr[Tmp] = NoDoc /\ e \in q.raw
      BY <1>1, <1>7, <2>3 DEF Ready
    <3>. QED BY <2>3, <2>4, <3>1, ObjCells, WrapRawOK DEF Clean
  <2>6. PICK f : f = [h.ptr EXCEPT ![Imm(o)] = e]
    OBVIOUS
  <2>7. /\ f \in [Cell -> DocOrNil] /\ f[DocRef] = NoDoc /\ f[Param] = NoDoc
        /\ \A k \in Cell \ {DocRef, Param} : x.ptr[k] = f[k]
    BY <1>1, <1>7, <2>5, <2>6, ObjCells DEF Ready
  <2>8. PICK g : g = Dtor(Dtor(x, Param), DocRef)
    OBVIOUS
  <2>9. Clean(g) /\ g.ptr = f
    BY <2>5, <2>7, <2>8, DropLocals
  <2>10. PICK b : b = Dtor(Dtor(p, Param), DocRef)
    OBVIOUS
  <2>11. Clean(b) /\ b.ptr = h.ptr
    <3>1. /\ h.ptr[DocRef] = NoDoc /\ h.ptr[Param] = NoDoc
          /\ \A k \in Cell \ {DocRef, Param} : p.ptr[k] = h.ptr[k]
      BY <1>1, <1>7 DEF Ready
    <3>. QED BY <1>1, <1>7, <2>10, <3>1, DropLocals
  <2>12. CellOf(o, m) = Imm(o)
    BY <1>11 DEF CellOf
  <2>13. Outcome(Ok(g), h, CellOf(o, m), Doc \ h.alive)
    BY <2>6, <2>9, <2>12, OkOutcome
  <2>14. Outcome(Fail(b), h, CellOf(o, m), Doc \ h.alive)
    BY <2>11, FailOutcome
  <2>15. WrapPatchedDocument(c, o, e, m) = {Fail(Dtor(p, Param)), Ok(Dtor(x, Param))}
    BY <1>6, <1>11, <2>1, <2>4 DEF WrapPatchedDocument
  <2>16. {[heap |-> Dtor(s.heap, DocRef), ok |-> s.ok] : s \in WrapPatchedDocument(c, o, e, m)}
           = {Fail(b), Ok(g)}
    <3>1. PICK y : y = Ok(Dtor(x, Param))
      OBVIOUS
    <3>2. y.heap = Dtor(x, Param) /\ y.ok = TRUE
      BY <3>1 DEF Ok
    <3>3. [heap |-> Dtor(y.heap, DocRef), ok |-> y.ok] = Ok(g)
      BY <2>8, <3>2 DEF Ok
    <3>4. PICK z : z = Fail(Dtor(p, Param))
      OBVIOUS
    <3>5. z.heap = Dtor(p, Param) /\ z.ok = FALSE
      BY <3>4 DEF Fail
    <3>6. [heap |-> Dtor(z.heap, DocRef), ok |-> z.ok] = Fail(b)
      BY <2>10, <3>5 DEF Fail
    <3>. QED BY <2>15, <3>1, <3>3, <3>4, <3>6
  <2>17. ApplyPatch(h, o, d, e, m)
           = {Fail(h), Fail(Dtor(c, DocRef))} \cup {Fail(b), Ok(g)}
    BY <1>2, <1>4, <2>16 DEF ApplyPatch
  <2>. QED BY <1>8, <1>9, <2>13, <2>14, <2>17 DEF Makes
<1>. QED BY <1>10, <1>11

(* A comparison leaves the pointers as they were.                          *)
LEMMA EqualsRestores ==
  ASSUME NEW h, Clean(h), h.ptr[DocRef] = NoDoc, NEW d \in Doc \ h.alive
  PROVE  \A r \in EqualsMixed(h, d) : Clean(r.heap) /\ r.heap.ptr = h.ptr
<1>1. DocRef \in Cell /\ h.ptr \in [Cell -> DocOrNil]
  BY CellFacts, PtrType DEF Clean
<1>2. PICK r : r = RawNew(h, d)
  OBVIOUS
<1>3. HeapOK(r) /\ r.ptr = h.ptr /\ r.raw = {d}
  BY <1>2, RawNewOK DEF Clean
<1>4. PICK c : c = MakeRef(r, DocRef, d)
  OBVIOUS
<1>5. Clean(c) /\ c.ptr = [h.ptr EXCEPT ![DocRef] = d]
  <2>1. r.ptr[DocRef] = NoDoc /\ d \in r.raw
    BY <1>3
  <2>. QED BY <1>1, <1>3, <1>4, <2>1, MakeRefOK DEF Clean
<1>6. PICK g : g = Dtor(c, DocRef)
  OBVIOUS
<1>7. Clean(g) /\ g.ptr = [c.ptr EXCEPT ![DocRef] = NoDoc]
  BY <1>1, <1>5, <1>6, DtorOK DEF Clean
<1>8. g.ptr = h.ptr
  BY <1>1, <1>5, <1>7
<1>9. EqualsMixed(h, d) = {Ok(h), Ok(g)}
  BY <1>2, <1>4, <1>6 DEF EqualsMixed
<1>. QED BY <1>7, <1>8, <1>9 DEF Ok

(* A child value takes the document of the object it was found through.    *)
LEMMA ChildMakes ==
  ASSUME NEW h, NEW o \in Obj, Ready(h, o), NEW src \in Obj, NEW m \in BOOLEAN,
         NEW D, h.ptr[CellOf(src, m)] \in D
  PROVE  Makes(ChildOf(h, src, o, m), h, CellOf(o, m), D)
<1>1. PICK w : w = CopyAssign(h, CellOf(o, m), CellOf(src, m))
  OBVIOUS
<1>2. CellOf(o, m) \in Cell /\ CellOf(src, m) \in Cell
  BY ObjCells
<1>3. Clean(w) /\ w.ptr = [h.ptr EXCEPT ![CellOf(o, m)] = h.ptr[CellOf(src, m)]]
  BY <1>1, <1>2, CopyAssignOK DEF Clean, Ready
<1>4. ChildOf(h, src, o, m) = {Fail(h), Ok(w)}
  BY <1>1 DEF ChildOf, CellOf
<1>. QED BY <1>3, <1>4, FailOutcome, OkOutcome DEF Makes, Ready

(* An iterator copies both members of a value, one of which is null.       *)
LEMMA IterMakes ==
  ASSUME NEW h, NEW o \in Obj, Ready(h, o), NEW src \in Obj, NEW m \in BOOLEAN,
         h.ptr[CellOf(src, ~m)] = NoDoc, NEW D, h.ptr[CellOf(src, m)] \in D
  PROVE  Makes(IterWith(h, src, o), h, CellOf(o, m), D)
<1>1. /\ Mut(o) \in Cell /\ Imm(o) \in Cell /\ Mut(src) \in Cell /\ Imm(src) \in Cell
      /\ Mut(o) # Imm(o)
  BY ObjCells
<1>2. h.ptr \in [Cell -> DocOrNil]
  BY PtrType DEF Ready, Clean
<1>3. PICK v : v = CopyAssign(h, Mut(o), Mut(src))
  OBVIOUS
<1>4. HeapOK(v) /\ v.ptr = [h.ptr EXCEPT ![Mut(o)] = h.ptr[Mut(src)]] /\ v.raw = {}
  BY <1>1, <1>3, CopyAssignOK DEF Clean, Ready
<1>5. PICK w : w = CopyAssign(v, Imm(o), Imm(src))
  OBVIOUS
<1>6. Clean(w) /\ w.ptr = [v.ptr EXCEPT ![Imm(o)] = v.ptr[Imm(src)]]
  <2>1. HeapOK(w) /\ w.ptr = [v.ptr EXCEPT ![Imm(o)] = v.ptr[Imm(src)]] /\ w.raw = v.raw
    <3>1. HeapOK(v) /\ Imm(o) \in Cell /\ Imm(src) \in Cell
      BY <1>1, <1>4
    <3>. QED BY <1>5, <3>1, CopyAssignOK
  <2>. QED BY <1>4, <2>1 DEF Clean
<1>7. Imm(src) # Mut(o)
  BY DEF Mut, Imm
<1>8. w.ptr = [h.ptr EXCEPT ![CellOf(o, m)] = h.ptr[CellOf(src, m)]]
  <2>1. CASE m
    <3>1. h.ptr[Imm(src)] = NoDoc /\ CellOf(o, m) = Mut(o) /\ CellOf(src, m) = Mut(src)
      BY <2>1 DEF CellOf
    <3>2. v.ptr[Imm(src)] = NoDoc /\ v.ptr[Imm(o)] = NoDoc
      BY <1>1, <1>2, <1>4, <1>7, <3>1 DEF Ready
    <3>. QED BY <1>1, <1>2, <1>4, <1>6, <3>1, <3>2
  <2>2. CASE ~m
    <3>1. h.ptr[Mut(src)] = NoDoc /\ CellOf(o, m) = Imm(o) /\ CellOf(src, m) = Imm(src)
      BY <2>2 DEF CellOf
    <3>2. v.ptr = h.ptr
      BY <1>1, <1>2, <1>4, <3>1 DEF Ready
    <3>. QED BY <1>6, <3>1, <3>2
  <2>. QED BY <2>1, <2>2
<1>9. h.ptr[CellOf(src, m)] \in DocOrNil /\ CellOf(o, m) \in {Mut(o), Imm(o)}
  BY <1>2, ObjCells DEF CellOf
<1>10. Clean(Delete(w, o)) /\ Delete(w, o).ptr = h.ptr
  BY <1>6, <1>8, <1>9, DeleteNew DEF Clean
<1>11. IterWith(h, src, o) = {Fail(h), Fail(Delete(w, o)), Ok(w)}
  BY <1>3, <1>5 DEF IterWith
<1>. QED BY <1>6, <1>8, <1>10, <1>11, FailOutcome, OkOutcome DEF Makes, Ready

-----------------------------------------------------------------------------
(* The inductive invariant.  CallsComplete makes every call start on a heap *)
(* on which the RefPtr operations are exact; OneDocument tells which member *)
(* a child or an iterator copies; OwnedOnce makes a release the last one.   *)
(* TypesOfPhase says which types the last RemoveType leaves.               *)
TypesOfPhase ==
  /\ phase = "rmJson"    => types = Kinds
  /\ phase = "rmArrIter" => types = {"arrIter", "objIter"}
  /\ phase = "rmObjIter" => types = {"objIter"}

Unloading == WholeLoads /\ TypesOfPhase

IInv == TypeOK /\ CallsComplete /\ OneDocument /\ OwnedOnce /\ Unloading

LEMMA ReadyHeap ==
  ASSUME IInv, NEW o \in FreeObj
  PROVE  Ready(heap, o)
BY DEF IInv, CallsComplete, Ready, Clean

(* What a step may do to the objects and their documents.                  *)
NothingHappens ==
  /\ Clean(heap') /\ heap'.ptr = heap.ptr
  /\ UNCHANGED <<kind, m_isMutable>>

Born(o, k, m, d) ==
  /\ Clean(heap') /\ heap'.ptr = [heap.ptr EXCEPT ![CellOf(o, m)] = d]
  /\ Construct(o, k, m)

Died(o) ==
  /\ Clean(heap') /\ heap'.ptr = [heap.ptr EXCEPT ![Imm(o)] = NoDoc, ![Mut(o)] = NoDoc]
  /\ kind' = [kind EXCEPT ![o] = "none"]
  /\ m_isMutable' = [m_isMutable EXCEPT ![o] = FALSE]

\* The part of the invariant that is about objects.
ObjInv ==
  /\ heap \in HeapType
  /\ kind \in [Obj -> Kinds \cup {"none"}]
  /\ m_isMutable \in [Obj -> BOOLEAN]
  /\ CallsComplete
  /\ OneDocument

LEMMA NothingKeeps ==
  ASSUME IInv, NothingHappens
  PROVE  ObjInv' /\ \A x \in Obj : DocOf(heap', x) = DocOf(heap, x)
BY DEF IInv, TypeOK, CallsComplete, OneDocument, NothingHappens, ObjInv, Clean,
       HeapOK, FreeObj, Live, IsMutable, DocOf

(* The cells of different objects differ.                                  *)
LEMMA CellsApart ==
  ASSUME NEW o \in Obj, NEW x \in Obj, o # x
  PROVE  {Mut(o), Imm(o)} \cap {Mut(x), Imm(x)} = {}
BY DEF Mut, Imm

LEMMA BornKeeps ==
  ASSUME IInv, NEW o \in FreeObj, NEW k \in Kinds, NEW m \in BOOLEAN, NEW d \in Doc,
         Born(o, k, m, d)
  PROVE  /\ ObjInv'
         /\ DocOf(heap', o) = d
         /\ \A x \in Obj \ {o} : DocOf(heap', x) = DocOf(heap, x)
<1>1. /\ o \in Obj /\ d # NoDoc /\ k # "none" /\ heap.ptr \in [Cell -> DocOrNil]
      /\ heap.ptr[Mut(o)] = NoDoc /\ heap.ptr[Imm(o)] = NoDoc
      /\ kind[o] = "none"
  BY NoDocAssumption, PtrType DEF IInv, TypeOK, CallsComplete, FreeObj, Live, Kinds
<1>2. /\ Mut(o) \in Cell /\ Imm(o) \in Cell /\ Mut(o) # Imm(o)
      /\ {Mut(o), Imm(o)} \cap {Tmp, DocRef, Param} = {}
  BY <1>1, ObjCells
<1>3. /\ heap'.ptr[Mut(o)] = IF m THEN d ELSE NoDoc
      /\ heap'.ptr[Imm(o)] = IF m THEN NoDoc ELSE d
      /\ \A c \in Cell \ {Mut(o), Imm(o)} : heap'.ptr[c] = heap.ptr[c]
  BY <1>1, <1>2 DEF Born, CellOf
<1>4. \A x \in Obj \ {o} : /\ heap'.ptr[Mut(x)] = heap.ptr[Mut(x)]
                           /\ heap'.ptr[Imm(x)] = heap.ptr[Imm(x)]
  BY <1>1, <1>3, ObjCells, CellsApart
<1>5. /\ kind' \in [Obj -> Kinds \cup {"none"}] /\ kind'[o] = k
      /\ \A x \in Obj \ {o} : kind'[x] = kind[x]
      /\ m_isMutable' \in [Obj -> BOOLEAN] /\ m_isMutable'[o] = (k # "value" /\ m)
      /\ \A x \in Obj \ {o} : m_isMutable'[x] = m_isMutable[x]
  BY <1>1 DEF Born, Construct, IInv, TypeOK
<1>6. heap' \in HeapType
  BY DEF Born, Clean, HeapOK
<1>7. CallsComplete'
  BY <1>1, <1>2, <1>3, <1>4, <1>5, CellFacts, ZenonT(60)
     DEF Born, Clean, IInv, CallsComplete, FreeObj, Live
<1>8. OneDocument'
  <2> SUFFICES ASSUME NEW x \in Obj, Live(x)'
               PROVE  /\ (heap'.ptr[Mut(x)] = NoDoc) # (heap'.ptr[Imm(x)] = NoDoc)
                      /\ kind'[x] # "value" => (m_isMutable'[x] = IsMutable(x)')
    BY DEF OneDocument
  <2>1. CASE x = o
    BY <2>1, <1>1, <1>3, <1>5 DEF IsMutable
  <2>2. CASE x # o
    BY <2>2, <1>4, <1>5 DEF IInv, OneDocument, Live, IsMutable
  <2>. QED BY <2>1, <2>2
<1>9. DocOf(heap', o) = d
  BY <1>1, <1>3 DEF DocOf
<1>10. \A x \in Obj \ {o} : DocOf(heap', x) = DocOf(heap, x)
  BY <1>4 DEF DocOf
<1>. QED BY <1>5, <1>6, <1>7, <1>8, <1>9, <1>10 DEF ObjInv

LEMMA DiedKeeps ==
  ASSUME IInv, NEW o \in Obj, Died(o)
  PROVE  /\ ObjInv'
         /\ DocOf(heap', o) = NoDoc
         /\ \A x \in Obj \ {o} : DocOf(heap', x) = DocOf(heap, x)
<1>1. heap.ptr \in [Cell -> DocOrNil]
  BY PtrType DEF IInv, CallsComplete
<1>2. /\ Mut(o) \in Cell /\ Imm(o) \in Cell /\ Mut(o) # Imm(o)
      /\ {Mut(o), Imm(o)} \cap {Tmp, DocRef, Param} = {}
  BY ObjCells
<1>3. /\ heap'.ptr[Mut(o)] = NoDoc /\ heap'.ptr[Imm(o)] = NoDoc
      /\ \A c \in Cell \ {Mut(o), Imm(o)} : heap'.ptr[c] = heap.ptr[c]
  BY <1>1, <1>2 DEF Died
<1>4. \A x \in Obj \ {o} : /\ heap'.ptr[Mut(x)] = heap.ptr[Mut(x)]
                           /\ heap'.ptr[Imm(x)] = heap.ptr[Imm(x)]
  BY <1>3, ObjCells, CellsApart
<1>5. /\ kind' \in [Obj -> Kinds \cup {"none"}] /\ kind'[o] = "none"
      /\ \A x \in Obj \ {o} : kind'[x] = kind[x]
      /\ m_isMutable' \in [Obj -> BOOLEAN]
      /\ \A x \in Obj \ {o} : m_isMutable'[x] = m_isMutable[x]
  BY DEF Died, IInv, TypeOK
<1>6. heap' \in HeapType
  BY DEF Died, Clean, HeapOK
<1>7. CallsComplete'
  BY <1>2, <1>3, <1>4, <1>5, CellFacts DEF Died, Clean, IInv, CallsComplete, FreeObj, Live
<1>8. OneDocument'
  BY <1>4, <1>5 DEF IInv, OneDocument, Live, IsMutable
<1>9. DocOf(heap', o) = NoDoc /\ \A x \in Obj \ {o} : DocOf(heap', x) = DocOf(heap, x)
  BY <1>3, <1>4 DEF DocOf
<1>. QED BY <1>5, <1>6, <1>7, <1>8, <1>9 DEF ObjInv

-----------------------------------------------------------------------------
(* How a call ends: nothing has happened, or an object is born that has     *)
(* exactly one owner and a document that is new or a live object's.         *)

NewOwner(o) ==
  \/ /\ \E h \in Handle : handles[h] = NoObj /\ handles' = [handles EXCEPT ![h] = o]
     /\ UNCHANGED held
  \/ held' = held \cup {o} /\ UNCHANGED handles

DocsOfLive == {DocOf(heap, x) : x \in {y \in Obj : Live(y)}}

CallEffect(o) ==
  /\ Calling(o)
  /\ \/ NothingHappens /\ UNCHANGED <<handles, held>>
     \/ /\ \E k \in Kinds, m \in BOOLEAN, d \in (Doc \ heap.alive) \cup DocsOfLive :
             Born(o, k, m, d)
        /\ NewOwner(o)

LEMMA ReturnEffect ==
  ASSUME IInv, NEW o \in Obj, Calling(o), NEW k \in Kinds, NEW m \in BOOLEAN,
         NEW D \in SUBSET ((Doc \ heap.alive) \cup DocsOfLive),
         NEW S, Makes(S, heap, CellOf(o, m), D), NEW who \in Caller,
         Return(S, who, o, k, m)
  PROVE  CallEffect(o)
<1>1. PICK r \in S : \/ /\ ~r.ok
                       /\ heap' = r.heap
                       /\ UNCHANGED <<kind, m_isMutable, handles, held>>
                    \/ /\ r.ok /\ who = "plugin"
                       /\ CreateHandle(r, o, k, m)
                       /\ UNCHANGED held
                    \/ /\ r.ok /\ who = "extension"
                       /\ heap' = r.heap
                       /\ Construct(o, k, m)
                       /\ held' = held \cup {o}
                       /\ UNCHANGED handles
  BY DEF Return
<1>2. Outcome(r, heap, CellOf(o, m), D)
  BY DEF Makes
<1>3. CASE ~r.ok
  BY <1>1, <1>2, <1>3 DEF Outcome, CallEffect, NothingHappens
<1>4. CASE r.ok
  <2>1. PICK d \in D : Clean(r.heap) /\ r.heap.ptr = [heap.ptr EXCEPT ![CellOf(o, m)] = d]
    BY <1>2, <1>4 DEF Outcome
  <2>2. CASE heap' = r.heap /\ Construct(o, k, m) /\ NewOwner(o)
    <3>1. Born(o, k, m, d)
      BY <2>1, <2>2 DEF Born
    <3>. QED BY <2>2, <3>1 DEF CallEffect
  <2>3. CASE /\ heap' = Delete(r.heap, o)
             /\ UNCHANGED <<kind, m_isMutable, handles, held>>
    <3>1. Ready(heap, o)
      BY ReadyHeap DEF Calling
    <3>2. CellOf(o, m) \in {Mut(o), Imm(o)}
      BY ObjCells
    <3>3. d \in DocOrNil
      <4>1. \A x \in Obj : DocOf(heap, x) \in DocOrNil
        BY ObjCells, PtrType DEF DocOf, IInv, CallsComplete
      <4>. QED BY <4>1 DEF DocsOfLive, DocOrNil
    <3>4. HeapOK(heap') /\ heap'.ptr = heap.ptr /\ heap'.raw = r.heap.raw
      BY <2>1, <2>3, <3>1, <3>2, <3>3, DeleteNew DEF Clean
    <3>. QED BY <2>1, <2>3, <3>4 DEF CallEffect, NothingHappens, Clean
  <2>. QED
    BY <1>1, <1>4, <2>2, <2>3 DEF CreateHandle, NewOwner
<1>. QED BY <1>3, <1>4

(* The document of a live object, and the member it is found in.           *)
LEMMA LiveDoc ==
  ASSUME IInv, NEW x \in Obj, Live(x)
  PROVE  /\ DocOf(heap, x) \in DocsOfLive /\ DocOf(heap, x) \in Doc
         /\ \A m \in BOOLEAN : m = IsMutable(x) =>
              heap.ptr[CellOf(x, m)] = DocOf(heap, x) /\ heap.ptr[CellOf(x, ~m)] = NoDoc
<1>1. heap.ptr[Mut(x)] \in DocOrNil /\ heap.ptr[Imm(x)] \in DocOrNil
  BY ObjCells, PtrType DEF IInv, CallsComplete
<1>. QED
  BY <1>1 DEF IInv, OneDocument, DocsOfLive, DocOf, IsMutable, CellOf, DocOrNil

LEMMA CallEffects ==
  ASSUME IInv, NEW who \in Caller, NEW o \in Obj,
         \/ Create(who, o)   \/ Parse(who, o)       \/ ParseTyped(who, o)
         \/ CopyDeep(who, o) \/ Convert(who, o)     \/ Patch(who, o)
         \/ GetChild(who, o) \/ NewIterator(who, o) \/ IteratorValue(who, o)
  PROVE  CallEffect(o)
<1> DEFINE New == Doc \ heap.alive
           All == New \cup DocsOfLive
<1>1. Calling(o) /\ New \in SUBSET All /\ "value" \in Kinds
  BY DEF Create, Parse, ParseTyped, CopyDeep, Convert, Patch, GetChild, NewIterator,
         IteratorValue, Kinds
<1>2. Ready(heap, o)
  BY <1>1, ReadyHeap DEF Calling
<1>3. CellOf(o, TRUE) = Mut(o) /\ CellOf(o, FALSE) = Imm(o)
  BY DEF CellOf
<1>4. \A k, x : x \in Reachable(who, k) => x \in Obj /\ kind[x] = k
  BY DEF Reachable
<1>5. CASE Create(who, o)
  <2>1. PICK d \in FreeDoc : Return(NewMutable(heap, o, d), who, o, "value", TRUE)
    BY <1>5 DEF Create
  <2>2. Makes(NewMutable(heap, o, d), heap, CellOf(o, TRUE), New)
    BY <1>2, <1>3, NewMutableMakes DEF FreeDoc
  <2>. QED BY <1>1, <2>1, <2>2, ReturnEffect
<1>6. CASE Parse(who, o)
  <2>1. PICK d, e \in FreeDoc, m \in BOOLEAN :
          d # e /\ Return(ParseJSON(heap, o, d, e, m), who, o, "value", m)
    BY <1>6 DEF Parse
  <2>2. Makes(ParseJSON(heap, o, d, e, m), heap, CellOf(o, m), New)
    BY <1>2, <2>1, ParseMakes DEF FreeDoc
  <2>. QED BY <1>1, <2>1, <2>2, ReturnEffect
<1>7. CASE ParseTyped(who, o)
  <2>1. PICK d \in FreeDoc :
          Return(ParseTypedRootValue(heap, o, d), who, o, "value", FALSE)
    BY <1>7 DEF ParseTyped
  <2>2. Makes(ParseTypedRootValue(heap, o, d), heap, CellOf(o, FALSE), New)
    BY <1>2, <1>3, ParseTypedMakes DEF FreeDoc
  <2>. QED BY <1>1, <2>1, <2>2, ReturnEffect
<1>8. CASE CopyDeep(who, o)
  <2>1. PICK target \in Reachable(who, "value"), d, e \in FreeDoc :
          /\ d # e
          /\ Return(DeepCopy(heap, o, d, e, IsMutable(target)),
                    who, o, "value", IsMutable(target))
    BY <1>8 DEF CopyDeep
  <2>2. PICK m \in BOOLEAN : m = IsMutable(target)
    BY DEF IsMutable
  <2>3. Makes(DeepCopy(heap, o, d, e, m), heap, CellOf(o, m), New)
    BY <1>2, <2>1, DeepCopyMakes DEF FreeDoc
  <2>. QED BY <1>1, <2>1, <2>2, <2>3, ReturnEffect
<1>9. CASE Convert(who, o)
  <2>1. PICK d \in FreeDoc :
          \/ Return(ToMutable(heap, o, d), who, o, "value", TRUE)
          \/ Return(ToImmutable(heap, o, d), who, o, "value", FALSE)
    BY <1>9 DEF Convert
  <2>2. /\ Makes(ToMutable(heap, o, d), heap, CellOf(o, TRUE), New)
        /\ Makes(ToImmutable(heap, o, d), heap, CellOf(o, FALSE), New)
    BY <1>2, <1>3, ToMutableMakes, ToImmutableMakes DEF FreeDoc
  <2>. QED BY <1>1, <2>1, <2>2, ReturnEffect
<1>10. CASE Patch(who, o)
  <2>1. PICK d, e \in FreeDoc, m \in BOOLEAN :
          d # e /\ Return(ApplyPatch(heap, o, d, e, m), who, o, "value", m)
    BY <1>10 DEF Patch
  <2>2. Makes(ApplyPatch(heap, o, d, e, m), heap, CellOf(o, m), New)
    BY <1>2, <2>1, PatchMakes DEF FreeDoc
  <2>. QED BY <1>1, <2>1, <2>2, ReturnEffect
<1>11. CASE GetChild(who, o)
  <2>1. PICK src \in Reachable(who, "value") :
          Return(ChildOf(heap, src, o, IsMutable(src)), who, o, "value", IsMutable(src))
    BY <1>11 DEF GetChild
  <2>2. PICK m \in BOOLEAN : m = IsMutable(src)
    BY DEF IsMutable
  <2>3. src \in Obj /\ Live(src)
    BY <1>4 DEF Live
  <2>4. heap.ptr[CellOf(src, m)] \in DocsOfLive
    BY <2>2, <2>3, LiveDoc
  <2>5. Makes(ChildOf(heap, src, o, m), heap, CellOf(o, m), DocsOfLive)
    BY <1>2, <2>3, <2>4, ChildMakes
  <2>. QED BY <1>1, <2>1, <2>2, <2>5, ReturnEffect
<1>12. CASE NewIterator(who, o)
  <2>1. PICK src \in Reachable(who, "value"), k \in {"arrIter", "objIter"} :
          Return(IterWith(heap, src, o), who, o, k, IsMutable(src))
    BY <1>12 DEF NewIterator
  <2>2. PICK m \in BOOLEAN : m = IsMutable(src)
    BY DEF IsMutable
  <2>3. src \in Obj /\ Live(src) /\ k \in Kinds
    BY <1>4 DEF Live, Kinds
  <2>4. heap.ptr[CellOf(src, m)] \in DocsOfLive /\ heap.ptr[CellOf(src, ~m)] = NoDoc
    BY <2>2, <2>3, LiveDoc
  <2>5. Makes(IterWith(heap, src, o), heap, CellOf(o, m), DocsOfLive)
    BY <1>2, <2>3, <2>4, IterMakes
  <2>. QED BY <1>1, <2>1, <2>2, <2>3, <2>5, ReturnEffect
<1>13. CASE IteratorValue(who, o)
  <2>1. PICK it \in Reachable(who, "arrIter") \cup Reachable(who, "objIter") :
          Return(ChildOf(heap, it, o, m_isMutable[it]), who, o, "value", m_isMutable[it])
    BY <1>13 DEF IteratorValue
  <2>2. it \in Obj /\ Live(it) /\ kind[it] # "value"
    BY <1>4 DEF Live
  <2>3. PICK m \in BOOLEAN : m = m_isMutable[it]
    BY <2>2 DEF IInv, TypeOK
  <2>4. m = IsMutable(it)
    BY <2>2, <2>3 DEF IInv, OneDocument
  <2>5. heap.ptr[CellOf(it, m)] \in DocsOfLive
    BY <2>2, <2>4, LiveDoc
  <2>6. Makes(ChildOf(heap, it, o, m), heap, CellOf(o, m), DocsOfLive)
    BY <1>2, <2>2, <2>5, ChildMakes
  <2>. QED BY <1>1, <2>1, <2>3, <2>6, ReturnEffect
<1>. QED
  BY <1>5, <1>6, <1>7, <1>8, <1>9, <1>10, <1>11, <1>12, <1>13

-----------------------------------------------------------------------------
(* Removing a handle: the object goes with the last one.                   *)

LEMMA DestroyIsDeath ==
  ASSUME IInv, NEW o \in Obj, Destroy(o)
  PROVE  Died(o)
<1>1. HeapOK(heap) /\ heap.raw = {}
  BY DEF IInv, CallsComplete
<1>2. /\ HeapOK(heap') /\ heap'.raw = {}
      /\ heap'.ptr = [heap.ptr EXCEPT ![Imm(o)] = NoDoc, ![Mut(o)] = NoDoc]
  BY <1>1, DeleteOK DEF Destroy
<1>. QED BY <1>2 DEF Died, Clean, Destroy

LEMMA RemoveHandleEffect ==
  ASSUME IInv, NEW h \in Handle, RemoveHandle(h)
  PROVE  /\ handles[h] \in Obj /\ handles' = [handles EXCEPT ![h] = NoObj]
         /\ UNCHANGED held
         /\ \/ HandlesOf(handles[h]) = {h} /\ Died(handles[h])
            \/ HandlesOf(handles[h]) # {h} /\ NothingHappens
<1>1. handles[h] \in Obj
  BY DEF RemoveHandle, IInv, TypeOK
<1>2. CASE HandlesOf(handles[h]) = {h}
  BY <1>1, <1>2, DestroyIsDeath DEF RemoveHandle
<1>3. CASE HandlesOf(handles[h]) # {h}
  BY <1>1, <1>3 DEF RemoveHandle, NothingHappens, IInv, CallsComplete, Clean
<1>. QED BY <1>1, <1>2, <1>3

-----------------------------------------------------------------------------
(* Each kind of step keeps the invariant.                                  *)

LEMMA CallKeeps ==
  ASSUME IInv, NEW o \in Obj, CallEffect(o)
  PROVE  IInv'
<1>1. /\ UNCHANGED loading /\ phase = "loaded" /\ kind[o] = "none" /\ o \in FreeObj
      /\ HandlesOf(o) = {} /\ o \notin held
  BY DEF CallEffect, Calling, IInv, OwnedOnce, FreeObj, Live
<1>0. UNCHANGED <<phase, types, manager>> /\ types = Kinds /\ manager
  BY <1>1 DEF loading, IInv, Unloading, WholeLoads
<1>2. CASE NothingHappens /\ UNCHANGED <<handles, held>>
  <2>1. ObjInv'
    BY <1>2, NothingKeeps
  <2>2. TypeOK' /\ OwnedOnce' /\ Unloading'
    BY <1>0, <1>1, <1>2, <2>1 DEF IInv, TypeOK, OwnedOnce, Unloading, WholeLoads,
       TypesOfPhase, NothingHappens, ObjInv, Live, HandlesOf
  <2>. QED BY <2>1, <2>2 DEF IInv, ObjInv
<1>3. CASE /\ \E k \in Kinds, m \in BOOLEAN, d \in (Doc \ heap.alive) \cup DocsOfLive :
                Born(o, k, m, d)
           /\ NewOwner(o)
  <2>1. PICK k \in Kinds, m \in BOOLEAN, d \in (Doc \ heap.alive) \cup DocsOfLive :
          Born(o, k, m, d)
    BY <1>3
  <2>2. d \in Doc
    BY LiveDoc DEF DocsOfLive
  <2>3. ObjInv'
    BY <1>1, <2>1, <2>2, BornKeeps
  <2>4. /\ kind'[o] = k /\ k # "none"
        /\ \A x \in Obj \ {o} : kind'[x] = kind[x]
    BY <2>1 DEF Born, Construct, Kinds, IInv, TypeOK
  <2>5. /\ handles' \in [Handle -> Obj \cup {NoObj}] /\ held' \in SUBSET Obj
        /\ \A x \in Obj \ {o} : HandlesOf(x)' = HandlesOf(x) /\ (x \in held' <=> x \in held)
        /\ \/ HandlesOf(o)' # {} /\ o \notin held'
           \/ HandlesOf(o)' = {} /\ o \in held'
    <3>1. CASE /\ \E h \in Handle : handles[h] = NoObj /\ handles' = [handles EXCEPT ![h] = o]
               /\ UNCHANGED held
      BY <1>1, <3>1, HandleAssumption DEF IInv, TypeOK, HandlesOf
    <3>2. CASE held' = held \cup {o} /\ UNCHANGED handles
      BY <1>1, <3>2 DEF IInv, TypeOK, HandlesOf
    <3>. QED BY <1>3, <3>1, <3>2 DEF NewOwner
  <2>6. TypeOK'
    BY <1>0, <2>3, <2>5 DEF TypeOK, ObjInv, IInv
  <2>7. OwnedOnce'
    BY <2>4, <2>5 DEF IInv, OwnedOnce, Live
  <2>8. Unloading'
    BY <1>0, <1>1, <2>6 DEF Unloading, WholeLoads, TypesOfPhase, TypeOK, Live
  <2>. QED BY <2>3, <2>6, <2>7, <2>8 DEF IInv, ObjInv
<1>. QED BY <1>2, <1>3 DEF CallEffect

LEMMA RemoveHandleKeeps ==
  ASSUME IInv, NEW h \in Handle, RemoveHandle(h), UNCHANGED loading
  PROVE  IInv'
<1>0. PICK o \in Obj : o = handles[h]
  BY RemoveHandleEffect
<1>1. /\ o \in Obj /\ handles' = [handles EXCEPT ![h] = NoObj] /\ UNCHANGED held
      /\ \/ HandlesOf(o) = {h} /\ Died(o)
         \/ HandlesOf(o) # {h} /\ NothingHappens
  BY <1>0, RemoveHandleEffect
<1>2. /\ HandlesOf(o)' = HandlesOf(o) \ {h} /\ h \in HandlesOf(o)
      /\ \A x \in Obj \ {o} : HandlesOf(x)' = HandlesOf(x)
      /\ handles' \in [Handle -> Obj \cup {NoObj}]
  BY <1>0, <1>1, HandleAssumption DEF HandlesOf, IInv, TypeOK
<1>3. o \notin held /\ Live(o)
  BY <1>1, <1>2 DEF IInv, OwnedOnce
<1>4. UNCHANGED <<phase, types, manager>>
  BY DEF loading
<1>5. kind[o] \in types /\ phase # "unloaded"
  <2>1. heap.alive # {}
    <3>1. PICK m \in BOOLEAN : m = IsMutable(o)
      BY DEF IsMutable
    <3>2. CellOf(o, m) \in Cell /\ heap.ptr[CellOf(o, m)] \in Doc
      BY <1>1, <1>3, <3>1, LiveDoc, ObjCells
    <3>. QED BY <3>2, AliveIsPointedTo DEF IInv, CallsComplete
  <2>. QED BY <1>1, <1>3, <2>1 DEF IInv, Unloading, WholeLoads
<1>6. CASE HandlesOf(o) = {h} /\ Died(o)
  <2>1. ObjInv'
    BY <1>1, <1>6, DiedKeeps
  <2>2. kind'[o] = "none" /\ \A x \in Obj \ {o} : kind'[x] = kind[x]
    BY <1>1, <1>6 DEF Died, IInv, TypeOK
  <2>3. HandlesOf(o)' = {}
    BY <1>2, <1>6
  <2>4. TypeOK'
    BY <1>1, <1>2, <1>4, <2>1 DEF TypeOK, ObjInv, IInv
  <2>5. OwnedOnce'
    BY <1>1, <1>2, <1>3, <2>2, <2>3 DEF IInv, OwnedOnce, Live
  <2>6. Unloading'
    BY <1>1, <1>4, <1>5, <2>2 DEF IInv, Unloading, WholeLoads, TypesOfPhase, Live
  <2>. QED BY <2>1, <2>4, <2>5, <2>6 DEF IInv, ObjInv
<1>7. CASE HandlesOf(o) # {h} /\ NothingHappens
  <2>1. ObjInv'
    BY <1>7, NothingKeeps
  <2>2. HandlesOf(o)' # {}
    BY <1>2, <1>7
  <2>3. TypeOK'
    BY <1>1, <1>2, <1>4, <2>1 DEF TypeOK, ObjInv, IInv
  <2>4. OwnedOnce'
    BY <1>1, <1>2, <1>3, <1>7, <2>2 DEF IInv, OwnedOnce, Live, NothingHappens
  <2>5. Unloading'
    BY <1>1, <1>4, <1>5, <1>7
       DEF IInv, Unloading, WholeLoads, TypesOfPhase, NothingHappens, Live
  <2>. QED BY <2>1, <2>3, <2>4, <2>5 DEF IInv, ObjInv
<1>. QED BY <1>1, <1>6, <1>7

LEMMA ReleaseHeldKeeps ==
  ASSUME IInv, NEW o \in Obj, ReleaseHeld(o)
  PROVE  IInv' /\ Died(o)
<1>1. Died(o) /\ held' = held \ {o} /\ handles' = handles
      /\ UNCHANGED <<phase, types, manager>> /\ phase = "loaded" /\ o \in held
  BY DestroyIsDeath DEF ReleaseHeld, loading
<1>2. ObjInv'
  BY <1>1, DiedKeeps
<1>3. kind'[o] = "none" /\ \A x \in Obj \ {o} : kind'[x] = kind[x]
  BY <1>1 DEF Died, IInv, TypeOK
<1>4. HandlesOf(o) = {} /\ \A x \in Obj : HandlesOf(x)' = HandlesOf(x)
  BY <1>1 DEF IInv, OwnedOnce, HandlesOf
<1>5. TypeOK'
  BY <1>1, <1>2 DEF TypeOK, ObjInv, IInv
<1>6. OwnedOnce'
  BY <1>1, <1>3, <1>4 DEF IInv, OwnedOnce, Live
<1>7. Unloading'
  BY <1>1, <1>3 DEF IInv, Unloading, WholeLoads, TypesOfPhase, Live
<1>. QED BY <1>1, <1>2, <1>5, <1>6, <1>7 DEF IInv, ObjInv

(* Cloning a handle and the phases of loading touch no object.             *)
LEMMA CloneHandleKeeps ==
  ASSUME IInv, NEW h \in Handle, NEW g \in Handle, CloneHandle(h, g)
  PROVE  IInv'
<1>1. /\ handles[h] \in Obj /\ handles[g] = NoObj
      /\ handles' = [handles EXCEPT ![g] = handles[h]]
      /\ heap' = heap /\ kind' = kind /\ m_isMutable' = m_isMutable
      /\ held' = held /\ UNCHANGED <<phase, types, manager>>
  BY DEF CloneHandle, IInv, TypeOK, loading
<1>2. ObjInv'
  BY <1>1, NothingKeeps DEF NothingHappens, IInv, CallsComplete, Clean
<1>3. /\ handles' \in [Handle -> Obj \cup {NoObj}]
      /\ \A x \in Obj : (HandlesOf(x) # {}) <=> (HandlesOf(x)' # {})
  BY <1>1, HandleAssumption DEF IInv, TypeOK, HandlesOf
<1>4. TypeOK' /\ OwnedOnce' /\ Unloading'
  BY <1>1, <1>2, <1>3
     DEF IInv, TypeOK, OwnedOnce, Unloading, WholeLoads, TypesOfPhase, ObjInv, Live
<1>. QED BY <1>2, <1>4 DEF IInv, ObjInv

LEMMA CompareKeeps ==
  ASSUME IInv, NEW who \in Caller, Compare(who)
  PROVE  IInv' /\ NothingHappens
<1>1. PICK d \in FreeDoc : \E r \in EqualsMixed(heap, d) : heap' = r.heap
  BY DEF Compare
<1>2. Clean(heap) /\ heap.ptr[DocRef] = NoDoc
  BY DEF IInv, CallsComplete, Clean
<1>3. NothingHappens
  BY <1>1, <1>2, EqualsRestores DEF Compare, NothingHappens, FreeDoc
<1>4. ObjInv' /\ UNCHANGED <<kind, handles, held, phase, types, manager>> /\ phase = "loaded"
  BY <1>3, NothingKeeps DEF Compare, loading
<1>5. TypeOK' /\ OwnedOnce' /\ Unloading'
  BY <1>4 DEF IInv, TypeOK, OwnedOnce, Unloading, WholeLoads, TypesOfPhase,
     ObjInv, Live, HandlesOf
<1>. QED BY <1>3, <1>4, <1>5 DEF IInv, ObjInv

(* With no object left no document is left.                                *)
LEMMA NothingLeft ==
  ASSUME IInv, \A o \in Obj : ~Live(o)
  PROVE  heap.alive = {}
<1>1. heap.alive = {d \in Doc : \E c \in Cell : heap.ptr[c] = d}
  BY AliveIsPointedTo DEF IInv, CallsComplete
<1>2. \A c \in Cell : heap.ptr[c] = NoDoc
  <2>1. \A c \in {Tmp, DocRef, Param} : heap.ptr[c] = NoDoc
    BY DEF IInv, CallsComplete
  <2>2. \A o \in Obj : heap.ptr[<<o, "mut">>] = NoDoc /\ heap.ptr[<<o, "imm">>] = NoDoc
    BY DEF IInv, CallsComplete, FreeObj, Mut, Imm
  <2>3. \A c \in Obj \X Side : \E o \in Obj : c = <<o, "mut">> \/ c = <<o, "imm">>
    BY DEF Side
  <2>. QED BY <2>1, <2>2, <2>3 DEF Cell
<1>. QED BY <1>1, <1>2, NoDocAssumption

LEMMA RemoveTypeDoneKeeps ==
  ASSUME IInv, RemoveTypeDone
  PROVE  IInv'
<1>1. /\ phase \in {"rmJson", "rmArrIter", "rmObjIter"} /\ phase' = NextPhase
      /\ types' = types \ TypeBeingRemoved /\ manager' \in BOOLEAN
      /\ heap' = heap /\ kind' = kind /\ m_isMutable' = m_isMutable
      /\ handles' = handles /\ held' = held
      /\ \A h \in Handle : handles[h] # NoObj => kind[handles[h]] \notin TypeBeingRemoved
  BY DEF RemoveTypeDone, IInv, TypeOK
<1>2. held = {}
  BY <1>1 DEF IInv, Unloading, WholeLoads
\* Every live object has a handle, so none of the type is left.
<1>3. ASSUME NEW o \in Obj, Live(o) PROVE kind[o] \in types'
  <2>1. PICK h \in Handle : handles[h] = o
    BY <1>2, <1>3 DEF IInv, OwnedOnce, HandlesOf
  <2>. QED BY <1>1, <1>3, <2>1, HandleAssumption DEF IInv, Unloading, WholeLoads
<1>4. TypesOfPhase' /\ (phase' = "unloaded" => types' = {}) /\ phase' \in Phases
      /\ phase' # "loaded" /\ types' \in SUBSET Kinds
  <2>1. CASE phase = "rmJson"
    <3>1. NextPhase = "rmArrIter" /\ TypeBeingRemoved = {"value"} /\ types = Kinds
      BY <2>1 DEF NextPhase, TypeBeingRemoved, IInv, Unloading, TypesOfPhase
    <3>. QED BY <1>1, <3>1 DEF TypesOfPhase, Phases, Kinds
  <2>2. CASE phase = "rmArrIter"
    <3>1. /\ NextPhase = "rmObjIter" /\ TypeBeingRemoved = {"arrIter"}
          /\ types = {"arrIter", "objIter"}
      BY <2>2 DEF NextPhase, TypeBeingRemoved, IInv, Unloading, TypesOfPhase
    <3>. QED BY <1>1, <3>1 DEF TypesOfPhase, Phases, Kinds
  <2>3. CASE phase = "rmObjIter"
    <3>1. NextPhase = "unloaded" /\ TypeBeingRemoved = {"objIter"} /\ types = {"objIter"}
      BY <2>3 DEF NextPhase, TypeBeingRemoved, IInv, Unloading, TypesOfPhase
    <3>. QED BY <1>1, <3>1 DEF TypesOfPhase, Phases, Kinds
  <2>. QED BY <1>1, <2>1, <2>2, <2>3
<1>5. phase' = "unloaded" => heap'.alive = {}
  BY <1>1, <1>3, <1>4, NothingLeft
<1>6. ObjInv'
  BY <1>1, NothingKeeps DEF NothingHappens, IInv, CallsComplete, Clean
<1>7. Unloading'
  BY <1>1, <1>2, <1>3, <1>4, <1>5 DEF Unloading, WholeLoads, Live
<1>8. TypeOK' /\ OwnedOnce'
  BY <1>1, <1>4, <1>6 DEF IInv, TypeOK, OwnedOnce, ObjInv, Live, HandlesOf
<1>. QED BY <1>6, <1>7, <1>8 DEF IInv, ObjInv

(* Nothing is alive outside a load, so any outcome of one is safe.         *)
LEMMA PhaseKeeps ==
  ASSUME IInv, BeginUnload \/ Load
  PROVE  IInv'
<1>1. /\ heap' = heap /\ kind' = kind /\ m_isMutable' = m_isMutable
      /\ handles' = handles /\ held' = held
  BY DEF BeginUnload, Load
<1>2. ObjInv'
  BY <1>1, NothingKeeps DEF NothingHappens, IInv, CallsComplete, Clean
<1>3. /\ types \subseteq types' /\ types' \in SUBSET Kinds /\ manager' \in BOOLEAN
      /\ phase' \in {"rmJson", "loaded", "unloaded"}
      /\ phase' = "rmJson" => types' = Kinds
      /\ phase' = "loaded" => types' = Kinds /\ manager'
      /\ phase' # "loaded" => held = {}
      /\ phase' = "unloaded" => heap.alive = {}
  <2>1. CASE BeginUnload
    BY <2>1 DEF BeginUnload, IInv, TypeOK, Unloading, WholeLoads
  <2>2. CASE Load
    <3>1. PICK new \in Created :
            /\ types' = types \cup new
            /\ manager' \in (IF new = Kinds THEN BOOLEAN ELSE {manager})
            /\ \/ phase' = "unloaded"
               \/ new = Kinds /\ manager' /\ phase' = "loaded"
      BY <2>2 DEF Load
    <3>2. new \subseteq Kinds
      BY DEF Created, Kinds
    <3>. QED BY <2>2, <3>1, <3>2 DEF Load, IInv, TypeOK, Unloading, WholeLoads
  <2>. QED BY <2>1, <2>2
<1>4. TypeOK' /\ OwnedOnce' /\ Unloading'
  BY <1>1, <1>2, <1>3 DEF IInv, TypeOK, OwnedOnce, Unloading, WholeLoads, TypesOfPhase,
     Phases, ObjInv, Live, HandlesOf
<1>. QED BY <1>2, <1>4 DEF IInv, ObjInv

-----------------------------------------------------------------------------
LEMMA InitIInv == Init => IInv
<1> SUFFICES ASSUME Init PROVE IInv
  OBVIOUS
<1>1. HeapOK(heap) /\ heap \in HeapType
  BY EmptyHeapOK DEF Init, HeapOK
<1>2. heap.raw = {} /\ heap.alive = {} /\ \A c \in Cell : heap.ptr[c] = NoDoc
  BY DEF Init, EmptyHeap
<1>3. TypeOK
  BY <1>1 DEF Init, TypeOK, Phases
<1>4. CallsComplete
  BY <1>1, <1>2, CellFacts, ObjCells DEF CallsComplete, FreeObj
<1>5. OneDocument /\ OwnedOnce /\ Unloading
  BY HandleAssumption, <1>2 DEF Init, OneDocument, OwnedOnce, Unloading, WholeLoads,
     TypesOfPhase, Live, HandlesOf, Kinds
<1>. QED BY <1>3, <1>4, <1>5 DEF IInv

LEMMA NextIInv == IInv /\ [Next]_vars => IInv'
<1> SUFFICES ASSUME IInv, [Next]_vars PROVE IInv'
  OBVIOUS
<1>1. CASE UNCHANGED vars
  BY <1>1 DEF vars, loading, IInv, TypeOK, CallsComplete, OneDocument, OwnedOnce,
     Unloading, WholeLoads, TypesOfPhase, FreeObj, Live, HandlesOf, IsMutable
<1>2. ASSUME NEW who \in Caller, NEW o \in Obj,
             \/ Create(who, o)   \/ Parse(who, o)       \/ ParseTyped(who, o)
             \/ CopyDeep(who, o) \/ Convert(who, o)     \/ Patch(who, o)
             \/ GetChild(who, o) \/ NewIterator(who, o) \/ IteratorValue(who, o)
      PROVE  IInv'
  <2>1. CallEffect(o)
    BY <1>2, CallEffects
  <2>. QED BY <2>1, CallKeeps
<1>3. ASSUME NEW who \in Caller, Compare(who) PROVE IInv'
  BY <1>3, CompareKeeps
<1>4. ASSUME NEW h \in Handle, NEW g \in Handle, CloneHandle(h, g) PROVE IInv'
  BY <1>4, CloneHandleKeeps
<1>5. ASSUME NEW h \in Handle, CloseHandle(h) \/ RemoveTypeHandle(h) PROVE IInv'
  BY <1>5, RemoveHandleKeeps DEF CloseHandle, RemoveTypeHandle
<1>6. ASSUME NEW o \in Obj, ReleaseHeld(o) PROVE IInv'
  BY <1>6, ReleaseHeldKeeps
<1>7. CASE BeginUnload \/ Load
  BY <1>7, PhaseKeeps
<1>8. CASE RemoveTypeDone
  BY <1>8, RemoveTypeDoneKeeps
<1>. QED
  BY <1>1, <1>2, <1>3, <1>4, <1>5, <1>6, <1>7, <1>8 DEF Next

LEMMA IInvHolds == Spec => []IInv
BY InitIInv, NextIInv, PTL DEF Spec

-----------------------------------------------------------------------------
(* The variables keep their types; in particular no counter goes below     *)
(* zero (RefCounted.h:32-37).                                              *)
THEOREM TypeCorrect == Spec => []TypeOK
<1>1. IInv => TypeOK
  BY DEF IInv
<1>. QED BY <1>1, IInvHolds, PTL

(* No manager call, on any path, leaves a counter wrong, a local reference  *)
(* or a plain document behind (JsonManager.cpp:59-907).                     *)
THEOREM CallsAreComplete == Spec => []CallsComplete
<1>1. IInv => CallsComplete
  BY DEF IInv
<1>. QED BY <1>1, IInvHolds, PTL

(* Every live object has exactly one document, on the side its readers     *)
(* look at (JsonManager.h:152-277).                                        *)
THEOREM ExactlyOneDocument == Spec => []OneDocument
<1>1. IInv => OneDocument
  BY DEF IInv
<1>. QED BY <1>1, IInvHolds, PTL

(* An object lives exactly as long as it is owned (JsonNatives.cpp:150-208, *)
(* extension.cpp:76-89).                                                    *)
THEOREM ObjectsAreOwned == Spec => []OwnedOnce
<1>1. IInv => OwnedOnce
  BY DEF IInv
<1>. QED BY <1>1, IInvHolds, PTL

(* Natives run only on a whole load, no object is of a type that is gone,  *)
(* and no document outlives the load it was made in (extension.cpp:14-74).  *)
LEMMA LoadsAreWhole == Spec => []WholeLoads
<1>1. IInv => WholeLoads
  BY DEF IInv, Unloading
<1>. QED BY <1>1, IInvHolds, PTL

(* The only step that ends in "unloaded" is the last RemoveType's.          *)
LEMMA OnlyRemoveTypeEnds ==
  ASSUME IInv, [Next]_vars, phase # "unloaded", phase' = "unloaded"
  PROVE  RemoveTypeDone
<1>1. phase' # phase
  OBVIOUS
<1>2. ~UNCHANGED vars
  BY <1>1 DEF vars, loading
<1>3. ASSUME NEW who \in Caller, NEW o \in Obj,
             \/ Create(who, o)   \/ Parse(who, o)       \/ ParseTyped(who, o)
             \/ CopyDeep(who, o) \/ Convert(who, o)     \/ Patch(who, o)
             \/ GetChild(who, o) \/ NewIterator(who, o) \/ IteratorValue(who, o)
      PROVE  FALSE
  <2>1. CallEffect(o)
    BY <1>3, CallEffects
  <2>2. UNCHANGED loading
    BY <2>1 DEF CallEffect, Calling
  <2>. QED BY <1>1, <2>2 DEF loading
<1>4. ASSUME NEW who \in Caller, Compare(who) PROVE FALSE
  BY <1>1, <1>4 DEF Compare, loading
<1>5. ASSUME NEW h \in Handle, NEW g \in Handle, CloneHandle(h, g) PROVE FALSE
  BY <1>1, <1>5 DEF CloneHandle, loading
<1>6. ASSUME NEW h \in Handle, CloseHandle(h) \/ RemoveTypeHandle(h) PROVE FALSE
  BY <1>1, <1>6 DEF CloseHandle, RemoveTypeHandle, loading
<1>7. ASSUME NEW o \in Obj, ReleaseHeld(o) PROVE FALSE
  BY <1>1, <1>7 DEF ReleaseHeld, loading
<1>8. ~BeginUnload /\ ~Load
  BY DEF BeginUnload, Load
<1>. QED BY <1>2, <1>3, <1>4, <1>5, <1>6, <1>7, <1>8 DEF Next

(* When SDK_OnUnload returns, no type, manager, handle, object or document *)
(* is left (extension.cpp:64-74); and what a failed load left registered is *)
(* never what a native runs on (extension.cpp:14-61).                      *)
THEOREM UnloadIsComplete == Spec => UnloadFreesAll
<1> DEFINE A == (phase # "unloaded" /\ phase' = "unloaded") =>
                  /\ types' = {} /\ ~manager'
                  /\ \A h \in Handle : handles'[h] = NoObj
                  /\ held' = {} /\ \A o \in Obj : kind'[o] = "none"
                  /\ heap'.alive = {}
<1>1. ASSUME IInv, IInv', [Next]_vars, phase # "unloaded", phase' = "unloaded"
      PROVE  /\ types' = {} /\ ~manager'
             /\ \A h \in Handle : handles'[h] = NoObj
             /\ held' = {} /\ \A o \in Obj : kind'[o] = "none"
             /\ heap'.alive = {}
  <2>1. RemoveTypeDone
    BY <1>1, OnlyRemoveTypeEnds
  <2>2. phase = "rmObjIter"
    BY <1>1, <2>1 DEF RemoveTypeDone, NextPhase
  <2>3. types' = {} /\ ~manager'
    BY <1>1, <2>1, <2>2
       DEF RemoveTypeDone, TypeBeingRemoved, IInv, Unloading, TypesOfPhase
  <2>4. held' = {} /\ heap'.alive = {}
    BY <1>1 DEF IInv, Unloading, WholeLoads
  \* An object would be of a type that is still registered.
  <2>5. \A o \in Obj : kind'[o] = "none"
    BY <1>1, <2>3 DEF IInv, Unloading, WholeLoads, Live
  \* A handle would own an object.
  <2>6. \A h \in Handle : handles'[h] = NoObj
    <3> SUFFICES ASSUME NEW h \in Handle, handles'[h] # NoObj PROVE FALSE
      OBVIOUS
    <3>1. handles'[h] \in Obj
      BY <1>1 DEF IInv, TypeOK
    <3>2. PICK o \in Obj : o = handles'[h]
      BY <3>1
    <3>3. h \in HandlesOf(o)'
      BY <3>2 DEF HandlesOf
    <3>4. Live(o)'
      BY <1>1, <3>3 DEF IInv, OwnedOnce
    <3>. QED BY <2>5, <3>4 DEF Live
  <2>. QED BY <2>3, <2>4, <2>5, <2>6
<1>2. IInv /\ IInv' /\ [Next]_vars => [A]_vars
  BY <1>1
<1>3. Spec => [][A]_vars
  BY <1>2, IInvHolds, PTL DEF Spec
<1>4. Spec => UnloadLeavesNothing
  BY <1>3 DEF UnloadLeavesNothing
<1>. QED BY <1>4, LoadsAreWhole DEF UnloadFreesAll

(* The cells that point to a document are members of live objects.         *)
LEMMA CellOwner ==
  ASSUME IInv, NEW d \in Doc, NEW c \in Cell, heap.ptr[c] = d
  PROVE  \E o \in Obj : /\ Live(o) /\ DocOf(heap, o) = d
                       /\ c = CellOf(o, IsMutable(o))
<1>1. d # NoDoc
  BY NoDocAssumption
<1>2. c \in Obj \X Side
  BY <1>1 DEF IInv, CallsComplete, Cell
<1>3. PICK o \in Obj : c = Mut(o) \/ c = Imm(o)
  BY <1>2 DEF Side, Mut, Imm
<1>4. Live(o)
  BY <1>1, <1>3 DEF IInv, CallsComplete, FreeObj
<1>5. (heap.ptr[Mut(o)] = NoDoc) # (heap.ptr[Imm(o)] = NoDoc)
  BY <1>4 DEF IInv, OneDocument
<1>. QED BY <1>1, <1>3, <1>4, <1>5 DEF DocOf, IsMutable, CellOf

LEMMA AliveIsOfLive ==
  ASSUME IInv
  PROVE  heap.alive = DocsOfLive
<1>1. heap.alive = {d \in Doc : \E c \in Cell : heap.ptr[c] = d}
  BY AliveIsPointedTo DEF IInv, CallsComplete
<1>2. ASSUME NEW d \in heap.alive PROVE d \in DocsOfLive
  BY <1>1, CellOwner DEF DocsOfLive
<1>3. ASSUME NEW o \in Obj, Live(o) PROVE DocOf(heap, o) \in heap.alive
  <2>1. PICK m \in BOOLEAN : m = IsMutable(o)
    BY DEF IsMutable
  <2>2. CellOf(o, m) \in Cell /\ heap.ptr[CellOf(o, m)] = DocOf(heap, o)
        /\ DocOf(heap, o) \in Doc
    BY <1>3, <2>1, LiveDoc, ObjCells
  <2>. QED BY <1>1, <2>2
<1>. QED BY <1>2, <1>3 DEF DocsOfLive

(* The counter of a document is the number of objects that share it.       *)
LEMMA CountIsSharers ==
  ASSUME IInv, NEW d \in Doc
  PROVE  heap.count[d] = Cardinality(Sharers(d))
<1> DEFINE S == Sharers(d)
           R == Refs(heap.ptr, d)
           f == [o \in S |-> CellOf(o, IsMutable(o))]
<1>1. f \in [S -> R]
  <2> SUFFICES ASSUME NEW o \in S PROVE CellOf(o, IsMutable(o)) \in R
    OBVIOUS
  <2>1. o \in Obj /\ Live(o) /\ DocOf(heap, o) = d
    BY DEF Sharers
  <2>2. PICK m \in BOOLEAN : m = IsMutable(o)
    BY DEF IsMutable
  <2>3. CellOf(o, m) \in Cell /\ heap.ptr[CellOf(o, m)] = d
    BY <2>1, <2>2, LiveDoc, ObjCells
  <2>. QED BY <2>2, <2>3 DEF Refs
<1>2. \A a, b \in S : f[a] = f[b] => a = b
  BY DEF CellOf, Mut, Imm
<1>3. \A c \in R : \E o \in S : f[o] = c
  BY CellOwner DEF Refs, Sharers
<1>4. ExistsBijection(S, R)
  BY <1>1, <1>2, <1>3
     DEF ExistsBijection, Bijection, Injection, Surjection, IsInjective
<1>5. IsFiniteSet(S)
  BY ObjAssumption, FS_Subset DEF Sharers
<1>6. Cardinality(R) = Cardinality(S)
  BY <1>4, <1>5, FS_Bijection
<1>. QED BY <1>6 DEF IInv, CallsComplete, HeapOK, CountExact

(* Storage is allocated exactly for the documents of live objects: nothing *)
(* leaks and nothing dangles, in whatever order objects are closed; and    *)
(* JSON.RefCount is the number of live values and iterators on a document   *)
(* (JsonManager.cpp:1039-1045).                                             *)
THEOREM NothingLeaks == Spec => []NoLeakNoDangling
<1>1. IInv => heap.alive = {DocOf(heap, o) : o \in {x \in Obj : Live(x)}}
  BY AliveIsOfLive DEF DocsOfLive
<1>2. ASSUME IInv, NEW o \in Obj, Live(o)
      PROVE  heap.count[DocOf(heap, o)] = Cardinality(Sharers(DocOf(heap, o)))
  BY <1>2, LiveDoc, CountIsSharers
<1>3. IInv => NoLeakNoDangling
  BY <1>1, <1>2 DEF NoLeakNoDangling
<1>. QED BY <1>3, IInvHolds, PTL

-----------------------------------------------------------------------------
(* Every step is one of the three.                                         *)
LEMMA StepEffect ==
  ASSUME IInv, [Next]_vars
  PROVE  \/ NothingHappens
         \/ \E o \in FreeObj, k \in Kinds, m \in BOOLEAN,
              d \in (Doc \ heap.alive) \cup DocsOfLive : Born(o, k, m, d)
         \/ \E o \in Obj : Died(o)
<1>1. Clean(heap)
  BY DEF IInv, CallsComplete, Clean
<1>2. CASE UNCHANGED <<heap, kind, m_isMutable>>
  BY <1>1, <1>2 DEF NothingHappens
<1>3. ASSUME NEW who \in Caller, NEW o \in Obj,
             \/ Create(who, o)   \/ Parse(who, o)       \/ ParseTyped(who, o)
             \/ CopyDeep(who, o) \/ Convert(who, o)     \/ Patch(who, o)
             \/ GetChild(who, o) \/ NewIterator(who, o) \/ IteratorValue(who, o)
      PROVE  \/ NothingHappens
             \/ \E k \in Kinds, m \in BOOLEAN,
                  d \in (Doc \ heap.alive) \cup DocsOfLive : o \in FreeObj /\ Born(o, k, m, d)
  <2>1. CallEffect(o)
    BY <1>3, CallEffects
  <2>. QED BY <2>1 DEF CallEffect, Calling
<1>4. ASSUME NEW who \in Caller, Compare(who) PROVE NothingHappens
  BY <1>4, CompareKeeps
<1>5. ASSUME NEW h \in Handle, CloseHandle(h) \/ RemoveTypeHandle(h)
      PROVE  NothingHappens \/ \E o \in Obj : Died(o)
  BY <1>5, RemoveHandleEffect DEF CloseHandle, RemoveTypeHandle
<1>6. ASSUME NEW o \in Obj, ReleaseHeld(o) PROVE Died(o)
  BY <1>6, ReleaseHeldKeeps
<1>7. CASE \/ UNCHANGED vars \/ BeginUnload \/ Load \/ RemoveTypeDone
           \/ \E h, g \in Handle : CloneHandle(h, g)
  BY <1>2, <1>7 DEF vars, BeginUnload, Load, RemoveTypeDone, CloneHandle
<1>. QED
  BY <1>3, <1>4, <1>5, <1>6, <1>7 DEF Next

(* No call makes a surviving object refer to another document.             *)
THEOREM DocumentsAreFixed == Spec => DocumentFixed
<1>1. ASSUME IInv, [Next]_vars, NEW x \in Obj, kind[x] # "none", kind'[x] # "none"
      PROVE  DocOf(heap', x) = DocOf(heap, x)
  <2>1. CASE NothingHappens
    BY <1>1, <2>1, NothingKeeps
  <2>2. ASSUME NEW o \in FreeObj, NEW k \in Kinds, NEW m \in BOOLEAN,
               NEW d \in (Doc \ heap.alive) \cup DocsOfLive, Born(o, k, m, d)
        PROVE  DocOf(heap', x) = DocOf(heap, x)
    <3>1. d \in Doc
      BY <1>1, LiveDoc DEF DocsOfLive
    <3>2. x # o
      BY <1>1 DEF FreeObj, Live
    <3>. QED BY <1>1, <2>2, <3>1, <3>2, BornKeeps
  <2>3. ASSUME NEW o \in Obj, Died(o)
        PROVE  DocOf(heap', x) = DocOf(heap, x)
    <3>1. x # o
      BY <1>1, <2>3 DEF Died, IInv, TypeOK
    <3>. QED BY <1>1, <2>3, <3>1, DiedKeeps
  <2>. QED BY <1>1, <2>1, <2>2, <2>3, StepEffect
<1>2. IInv /\ [Next]_vars
        => [\A o \in Obj : (kind[o] # "none" /\ kind'[o] # "none")
                              => DocOf(heap', o) = DocOf(heap, o)]_vars
  BY <1>1
<1>. QED BY <1>2, IInvHolds, PTL DEF Spec, DocumentFixed

(* With the values and iterators as holders, the extension implements      *)
(* DocLifetime: a document is freed in the step in which its last object   *)
(* goes.                                                                   *)
LEMMA HeldIsOfLive ==
  ASSUME IInv
  PROVE  heap.alive = Lifetime!Held([o \in Obj |-> DocOf(heap, o)])
<1>1. ASSUME NEW o \in Obj, ~Live(o) PROVE DocOf(heap, o) = NoDoc
  BY <1>1 DEF IInv, CallsComplete, FreeObj, DocOf
<1>2. ASSUME NEW o \in Obj, Live(o) PROVE DocOf(heap, o) # NoDoc
  BY <1>2, LiveDoc, NoDocAssumption
<1>. QED BY <1>1, <1>2, AliveIsOfLive DEF Lifetime!Held, DocsOfLive

THEOREM OwnershipRefinesLifetime == Spec => ImplementsLifetime
<1> DEFINE holds == [o \in Obj |-> DocOf(heap, o)]
<1>1. Init => Lifetime!Init
  BY ObjCells DEF Init, Lifetime!Init, EmptyHeap, DocOf
<1>2. IInv => heap.alive = Lifetime!Held(holds)
  BY HeldIsOfLive
<1>3. IInv' => heap'.alive = Lifetime!Held(holds')
  <2>1. (IInv => heap.alive = Lifetime!Held(holds))'
    BY <1>2, PTL
  <2>. QED BY <2>1
<1>4. IInv /\ IInv' /\ [Next]_vars => [Lifetime!Next]_(Lifetime!vars)
  <2> SUFFICES ASSUME IInv, IInv', [Next]_vars
               PROVE  [Lifetime!Next]_(Lifetime!vars)
    OBVIOUS
  <2>1. heap'.alive = Lifetime!Held(holds')
    BY <1>3
  <2>2. heap.alive = Lifetime!Held(holds)
    BY <1>2
  <2>3. CASE NothingHappens
    <3>1. holds' = holds
      BY <2>3, NothingKeeps
    <3>. QED BY <2>1, <2>2, <3>1 DEF Lifetime!vars
  <2>4. ASSUME NEW o \in FreeObj, NEW k \in Kinds, NEW m \in BOOLEAN,
               NEW d \in (Doc \ heap.alive) \cup DocsOfLive, Born(o, k, m, d)
        PROVE  Lifetime!Next
    <3>1. d \in Doc /\ o \in Obj
      BY LiveDoc DEF DocsOfLive, FreeObj
    <3>2. holds' = [holds EXCEPT ![o] = d]
      BY <2>4, <3>1, BornKeeps, ZenonT(60)
    <3>3. CASE d \notin heap.alive
      BY <2>1, <3>1, <3>2, <3>3 DEF Lifetime!Create, Lifetime!Next
    <3>4. CASE d \in DocsOfLive
      <4>1. PICK y \in Obj : holds[y] = d
        BY <3>4 DEF DocsOfLive
      <4>2. Lifetime!Share(o, y)
        BY <2>1, <3>1, <3>2, <4>1 DEF Lifetime!Share
      <4>. QED BY <3>1, <4>1, <4>2 DEF Lifetime!Next
    <3>. QED BY <3>3, <3>4
  <2>5. ASSUME NEW o \in Obj, Died(o) PROVE Lifetime!Next
    <3>1. holds' = [holds EXCEPT ![o] = NoDoc]
      BY <2>5, DiedKeeps
    <3>. QED BY <2>1, <3>1 DEF Lifetime!Drop, Lifetime!Next
  <2>. QED BY <2>3, <2>4, <2>5, StepEffect
<1>. QED
  BY <1>1, <1>4, IInvHolds, PTL DEF Spec, ImplementsLifetime, Lifetime!Spec

=============================================================================
