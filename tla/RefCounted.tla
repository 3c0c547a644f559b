----------------------------- MODULE RefCounted -----------------------------
(***************************************************************************)
(* Intrusive reference counting: the RefCounted base class and the RefPtr  *)
(* smart pointer of src/src/RefCounted.h, as pure operators on a heap.     *)
(*                                                                         *)
(* A cell is a variable of type RefPtr: the two RefPtr members of a        *)
(* JsonValue, JsonArrIter or JsonObjIter, and the RefPtr locals,           *)
(* parameters and temporaries of the manager call that is running.  The    *)
(* template argument of a RefPtr is the side of its cell.                  *)
(*                                                                         *)
(* A heap is a record:                                                     *)
(*   ptr    the document each cell points to, or NoDoc                     *)
(*   count  the ref_count_ stored in each document                         *)
(*   alive  the documents whose storage is allocated                       *)
(*   raw    the documents the running call owns through a plain yyjson     *)
(*          pointer: allocated and not yet, or never, given to a RefPtr    *)
(* Document identities are storage: a freed one may be allocated again.    *)
(***************************************************************************)
EXTENDS Integers, FiniteSets

CONSTANTS
  Doc,     \* storage for documents
  Obj,     \* storage for wrapper and iterator objects
  Frame,   \* owner of the RefPtr locals of the running call
  NoDoc    \* nullptr

ASSUME ObjAssumption   == Frame \notin Obj /\ IsFiniteSet(Obj)
ASSUME NoDocAssumption == NoDoc \notin Doc

Side     == {"mut", "imm"}
Tmp      == <<Frame, "tmp">>       \* the temporary a factory returns
DocRef   == <<Frame, "doc_ref">>   \* a RefPtr local
Param    == <<Frame, "param">>     \* a RefPtr passed by value
Cell     == (Obj \X Side) \cup {Tmp, DocRef, Param}
DocOrNil == Doc \cup {NoDoc}

HeapType == [ptr   : [Cell -> DocOrNil], count : [Doc -> Nat],
             alive : SUBSET Doc,         raw   : SUBSET Doc]

EmptyHeap == [ptr   |-> [c \in Cell |-> NoDoc], count |-> [d \in Doc |-> 0],
              alive |-> {},                     raw   |-> {}]

\* The cells that point to d.
Refs(ptr, d) == {c \in Cell : ptr[c] = d}

(***************************************************************************)
(* What holds between any two operations: a counter is the number of cells *)
(* that point to its document, and storage is allocated exactly for the    *)
(* documents some cell points to and those a running call owns raw.        *)
(***************************************************************************)
CountExact(h) == \A d \in Doc : h.count[d] = Cardinality(Refs(h.ptr, d))
AliveExact(h) == \A d \in Doc : d \in h.alive <=> (h.count[d] > 0 \/ d \in h.raw)
RawApart(h)   == \A d \in h.raw : h.count[d] = 0

HeapOK(h) == h \in HeapType /\ CountExact(h) /\ AliveExact(h) /\ RawApart(h)

-----------------------------------------------------------------------------
(* Plain yyjson documents: allocation by the library, and yyjson_doc_free. *)

RawNew(h, d)  == [h EXCEPT !.alive = @ \cup {d}, !.raw = @ \cup {d}]
RawFree(h, d) == [h EXCEPT !.alive = @ \ {d},    !.raw = @ \ {d}]

(* RefCounted::add_ref and RefCounted::release on a pointer that may be null. *)

AddRef(h, p) == IF p = NoDoc THEN h ELSE [h EXCEPT !.count[p] = @ + 1]

ReleaseLeaky(h, p) == IF p = NoDoc THEN h ELSE [h EXCEPT !.count[p] = @ - 1]

Release(h, p) ==
  IF p = NoDoc THEN h
  ELSE [h EXCEPT !.count[p] = @ - 1,
                 !.alive = IF h.count[p] = 1 THEN @ \ {p} ELSE @]

Point(h, c, p) == [h EXCEPT !.ptr[c] = p]

-----------------------------------------------------------------------------
(* RefPtr.  A constructor writes a cell that pointed to nothing.           *)

\* make_ref: the new wrapper object takes the plain document d over.
MakeRef(h, c, d) == Point(AddRef([h EXCEPT !.raw = @ \ {d}], d), c, d)

CopyInit(h, c, src) == Point(AddRef(h, h.ptr[src]), c, h.ptr[src])

\* operator=(const RefPtr &): the new reference is taken before the old one
\* is given up, and assigning an equal pointer does nothing.
CopyAssignNoAddRef(h, c, src) ==
  IF h.ptr[c] = h.ptr[src] THEN h
  ELSE Point(Release(h, h.ptr[c]), c, h.ptr[src])

CopyAssign(h, c, src) ==
  IF h.ptr[c] = h.ptr[src] THEN h
  ELSE Point(Release(AddRef(h, h.ptr[src]), h.ptr[c]), c, h.ptr[src])

\* operator=(RefPtr &&): the old reference is given up, the source's is taken
\* over and the source is left null.
MoveAssignKeepSource(h, c, src) ==
  IF c = src THEN h ELSE Point(Release(h, h.ptr[c]), c, h.ptr[src])

MoveAssign(h, c, src) ==
  IF c = src THEN h
  ELSE Point(Point(Release(h, h.ptr[c]), c, h.ptr[src]), src, NoDoc)

\* reset(p), where p is null or get() of some RefPtr.
ResetAlways(h, c, p) == Point(AddRef(Release(h, h.ptr[c]), p), c, p)

Reset(h, c, p) ==
  IF h.ptr[c] = p THEN h
  ELSE Point(Release(AddRef(h, p), h.ptr[c]), c, p)

\* ~RefPtr: the cell goes out of scope.
Dtor(h, c) == Point(Release(h, h.ptr[c]), c, NoDoc)

=============================================================================
