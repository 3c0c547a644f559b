--------------------------- MODULE JsonOwnership ----------------------------
(***************************************************************************)
(* Who owns what in the extension.  A plugin's handle owns a wrapper       *)
(* object (JsonValue, JsonArrIter or JsonObjIter); a wrapper holds its     *)
(* document through one of its two RefPtr members; children and iterators  *)
(* share the document of the value they came from.  Another extension may  *)
(* call IJsonManager directly and hold a wrapper with no handle.           *)
(*                                                                         *)
(* One action is one native (or one IJsonManager call), whole: the manager *)
(* function with its failure paths, then the creation of the handle, which *)
(* may fail too.  Everything runs on the game's main thread, so calls do   *)
(* not overlap; what interleaves is the order in which plugins and         *)
(* extensions create, share, close and unload.                             *)
(*                                                                         *)
(* Contents of documents are abstracted: whether a parse, a lookup or an   *)
(* allocation succeeds is a choice.                                        *)
(***************************************************************************)
EXTENDS RefCounted

CONSTANTS
  Handle,    \* entries of SourceMod's handle table
  NoObj      \* content of a free entry

ASSUME HandleAssumption == NoObj \notin Obj

VARIABLES
  heap,      \* documents and the RefPtr members of the live objects
  kind,      \* what each object is: "none" when its storage is free
  m_isMutable, \* JsonArrIter::m_isMutable, JsonObjIter::m_isMutable
  handles,   \* the object each handle refers to, or NoObj
  held,      \* objects another extension holds with no handle
  phase,     \* SDK_OnLoad done, or how far SDK_OnUnload has come
  types,     \* handle types registered with SourceMod
  manager    \* whether g_pJsonManager is there

loading == <<phase, types, manager>>

vars == <<heap, kind, m_isMutable, handles, held, loading>>

Kinds  == {"value", "arrIter", "objIter"}
Caller == {"plugin", "extension"}
Phases == {"loaded", "rmJson", "rmArrIter", "rmObjIter", "unloaded"}

TypeOK ==
  /\ heap \in HeapType
  /\ kind \in [Obj -> Kinds \cup {"none"}]
  /\ m_isMutable \in [Obj -> BOOLEAN]
  /\ handles \in [Handle -> Obj \cup {NoObj}]
  /\ held \in SUBSET Obj
  /\ phase \in Phases
  /\ types \in SUBSET Kinds
  /\ manager \in BOOLEAN

Mut(o) == <<o, "mut">>    \* m_pDocument_mut
Imm(o) == <<o, "imm">>    \* m_pDocument

Live(o)      == kind[o] # "none"
HandlesOf(o) == {h \in Handle : handles[h] = o}
IsMutable(o) == heap.ptr[Mut(o)] # NoDoc
DocOf(h, o)  == IF h.ptr[Mut(o)] # NoDoc THEN h.ptr[Mut(o)] ELSE h.ptr[Imm(o)]

\* An object the caller can name: a plugin through an open handle, another
\* extension also through a pointer it holds.
Reachable(who, k) ==
  {o \in Obj : kind[o] = k
                 /\ (HandlesOf(o) # {} \/ (who = "extension" /\ o \in held))}

FreeObj == {o \in Obj : ~Live(o)}
FreeDoc == Doc \ heap.alive

-----------------------------------------------------------------------------
(* Manager functions, as the set of outcomes they may have on heap h when  *)
(* the wrapper they create is o and the documents they allocate are d, e.  *)

Ok(h)   == [heap |-> h, ok |-> TRUE]
Fail(h) == [heap |-> h, ok |-> FALSE]

\* delete of a wrapper: its members are destroyed in reverse order.
DeleteKeepsMut(h, o) == Dtor(h, Imm(o))

Delete(h, o) == Dtor(Dtor(h, Imm(o)), Mut(o))

\* cell = CreateDocument(), CopyDocument(..) or WrapDocument(..)
WrapNew(h, c, d) == MoveAssign(MakeRef(RawNew(h, d), Tmp, d), c, Tmp)

\* cell = WrapImmutableDocument(d) of a document the call holds raw
WrapRaw(h, c, d) == MoveAssign(MakeRef(h, Tmp, d), c, Tmp)

\* ObjectInit, ArrayInit, Create..., Pack, ReadNumber and the InitWith
\* functions: a fresh mutable document, then the root value, which may fail.
NewMutable(h, o, d) ==
  LET w == WrapNew(h, Mut(o), d)
  IN  {Fail(h), Fail(Delete(w, o)), Ok(w)}

\* ParseJSON keeps the immutable document it read, or copies it into a
\* mutable one and frees it.
ParseLeaksInput(h, o, d, e, is_mutable) ==
  LET r == RawNew(h, d)
      c == WrapNew(r, Mut(o), e)
      w == WrapRaw(r, Imm(o), d)
  IN  IF is_mutable
      THEN {Fail(h), Fail(RawFree(r, d)), Fail(Delete(c, o)), Ok(c)}
      ELSE {Fail(h), Fail(Delete(w, o)), Ok(w)}

ParseJSON(h, o, d, e, is_mutable) ==
  LET r == RawNew(h, d)
      c == RawFree(WrapNew(r, Mut(o), e), d)
      w == WrapRaw(r, Imm(o), d)
  IN  IF is_mutable
      THEN {Fail(h), Fail(RawFree(r, d)), Fail(Delete(c, o)), Ok(c)}
      ELSE {Fail(h), Fail(Delete(w, o)), Ok(w)}

\* The typed parsers free the document when its root is of the wrong type.
ParseTypedRootValue(h, o, d) ==
  LET r == RawNew(h, d)
  IN  {Fail(h), Fail(RawFree(r, d)), Ok(WrapRaw(r, Imm(o), d))}

ToMutable(h, o, d) ==
  LET w == WrapNew(h, Mut(o), d)
  IN  {Fail(h), Fail(Delete(w, o)), Ok(w)}

ToImmutable(h, o, d) == {Fail(h), Ok(WrapRaw(RawNew(h, d), Imm(o), d))}

DeepCopyKeepsTemp(h, o, d, e, target_mutable) ==
  LET w == WrapNew(h, Mut(o), d)
      t == RawNew(h, d)
  IN  IF target_mutable
      THEN {Fail(h), Fail(Delete(w, o)), Ok(w)}
      ELSE {Fail(h), Fail(t), Ok(WrapRaw(RawNew(t, e), Imm(o), e))}

\* DeepCopy builds an immutable copy by way of a temporary mutable document.
DeepCopy(h, o, d, e, target_mutable) ==
  LET w == WrapNew(h, Mut(o), d)
      t == RawNew(h, d)
      i == RawFree(RawNew(t, e), d)
  IN  IF target_mutable
      THEN {Fail(h), Fail(Delete(w, o)), Ok(w)}
      ELSE {Fail(h), Fail(RawFree(t, d)), Ok(WrapRaw(i, Imm(o), e))}

\* WrapPatchedDocument takes the patched document by value: a second RefPtr
\* to it lives until it returns.
WrapPatchedDocument(h, o, e, result_mutable) ==
  LET p == CopyInit(h, Param, DocRef)
      m == CopyAssign(p, Mut(o), Param)
      i == WrapRaw(RawNew(p, e), Imm(o), e)
  IN  IF result_mutable
      THEN {Ok(Dtor(m, Param))}
      ELSE {Fail(Dtor(p, Param)), Ok(Dtor(i, Param))}

\* ApplyJsonPatch, ApplyMergePatch: clone the target's document, patch the
\* clone, wrap it.
ApplyPatch(h, o, d, e, result_mutable) ==
  LET c == MakeRef(RawNew(h, d), DocRef, d)
  IN  {Fail(h), Fail(Dtor(c, DocRef))}
        \cup {[heap |-> Dtor(r.heap, DocRef), ok |-> r.ok] :
                r \in WrapPatchedDocument(c, o, e, result_mutable)}

\* Equals of a mutable and an immutable value compares the former with a
\* mutable copy of the latter's document, which it drops on return.
EqualsMixed(h, d) == {Ok(h), Ok(Dtor(MakeRef(RawNew(h, d), DocRef, d), DocRef))}

\* ObjectGet, ArrayGet, PtrGet, ArrIterNext, ObjIterGet and the like: the new
\* wrapper shares the document of src, on the side src uses.
ChildOfByMove(h, src, o, mutable) ==
  {Fail(h),
   Ok(IF mutable THEN MoveAssign(h, Mut(o), Mut(src))
                 ELSE MoveAssign(h, Imm(o), Imm(src)))}

ChildOf(h, src, o, mutable) ==
  {Fail(h),
   Ok(IF mutable THEN CopyAssign(h, Mut(o), Mut(src))
                 ELSE CopyAssign(h, Imm(o), Imm(src)))}

\* ArrIterWith, ObjIterWith: both members are copied from the value; an
\* iterator that cannot be initialised is deleted.
IterWithMutOnly(h, src, o) ==
  LET w == CopyAssign(h, Mut(o), Mut(src))
  IN  {Fail(h), Fail(Delete(w, o)), Ok(w)}

IterWith(h, src, o) ==
  LET w == CopyAssign(CopyAssign(h, Mut(o), Mut(src)), Imm(o), Imm(src))
  IN  {Fail(h), Fail(Delete(w, o)), Ok(w)}

-----------------------------------------------------------------------------
(* The end of a call: what a failed one leaves, what an extension receives *)
(* and what CreateAndReturnHandle does for a plugin.                       *)

\* An object k in storage o with the flag mutable comes into being.
Construct(o, k, mutable) ==
  /\ kind' = [kind EXCEPT ![o] = k]
  /\ m_isMutable' = [m_isMutable EXCEPT ![o] = (k # "value" /\ mutable)]

CreateHandleLeaky(r, o, k, mutable) ==
  \/ \E h \in Handle :
       /\ handles[h] = NoObj
       /\ handles' = [handles EXCEPT ![h] = o]
       /\ heap' = r.heap
       /\ Construct(o, k, mutable)
  \/ /\ heap' = r.heap
     /\ Construct(o, k, mutable)
     /\ UNCHANGED handles

\* CreateAndReturnHandle and its two iterator versions: when the handle
\* system refuses a handle, the object is released.
CreateHandle(r, o, k, mutable) ==
  \/ \E h \in Handle :
       /\ handles[h] = NoObj
       /\ handles' = [handles EXCEPT ![h] = o]
       /\ heap' = r.heap
       /\ Construct(o, k, mutable)
  \/ /\ heap' = Delete(r.heap, o)
     /\ UNCHANGED <<kind, m_isMutable, handles>>

Return(outcomes, who, o, k, mutable) ==
  \E r \in outcomes :
    \/ /\ ~r.ok
       /\ heap' = r.heap
       /\ UNCHANGED <<kind, m_isMutable, handles, held>>
    \/ /\ r.ok /\ who = "plugin"
       /\ CreateHandle(r, o, k, mutable)
       /\ UNCHANGED held
    \/ /\ r.ok /\ who = "extension"
       /\ heap' = r.heap
       /\ Construct(o, k, mutable)
       /\ held' = held \cup {o}
       /\ UNCHANGED handles

-----------------------------------------------------------------------------
(* Calls that create a value with a document of its own.                   *)

\* Every call needs the extension loaded and creates at most one object.
Calling(o) ==
  /\ phase = "loaded"
  /\ o \in FreeObj
  /\ UNCHANGED loading

Create(who, o) ==
  /\ Calling(o)
  /\ \E d \in FreeDoc : Return(NewMutable(heap, o, d), who, o, "value", TRUE)

Parse(who, o) ==
  /\ Calling(o)
  /\ \E d, e \in FreeDoc, is_mutable \in BOOLEAN :
       /\ d # e
       /\ Return(ParseJSON(heap, o, d, e, is_mutable), who, o, "value", is_mutable)

ParseTyped(who, o) ==
  /\ Calling(o)
  /\ \E d \in FreeDoc :
       Return(ParseTypedRootValue(heap, o, d), who, o, "value", FALSE)

CopyDeep(who, o) ==
  /\ Calling(o)
  /\ \E target \in Reachable(who, "value"), d, e \in FreeDoc :
       /\ d # e
       /\ Return(DeepCopy(heap, o, d, e, IsMutable(target)),
                 who, o, "value", IsMutable(target))

\* json_doc_to_mutable and json_doc_to_immutable refuse a value that already
\* is what they would make of it.
Convert(who, o) ==
  /\ Calling(o)
  /\ \E src \in Reachable(who, "value"), d \in FreeDoc :
       \/ /\ ~IsMutable(src)
          /\ Return(ToMutable(heap, o, d), who, o, "value", TRUE)
       \/ /\ IsMutable(src)
          /\ Return(ToImmutable(heap, o, d), who, o, "value", FALSE)

Patch(who, o) ==
  /\ Calling(o)
  /\ Reachable(who, "value") # {}
  /\ \E d, e \in FreeDoc, result_mutable \in BOOLEAN :
       /\ d # e
       /\ Return(ApplyPatch(heap, o, d, e, result_mutable),
                 who, o, "value", result_mutable)

\* json_doc_equals creates no object.
Compare(who) ==
  /\ phase = "loaded"
  /\ \E a, b \in Reachable(who, "value"), d \in FreeDoc :
       /\ IsMutable(a) /\ ~IsMutable(b)
       /\ \E r \in EqualsMixed(heap, d) : heap' = r.heap
  /\ UNCHANGED <<kind, m_isMutable, handles, held, loading>>

-----------------------------------------------------------------------------
(* Calls that share a document.                                            *)

GetChild(who, o) ==
  /\ Calling(o)
  /\ \E src \in Reachable(who, "value") :
       Return(ChildOf(heap, src, o, IsMutable(src)), who, o, "value", IsMutable(src))

NewIterator(who, o) ==
  /\ Calling(o)
  /\ \E src \in Reachable(who, "value"), k \in {"arrIter", "objIter"} :
       Return(IterWith(heap, src, o), who, o, k, IsMutable(src))

\* ArrIterNext, ObjIterGetVal and ObjIterGet use the iterator's own flag.
IteratorValue(who, o) ==
  /\ Calling(o)
  /\ \E it \in Reachable(who, "arrIter") \cup Reachable(who, "objIter") :
       Return(ChildOf(heap, it, o, m_isMutable[it]), who, o, "value", m_isMutable[it])

-----------------------------------------------------------------------------
(* Letting go.                                                             *)

\* OnHandleDestroy, or Release... from another extension.
Destroy(o) ==
  /\ heap' = Delete(heap, o)
  /\ kind' = [kind EXCEPT ![o] = "none"]
  /\ m_isMutable' = [m_isMutable EXCEPT ![o] = FALSE]

\* CloneHandle: a second handle for the same object.
CloneHandle(h, g) ==
  /\ phase = "loaded"
  /\ handles[h] # NoObj /\ handles[g] = NoObj
  /\ handles' = [handles EXCEPT ![g] = handles[h]]
  /\ UNCHANGED <<heap, kind, m_isMutable, held, loading>>

\* The handle system removes a handle; the object goes with its last one.
RemoveHandle(h) ==
  /\ handles[h] # NoObj
  /\ handles' = [handles EXCEPT ![h] = NoObj]
  /\ IF HandlesOf(handles[h]) = {h}
     THEN Destroy(handles[h])
     ELSE UNCHANGED <<heap, kind, m_isMutable>>
  /\ UNCHANGED held

\* delete or CloseHandle by any plugin: the handle types restrict neither
\* reading nor deleting.  A plugin that unloads has its handles closed so.
CloseHandle(h) ==
  /\ phase = "loaded"
  /\ RemoveHandle(h)
  /\ UNCHANGED loading

\* ReleaseJsonValue, ReleaseArrIter, ReleaseObjIter.
ReleaseHeld(o) ==
  /\ phase = "loaded"
  /\ o \in held
  /\ held' = held \ {o}
  /\ Destroy(o)
  /\ UNCHANGED <<handles, loading>>

\* SDK_OnUnload begins once dependent extensions are gone.
BeginUnload ==
  /\ phase = "loaded"
  /\ held = {}
  /\ phase' = "rmJson"
  /\ UNCHANGED <<heap, kind, m_isMutable, handles, held, types, manager>>

TypeBeingRemovedNoObjIter ==
  CASE phase = "rmJson"    -> {"value"}
    [] phase = "rmArrIter" -> {"arrIter"}
    [] OTHER               -> {}

TypeBeingRemoved ==
  CASE phase = "rmJson"    -> {"value"}
    [] phase = "rmArrIter" -> {"arrIter"}
    [] phase = "rmObjIter" -> {"objIter"}
    [] OTHER               -> {}

\* RemoveType closes every handle of the type, one after the other ...
RemoveTypeHandle(h) ==
  /\ handles[h] # NoObj
  /\ kind[handles[h]] \in TypeBeingRemoved
  /\ RemoveHandle(h)
  /\ UNCHANGED loading

\* ... and returns when there is none left; the manager goes last.
NextPhase ==
  CASE phase = "rmJson"    -> "rmArrIter"
    [] phase = "rmArrIter" -> "rmObjIter"
    [] OTHER               -> "unloaded"

RemoveTypeDone ==
  /\ phase \in {"rmJson", "rmArrIter", "rmObjIter"}
  /\ \A h \in Handle : handles[h] # NoObj => kind[handles[h]] \notin TypeBeingRemoved
  /\ phase' = NextPhase
  /\ types' = types \ TypeBeingRemoved
  /\ manager' = (phase # "rmObjIter" /\ manager)
  /\ UNCHANGED <<heap, kind, m_isMutable, handles, held>>

\* What SDK_OnLoad has created when it returns: the types one after the
\* other, each of which may be refused.
Created == {{}, {"value"}, {"value", "arrIter"}, Kinds}

\* SDK_OnLoad: SourceMod refuses a type whose name is registered.  With all
\* types there the manager is made anew, which may fail, and then offered to
\* other extensions, which may be refused.  A load that fails takes nothing
\* back, and SourceMod does not call SDK_OnUnload after it.
Load ==
  /\ phase = "unloaded"
  /\ \E new \in Created :
       /\ new \cap types = {}
       /\ types' = types \cup new
       /\ manager' \in (IF new = Kinds THEN BOOLEAN ELSE {manager})
       /\ \/ phase' = "unloaded"
          \/ new = Kinds /\ manager' /\ phase' = "loaded"
  /\ UNCHANGED <<heap, kind, m_isMutable, handles, held>>

-----------------------------------------------------------------------------
Init ==
  /\ heap = EmptyHeap
  /\ kind = [o \in Obj |-> "none"]
  /\ m_isMutable = [o \in Obj |-> FALSE]
  /\ handles = [h \in Handle |-> NoObj]
  /\ held = {}
  /\ phase = "unloaded"
  /\ types = {}
  /\ manager = FALSE

Next ==
  \/ \E who \in Caller, o \in Obj :
       \/ Create(who, o)
       \/ Parse(who, o)
       \/ ParseTyped(who, o)
       \/ CopyDeep(who, o)
       \/ Convert(who, o)
       \/ Patch(who, o)
       \/ GetChild(who, o)
       \/ NewIterator(who, o)
       \/ IteratorValue(who, o)
  \/ \E who \in Caller : Compare(who)
  \/ \E h, g \in Handle : CloneHandle(h, g)
  \/ \E h \in Handle : CloseHandle(h) \/ RemoveTypeHandle(h)
  \/ \E o \in Obj : ReleaseHeld(o)
  \/ BeginUnload
  \/ RemoveTypeDone
  \/ Load

Spec == Init /\ [][Next]_vars

-----------------------------------------------------------------------------
(* The objects that keep document d.                                       *)
Sharers(d) == {o \in Obj : Live(o) /\ DocOf(heap, o) = d}

(***************************************************************************)
(* Every live object holds exactly one document, on the side its reader    *)
(* will look at: for a value the side IsMutable() finds, for an iterator   *)
(* the side its stored m_isMutable says.  The manager dereferences that    *)
(* member without a test in every accessor, and would crash or read the    *)
(* wrong one if any failure path published a half-built object.            *)
(***************************************************************************)
OneDocument ==
  \A o \in Obj : Live(o) =>
    /\ (heap.ptr[Mut(o)] = NoDoc) # (heap.ptr[Imm(o)] = NoDoc)
    /\ kind[o] # "value" => (m_isMutable[o] = IsMutable(o))

(***************************************************************************)
(* Between calls the storage that is allocated is exactly that of the      *)
(* documents of live objects: no failure path of any creator leaks a       *)
(* document, and no object outlives its document, in whatever order roots, *)
(* children, iterators and clones are closed.  JSON.RefCount, the counter  *)
(* inside a document, is the number of live values and iterators on it.    *)
(***************************************************************************)
NoLeakNoDangling ==
  /\ heap.alive = {DocOf(heap, o) : o \in {x \in Obj : Live(x)}}
  /\ \A o \in Obj :
       Live(o) => heap.count[DocOf(heap, o)] = Cardinality(Sharers(DocOf(heap, o)))

(***************************************************************************)
(* An object lives exactly as long as a handle or another extension owns   *)
(* it, and has one kind of owner: a refused handle leaves no orphan, a     *)
(* clone keeps the object, and the two release paths cannot both delete it.*)
(***************************************************************************)
OwnedOnce ==
  \A o \in Obj :
    /\ Live(o) <=> (HandlesOf(o) # {} \/ o \in held)
    /\ ~(HandlesOf(o) # {} /\ o \in held)

(***************************************************************************)
(* No call leaves anything half done: every counter is the number of       *)
(* RefPtr members pointing to its document, the call's own RefPtr          *)
(* variables are gone, it owns no plain document any more, and storage     *)
(* that holds no object holds no reference.                                *)
(***************************************************************************)
CallsComplete ==
  /\ HeapOK(heap) /\ heap.raw = {}
  /\ \A c \in {Tmp, DocRef, Param} : heap.ptr[c] = NoDoc
  /\ \A o \in FreeObj : heap.ptr[Mut(o)] = NoDoc /\ heap.ptr[Imm(o)] = NoDoc

WholeLoads ==
  /\ phase = "loaded" => types = Kinds /\ manager
  /\ phase # "loaded" => held = {}
  /\ \A o \in Obj : Live(o) => kind[o] \in types
  /\ phase = "unloaded" => heap.alive = {}

UnloadLeavesNothing ==
  [][(phase # "unloaded" /\ phase' = "unloaded") =>
       /\ types' = {} /\ ~manager'
       /\ \A h \in Handle : handles'[h] = NoObj
       /\ held' = {} /\ \A o \in Obj : kind'[o] = "none"
       /\ heap'.alive = {}]_vars

(***************************************************************************)
(* When SDK_OnUnload returns nothing is left: no type is registered, so a   *)
(* later load is not refused, the manager is gone, no handle is open, and   *)
(* no object and no document is allocated, whichever values and iterators   *)
(* plugins had left open and in whatever order they shared documents.       *)
(* A load that fails leaves types and perhaps a manager behind, which this  *)
(* does not deny: but natives run only with all three types and the         *)
(* manager, which they use without a test; no object is left, or made, of a *)
(* type that RemoveType is done with, not through iterators that are still  *)
(* open; and storage of documents is there only from a load that succeeded  *)
(* until the unload that ends it.                                          *)
(***************************************************************************)
UnloadFreesAll == []WholeLoads /\ UnloadLeavesNothing

(***************************************************************************)
(* No call, by whomever, makes an object that survives it refer to another *)
(* document: taking a child or an iterator value, cloning or closing       *)
(* leaves every other object's document alone.                             *)
(***************************************************************************)
DocumentFixed ==
  [][\A o \in Obj : (kind[o] # "none" /\ kind'[o] # "none")
                       => DocOf(heap', o) = DocOf(heap, o)]_vars

Lifetime == INSTANCE DocLifetime WITH
              Holder <- Obj, live <- heap.alive,
              holds <- [o \in Obj |-> DocOf(heap, o)]

(***************************************************************************)
(* With the objects as holders, the extension creates, shares and frees    *)
(* documents as DocLifetime says: a document is freed in the step in which *)
(* its last value or iterator goes, whichever that is.                     *)
(***************************************************************************)
ImplementsLifetime == Lifetime!Spec

=============================================================================
