--------------------------- MODULE RefPtrProgram ----------------------------
(***************************************************************************)
(* Any program that manages documents through RefPtr variables alone:      *)
(* every sequence of RefPtr constructions, copies, moves, resets and       *)
(* destructions, of every alias pattern (self-assignment, two cells on one *)
(* document, assignment onto a cell that holds something).  It implements  *)
(* DocLifetime with the cells as holders.                                  *)
(***************************************************************************)
EXTENDS RefCounted

VARIABLE memory

ProgramInit == memory = EmptyHeap

\* c = make_ref<T>(doc): the factory's temporary is moved into c.
AssignNew(c, d) ==
  /\ c # Tmp
  /\ d \notin memory.alive
  /\ memory.ptr[Tmp] = NoDoc
  /\ memory' = MoveAssign(MakeRef(RawNew(memory, d), Tmp, d), c, Tmp)

AssignCopy(c, src) == memory' = CopyAssign(memory, c, src)

AssignMove(c, src) == memory' = MoveAssign(memory, c, src)

\* RefPtr c(src) declared where no live RefPtr is.
ConstructCopy(c, src) ==
  /\ memory.ptr[c] = NoDoc
  /\ memory' = CopyInit(memory, c, src)

ResetTo(c, src) == memory' = Reset(memory, c, memory.ptr[src])

ResetNull(c) == memory' = Reset(memory, c, NoDoc)

LeaveScope(c) == memory' = Dtor(memory, c)

ProgramNext ==
  \E c \in Cell :
    \/ \E d \in Doc : AssignNew(c, d)
    \/ \E src \in Cell : AssignCopy(c, src)
    \/ \E src \in Cell : AssignMove(c, src)
    \/ \E src \in Cell : ConstructCopy(c, src)
    \/ \E src \in Cell : ResetTo(c, src)
    \/ ResetNull(c)
    \/ LeaveScope(c)

ProgramSpec == ProgramInit /\ [][ProgramNext]_memory

-----------------------------------------------------------------------------
(***************************************************************************)
(* The counter each document stores is the number of RefPtr variables that *)
(* point to it, storage is allocated exactly for the documents pointed to, *)
(* and the counter never underflows, whatever the program does.            *)
(***************************************************************************)
CountsMatchPointers == HeapOK(memory) /\ memory.raw = {}

ProgramLifetime == INSTANCE DocLifetime WITH
              Holder <- Cell, holds <- memory.ptr, live <- memory.alive

(***************************************************************************)
(* A program of RefPtr operations creates, shares and frees documents as   *)
(* DocLifetime says: storage goes away in the step in which the last       *)
(* RefPtr lets go, also under aliasing and self-assignment.                *)
(***************************************************************************)
ProgramImplementsLifetime == ProgramLifetime!Spec

=============================================================================
