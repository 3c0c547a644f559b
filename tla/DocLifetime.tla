---------------------------- MODULE DocLifetime -----------------------------
(***************************************************************************)
(* What reference counting promises of documents, with no counter in it:   *)
(* a document's storage is allocated when it is created and freed in the   *)
(* very step in which the last of its holders lets go, never before and    *)
(* never after.                                                            *)
(*                                                                         *)
(* A holder is whatever refers to a document: a RefPtr variable in         *)
(* RefPtrProgram, a JsonValue or iterator object in JsonOwnership.         *)
(***************************************************************************)
CONSTANTS Doc, Holder, NoDoc

VARIABLES
  holds,   \* the document each holder refers to, or NoDoc
  live     \* the documents whose storage is allocated

vars == <<holds, live>>

Held(f) == {f[x] : x \in Holder} \ {NoDoc}

Init ==
  /\ holds = [x \in Holder |-> NoDoc]
  /\ live = {}

\* x refers to a document created for it.
Create(x, d) ==
  /\ d \notin live
  /\ holds' = [holds EXCEPT ![x] = d]
  /\ live' = Held(holds')

\* x comes to refer to the document y refers to.
Share(x, y) ==
  /\ holds' = [holds EXCEPT ![x] = holds[y]]
  /\ live' = Held(holds')

\* x takes y's reference over.
Move(x, y) ==
  /\ x # y
  /\ holds' = [holds EXCEPT ![x] = holds[y], ![y] = NoDoc]
  /\ live' = Held(holds')

\* x lets go.
Drop(x) ==
  /\ holds' = [holds EXCEPT ![x] = NoDoc]
  /\ live' = Held(holds')

Next ==
  \E x \in Holder :
    \/ \E d \in Doc : Create(x, d)
    \/ \E y \in Holder : Share(x, y) \/ Move(x, y)
    \/ Drop(x)

Spec == Init /\ [][Next]_vars

=============================================================================
